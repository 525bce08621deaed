----------------------------- MODULE CallsProofs ------------------------------
(***************************************************************************)
(* Theorems about the clients of a channel (UdsClient), about the wait an  *)
(* interrupted call of theirs is left by (OnThread), and about the loop a  *)
(* script receives in (EventLoop).                                         *)
(*                                                                         *)
(* The clients, for any number of clients, threads, runs and calls.  An    *)
(* open connection is an orphan or the one its client has (Kept, Current); *)
(* it was told what its client was told, but for the one setting a thread  *)
(* holding that client's lock is about to keep (Told).  What a call may    *)
(* rely on is what its locks give it (Keeps): its handles are its clients' *)
(* own, and nobody else tells them anything or asks them for a seed.  No   *)
(* step of another thread touches what stands behind a held lock (Spares), *)
(* except that a stop or a close may let the connection go: the call then  *)
(* finds its handle closed and is refused.                                 *)
(***************************************************************************)
EXTENDS UdsClient, OnThread, EventLoop, NaturalsInduction, WellFoundedInduction, TLAPS

(* The clients of a channel *)


Places == UNION {s.places : s \in Scripts}

Connections ==
    [client : All, run : Nat, at : Places, is : {"open", "closing", "closed"}, stated : Nat, seed : Nat]
Clientele ==
    [h : Nat, is : {"unmade", "made", "closed", "collected"}, at : Places \cup {Nobody}, stated : Nat,
     in_key_fn : BOOLEAN]
Holding ==      \* the stations of a call that has its clients' locks
    {"handles", "resolving", "asking", "inside", "reading", "keeping", "flashing", "in_progress", "cancelling"}
Stations == Holding \cup {"idle", "want", "leaving", "key_fn", "closing", "stopping", "answered", "decoded"}
Doing ==
    [pc : Stations, kind : Kinds \cup {"none"}, cs : SUBSET All, hs : SUBSET Nat, run : Nat,
     outer : [client : All \cup {Nobody}, h : Nat, seed : Nat]]

Shape ==
    /\ script \in Scripts
    /\ lock \in Threads \cup {Nobody}
    /\ run \in [on : BOOLEAN, number : Nat, at : Places]
    /\ client \in [All -> Clientele]
    /\ owner \in [All -> Threads \cup {Nobody}]
    /\ conn \in Seq(Connections) /\ orphans \subseteq DOMAIN conn
    /\ thread \in [Threads -> Doing]
    /\ begun \in [Threads -> Nat]

\* A connection is of the run it was opened in, and reaches its node where the client does.
Reached ==
    \A h \in DOMAIN conn :
        /\ conn[h].run <= run.number
        /\ client[conn[h].client].is # "unmade"
        /\ conn[h].client \in Nodes => conn[h].at = client[conn[h].client].at

\* A client's connection is open, its own, and of the run that is on.
Current ==
    \A c \in All : client[c].h # 0 =>
        /\ client[c].is = "made" /\ run.on
        /\ client[c].h \in DOMAIN conn \ orphans
        /\ conn[client[c].h].client = c /\ Open(client[c].h) /\ conn[client[c].h].run = run.number

\* An open connection is its client's, or an orphan.
Kept == \A h \in DOMAIN conn : Open(h) => h \in orphans \/ client[conn[h].client].h = h

\* ... and was told what its client was, but for a setting the library took and its caller is about to keep.
Keeping(c) == \E t \in Threads : thread[t].pc = "keeping" /\ c \in thread[t].cs
Told ==
    \A c \in All : client[c].h # 0 =>
        conn[client[c].h].stated = client[c].stated + (IF Keeping(c) THEN 1 ELSE 0)

\* A raw channel has nothing to state.
Silent == \A c \in IsoTps : client[c].stated = 0

\* What a thread holds by its call, by the handles it got, and by the key_fn it is inside.
Claims(t) ==
    /\ thread[t].pc \in Holding \cup {"want", "answered", "decoded"} =>
          /\ \A c \in thread[t].cs : client[c].is \in {"made", "closed"}
          /\ thread[t].kind \in Statements => thread[t].cs \subseteq Clients
          /\ thread[t].kind \in {"read", "write"} => thread[t].cs \subseteq Nodes
          /\ thread[t].kind \notin Functionals => \A c, d \in thread[t].cs : c = d
    /\ thread[t].pc \in Holding => \A c \in thread[t].cs : owner[c] = t
    /\ thread[t].pc = "want" => thread[t].hs = {} /\ thread[t].kind # "none"

Handles(t) ==
    thread[t].pc \in Holding \cup {"answered", "decoded"} =>
        /\ thread[t].hs \subseteq DOMAIN conn \ orphans
        /\ \A h \in thread[t].hs : conn[h].client \in thread[t].cs
        /\ \A g, h \in thread[t].hs : conn[g].client = conn[h].client => g = h

Unlocks(t) ==
    LET outer == thread[t].outer
    IN  thread[t].outer # NoAccess =>
            /\ outer.client \in All /\ owner[outer.client] = t /\ client[outer.client].is \in {"made", "closed"}
            /\ outer.h \in DOMAIN conn \ orphans /\ conn[outer.h].client = outer.client
            /\ conn[outer.h].seed = outer.seed
            /\ thread[t].kind # "key" => client[outer.client].in_key_fn

\* The key goes out on the seed's connection, and no seed is asked for inside the key_fn it comes from.
Keys(t) ==
    /\ thread[t].pc = "resolving" => thread[t].kind = "write"
    /\ thread[t].pc = "keeping" => thread[t].kind \in Statements
    /\ thread[t].pc = "key_fn" => thread[t].outer # NoAccess /\ thread[t].kind = "none"
    /\ thread[t].kind = "key" =>
          /\ thread[t].outer # NoAccess
          /\ thread[t].cs = {thread[t].outer.client} /\ thread[t].hs = {thread[t].outer.h}
          /\ thread[t].pc \in {"asking", "inside", "reading", "leaving"}
    /\ thread[t].pc \in {"handles", "asking", "inside"} /\ thread[t].kind \in Seeds \cup {"access", "retarget"} =>
          \A c \in thread[t].cs : ~client[c].in_key_fn

Suits(t) ==
    /\ thread[t].pc = "inside" => \A h \in thread[t].hs :
          /\ conn[h].stated = client[conn[h].client].stated
          /\ client[conn[h].client].h \in {0, h}
    /\ thread[t].pc = "keeping" => \A h \in thread[t].hs : client[conn[h].client].h \in {0, h}
    /\ thread[t].kind = "read" /\ thread[t].pc \in Holding \cup {"want", "answered", "decoded"} =>
          thread[t].run <= run.number
    /\ thread[t].kind = "read" /\ thread[t].pc \in Holding \cup {"answered", "decoded"} =>
          \A h \in thread[t].hs : thread[t].run <= conn[h].run
    /\ thread[t].kind = "read" /\ thread[t].pc = "decoded" => \A h \in thread[t].hs : thread[t].run = conn[h].run
    /\ thread[t].kind = "write" /\ thread[t].pc \in {"asking", "inside"} =>
          thread[t].run <= run.number /\ \A h \in thread[t].hs : conn[h].run <= thread[t].run
    /\ thread[t].kind = "write" /\ thread[t].pc = "inside" => \A h \in thread[t].hs : conn[h].run = thread[t].run
    /\ thread[t].pc \in {"closing", "stopping"} =>
          thread[t].hs \subseteq DOMAIN conn /\ \A h \in thread[t].hs : ~Open(h)

\* A flash whose progress raised was cancelled, before it could be checked.
Cancelled ==
    /\ flash \in [worker : {"none", "starting", "transfer", "asked", "checked", "ended"}, left : Nat,
                  cancel : BOOLEAN, raised : BOOLEAN]
    /\ flash.raised => flash.cancel /\ flash.worker # "checked"

Keeps(t) == Claims(t) /\ Handles(t) /\ Unlocks(t) /\ Keys(t) /\ Suits(t)
IInv ==
    /\ Shape /\ Reached /\ Current /\ Kept /\ Told /\ Silent
    /\ (\A t \in Threads : Keeps(t)) /\ Cancelled

-------------------------------------------------------------------------------
(* What the other threads leave a thread with *)

\* The connections there are stay of their client, run and place, and none is opened again.
ConnsStay ==
    \A h \in DOMAIN conn :
        /\ h \in DOMAIN conn'
        /\ conn'[h].client = conn[h].client /\ conn'[h].run = conn[h].run /\ conn'[h].at = conn[h].at
        /\ conn'[h].is = "open" => conn[h].is = "open"

\* What no step of another thread touches: u's locks, and what stands behind them.
Spares(u) ==
    /\ thread'[u] = thread[u] /\ run.number <= run'.number /\ ConnsStay
    /\ \A c \in All : owner[c] = u =>
          /\ owner'[c] = u
          /\ client'[c].in_key_fn = client[c].in_key_fn /\ client'[c].stated = client[c].stated
          /\ client[c].is \in {"made", "closed"} => client'[c].h \in {client[c].h, 0}
    /\ \A c \in thread[u].cs \cup {thread[u].outer.client} :
          c \in All /\ client[c].is \in {"made", "closed"} => client'[c].is \in {"made", "closed"}
    /\ \A h \in DOMAIN conn :
          /\ owner[conn[h].client] = u => conn'[h].seed = conn[h].seed /\ conn'[h].stated = conn[h].stated
          /\ h \notin orphans /\ conn[h].client \in thread[u].cs \cup {thread[u].outer.client} => h \notin orphans'

\* The connections there are, field by field.
LEMMA ConnTypes ==
    ASSUME Shape
    PROVE  /\ Len(conn) \in Nat /\ DOMAIN conn = 1 .. Len(conn)
           /\ \A h \in DOMAIN conn :
                 /\ conn[h] \in Connections /\ h \in Nat \ {0}
                 /\ conn[h].client \in All /\ conn[h].run \in Nat /\ conn[h].at \in Places
                 /\ conn[h].is \in {"open", "closing", "closed"} /\ conn[h].stated \in Nat /\ conn[h].seed \in Nat
<1>1. conn \in Seq(Connections) /\ Len(conn) \in Nat /\ DOMAIN conn = 1 .. Len(conn)
    BY DEF Shape
<1>2. \A h \in DOMAIN conn : conn[h] \in Connections
    BY <1>1
<1> QED BY <1>1, <1>2 DEF Connections

\* What a thread's record holds.
LEMMA DoingTypes ==
    ASSUME Shape, NEW t \in Threads
    PROVE  /\ thread[t] \in Doing
           /\ thread[t].pc \in Stations /\ thread[t].kind \in Kinds \cup {"none"} /\ thread[t].cs \subseteq All
           /\ thread[t].hs \subseteq Nat /\ thread[t].run \in Nat
           /\ thread[t].outer.client \in All \cup {Nobody} /\ thread[t].outer.h \in Nat /\ thread[t].outer.seed \in Nat
<1>1. thread[t] \in Doing
    BY DEF Shape
<1> QED BY <1>1 DEF Doing

\* A thread keeps what it holds through another thread's step that spares it.
LEMMA SparedKeeps ==
    ASSUME Shape, Shape', NEW u \in Threads, Keeps(u), Spares(u)
    PROVE  Keeps(u)'
<1>1. /\ thread'[u] = thread[u] /\ run.number \in Nat /\ run'.number \in Nat
      /\ run.number <= run'.number /\ thread[u].run \in Nat /\ thread[u] \in Doing
      /\ \A h \in DOMAIN conn : conn[h].client \in All /\ conn[h].run \in Nat
  <2>1. run.number \in Nat /\ run'.number \in Nat
      BY DEF Shape
  <2> QED BY <2>1, ConnTypes, DoingTypes DEF Spares
<1>2. Claims(u)'
    BY <1>1 DEF Spares, Keeps, Claims, Doing
<1>3. Handles(u)'
    BY <1>1 DEF Spares, Keeps, Handles, ConnsStay
<1>4. Unlocks(u)'
    BY <1>1 DEF Spares, Keeps, Unlocks, ConnsStay
<1>5. Keys(u)'
  <2>1. ASSUME thread[u].pc \in {"handles", "asking", "inside"}, thread[u].kind \in Seeds \cup {"access", "retarget"},
               NEW c \in thread[u].cs
        PROVE  ~client'[c].in_key_fn
      BY <1>1, <2>1 DEF Spares, Keeps, Keys, Claims, Holding, Doing
  <2> QED BY <1>1, <2>1 DEF Keeps, Keys
<1>6. Suits(u)'
  <2>1. ASSUME thread[u].pc \in {"inside", "keeping"}, NEW h \in thread[u].hs
        PROVE  /\ thread[u].pc = "inside" => conn'[h].stated = client'[conn'[h].client].stated
               /\ client'[conn'[h].client].h \in {0, h}
    <3>1. /\ h \in DOMAIN conn /\ conn[h].client \in thread[u].cs /\ owner[conn[h].client] = u
          /\ client[conn[h].client].is \in {"made", "closed"}
        BY <2>1 DEF Keeps, Handles, Claims, Holding
    <3> QED BY <1>1, <2>1, <3>1 DEF Spares, Keeps, Suits, ConnsStay
  <2>2. thread[u].pc \in Holding \cup {"answered", "decoded"} => thread[u].hs \subseteq DOMAIN conn
      BY DEF Keeps, Handles
  <2>3. /\ thread[u].kind = "read" /\ thread[u].pc \in Holding \cup {"want", "answered", "decoded"} =>
             thread[u].run <= run'.number
        /\ thread[u].kind = "read" /\ thread[u].pc \in Holding \cup {"answered", "decoded"} =>
             \A h \in thread[u].hs : thread[u].run <= conn'[h].run
        /\ thread[u].kind = "read" /\ thread[u].pc = "decoded" => \A h \in thread[u].hs : thread[u].run = conn'[h].run
        /\ thread[u].kind = "write" /\ thread[u].pc \in {"asking", "inside"} =>
             thread[u].run <= run'.number /\ \A h \in thread[u].hs : conn'[h].run <= thread[u].run
        /\ thread[u].kind = "write" /\ thread[u].pc = "inside" => \A h \in thread[u].hs : conn'[h].run = thread[u].run
      BY <1>1, <2>2 DEF Spares, Keeps, Suits, ConnsStay, Holding
  <2>4. thread[u].pc \in {"closing", "stopping"} =>
             thread[u].hs \subseteq DOMAIN conn' /\ \A h \in thread[u].hs : conn'[h].is # "open"
      BY <1>1 DEF Spares, Keeps, Suits, ConnsStay, Open
  <2> QED BY <1>1, <2>1, <2>3, <2>4 DEF Suits, Open
<1> QED BY <1>2, <1>3, <1>4, <1>5, <1>6 DEF Keeps

-------------------------------------------------------------------------------
(* A call's own step *)

\* Only t's station is another.
Turns(t, pc) ==
    /\ thread' \in [Threads -> Doing] /\ \A u \in Threads \ {t} : thread'[u] = thread[u]
    /\ thread'[t].pc = pc /\ thread'[t].kind = thread[t].kind /\ thread'[t].cs = thread[t].cs
    /\ thread'[t].hs = thread[t].hs /\ thread'[t].run = thread[t].run /\ thread'[t].outer = thread[t].outer

\* A thread sent to another station changes nothing else of what it does.
LEMMA TurnIs ==
    ASSUME Shape, NEW t \in Threads, NEW pc \in Stations, thread' = [thread EXCEPT ![t].pc = pc]
    PROVE  Turns(t, pc)
<1>1. thread \in [Threads -> Doing] /\ thread[t] \in Doing
    BY DEF Shape
<1>2. thread'[t] = [thread[t] EXCEPT !.pc = pc] /\ thread'[t] \in Doing
    BY <1>1 DEF Doing
<1> QED BY <1>1, <1>2 DEF Turns, Doing

\* ... or it is back where its call came from.
Rests(t) ==
    /\ thread' \in [Threads -> Doing] /\ \A u \in Threads \ {t} : thread'[u] = thread[u]
    /\ thread'[t].kind = "none" /\ thread'[t].cs = {} /\ thread'[t].hs = {} /\ thread'[t].run = 0
    /\ \/ thread'[t].pc = "idle" /\ thread'[t].outer = NoAccess
       \/ /\ thread'[t].pc = "key_fn" /\ thread'[t].outer = thread[t].outer
          /\ thread[t].outer # NoAccess /\ thread[t].kind # "key"

\* A thread back from a call is idle, or in the key_fn the call was made in.
LEMMA BackIs ==
    ASSUME Shape, NEW t \in Threads
    PROVE  /\ Back(t) \in Doing
           /\ Back(t).kind = "none" /\ Back(t).cs = {} /\ Back(t).hs = {} /\ Back(t).run = 0
           /\ \/ Back(t).pc = "idle" /\ Back(t).outer = NoAccess
              \/ /\ Back(t).pc = "key_fn" /\ Back(t).outer = thread[t].outer
                 /\ thread[t].outer # NoAccess /\ thread[t].kind # "key"
<1>1. thread[t] \in Doing /\ Idle \in Doing /\ Idle.outer = NoAccess
    BY DEF Shape, Doing, Idle, NoAccess, Stations, Kinds
<1>2. CASE InKeyFn(t) /\ thread[t].kind # "key"
  <2>1. Back(t) = [Idle EXCEPT !.pc = "key_fn", !.outer = thread[t].outer]
      BY <1>2 DEF Back
  <2>2. thread[t].outer # NoAccess /\ thread[t].kind # "key"
      BY <1>2 DEF InKeyFn
  <2> QED BY <1>1, <2>1, <2>2 DEF Doing, Idle, Stations
<1>3. CASE ~(InKeyFn(t) /\ thread[t].kind # "key")
    BY <1>1, <1>3 DEF Back, Idle
<1> QED BY <1>2, <1>3

\* ... and so is the thread a step sends back.
LEMMA RestIs ==
    ASSUME Shape, NEW t \in Threads, thread' = [thread EXCEPT ![t] = Back(t)]
    PROVE  Rests(t)
BY BackIs DEF Rests, Shape

\* What a thread gives back: nothing another holds, nor the client its key_fn unlocks.
LEMMA UnlockedIs ==
    ASSUME Shape, NEW t \in Threads, owner' = Unlocked(t)
    PROVE  /\ owner' \in [All -> Threads \cup {Nobody}]
           /\ \A c \in All : owner[c] # t => owner'[c] = owner[c]
           /\ owner[thread[t].outer.client] = t /\ thread[t].outer.client \in All /\ thread[t].kind # "key" =>
                 owner'[thread[t].outer.client] = t
BY DEF Shape, Unlocked

\* The client it unlocks stays its own.
OuterStays(t) ==
    LET outer == thread[t].outer
    IN  thread[t].outer # NoAccess /\ thread[t].kind # "key" =>
            /\ owner'[outer.client] = t /\ client'[outer.client].is \in {"made", "closed"}
            /\ outer.h \in DOMAIN conn' \ orphans' /\ conn'[outer.h].client = outer.client
            /\ conn'[outer.h].seed = outer.seed /\ client'[outer.client].in_key_fn

\* A thread sent back holds no more than its key_fn's own client, which the call left alone.
LEMMA RestKeeps ==
    ASSUME NEW t \in Threads, Keeps(t), Rests(t), OuterStays(t)
    PROVE  Keeps(t)'
BY DEF Keeps, Claims, Handles, Unlocks, Keys, Suits, Rests, OuterStays, Holding, Functionals, Statements, Seeds

\* A step of t that only takes or gives back locks.
LEMMA CallKeeps ==
    ASSUME IInv, NEW t \in Threads, thread' \in [Threads -> Doing], owner' \in [All -> Threads \cup {Nobody}],
           begun' \in [Threads -> Nat],
           UNCHANGED <<script, lock, run, client, conn, orphans>>, Keeps(t)', Cancelled',
           \A u \in Threads \ {t} : thread'[u] = thread[u],
           \A c \in All : owner[c] \notin {t, Nobody} => owner'[c] = owner[c],
           thread[t].pc # "keeping", thread'[t].pc # "keeping"
    PROVE  IInv'
<1>1. Shape /\ Shape'
    BY DEF IInv, Shape
<1>2. ASSUME NEW u \in Threads \ {t}
      PROVE  Keeps(u)'
  <2>1. Keeps(u) /\ u \in Threads /\ u # t /\ u # Nobody
      BY UdsAssumption DEF IInv
  <2>2. run.number \in Nat /\ run' = run
      BY <1>1 DEF Shape
  <2>3. ConnsStay
      BY DEF ConnsStay
  <2>4. Spares(u)
      BY <1>1, <2>1, <2>2, <2>3 DEF Spares
  <2> QED BY <1>1, <2>1, <2>4, SparedKeeps
<1>3. \A c \in All : Keeping(c)' <=> Keeping(c)
    BY DEF Keeping
<1>4. Reached' /\ Current' /\ Kept' /\ Silent'
    BY DEF IInv, Reached, Current, Kept, Silent, Open
<1>5. Told'
    BY <1>3 DEF IInv, Told
<1> QED BY <1>1, <1>2, <1>4, <1>5 DEF IInv

\* A call that comes to its end keeps what is due to the key_fn it was made in.
LEMMA ReturnsKeeps ==
    ASSUME IInv, NEW t \in Threads, Returns(t), UNCHANGED <<script, lock, run, client, conn, orphans, begun>>,
           Cancelled', thread[t].pc # "keeping"
    PROVE  IInv'
<1>1. Shape /\ Keeps(t) /\ thread' = [thread EXCEPT ![t] = Back(t)] /\ owner' = Unlocked(t)
    BY DEF IInv, Returns
<1>2. Rests(t)
    BY <1>1, RestIs
<1>3. /\ owner' \in [All -> Threads \cup {Nobody}]
      /\ \A c \in All : owner[c] # t => owner'[c] = owner[c]
      /\ owner[thread[t].outer.client] = t /\ thread[t].outer.client \in All /\ thread[t].kind # "key" =>
            owner'[thread[t].outer.client] = t
    BY <1>1, UnlockedIs
<1>4. OuterStays(t)
    BY <1>1, <1>3 DEF OuterStays, Keeps, Unlocks
<1>5. Keeps(t)'
    BY <1>1, <1>2, <1>4, RestKeeps
<1>6. thread'[t].pc # "keeping" /\ begun' \in [Threads -> Nat]
    BY <1>1, <1>2 DEF Rests, Shape
<1> QED BY <1>2, <1>3, <1>5, <1>6, CallKeeps DEF Rests

\* A call goes on to another station, its clients, connections and locks as they are.
LEMMA TurnKeeps ==
    ASSUME IInv, NEW t \in Threads, NEW pc \in Stations, Turns(t, pc), Keys(t)', Suits(t)',
           UNCHANGED <<script, lock, run, client, conn, orphans, owner, begun>>, Cancelled',
           thread[t].pc \in Holding \/ pc \notin Holding,
           thread[t].pc \in Holding \cup {"answered", "decoded"} \/ pc \notin {"answered", "decoded"},
           thread[t].pc # "keeping", pc \notin {"keeping", "want"}
    PROVE  IInv'
<1>1. Shape /\ Keeps(t)
    BY DEF IInv
<1>2. Claims(t)' /\ Handles(t)'
    BY <1>1 DEF Turns, Keeps, Claims, Handles, Holding
<1>3. Unlocks(t)'
    BY <1>1 DEF Turns, Keeps, Unlocks
<1>4. Keeps(t)'
    BY <1>2, <1>3 DEF Keeps
<1>5. /\ thread[t].pc # "keeping" /\ thread'[t].pc # "keeping" /\ begun' \in [Threads -> Nat]
      /\ owner' \in [All -> Threads \cup {Nobody}]
    BY <1>1 DEF Turns, Shape
<1> QED BY <1>4, <1>5, CallKeeps DEF Turns

-------------------------------------------------------------------------------
(* Calls that change no connection *)

\* A call that leaves gives its locks back and nothing else.
LEMMA LeaveKeeps == ASSUME IInv, NEW t \in Threads, Leave(t), UNCHANGED flash PROVE IInv'
BY ReturnsKeeps DEF Leave, IInv, Cancelled

\* ... and so does one that has read its answer.
LEMMA ReadBackKeeps == ASSUME IInv, NEW t \in Threads, ReadBack(t), UNCHANGED flash PROVE IInv'
BY ReturnsKeeps DEF ReadBack, IInv, Cancelled

\* An answer comes: the call goes on to read it, holding what it held.
LEMMA AnsweredKeeps == ASSUME IInv, NEW t \in Threads, Answered(t), UNCHANGED flash PROVE IInv'
<1>1. Shape /\ Keeps(t) /\ Cancelled /\ thread[t].pc = "inside" /\ "reading" \in Stations
    BY DEF IInv, Answered, Stations, Holding
<1>2. Turns(t, "reading")
    BY <1>1, TurnIs DEF Answered
<1>3. Keys(t)' /\ Suits(t)'
    BY <1>1, <1>2 DEF Turns, Keeps, Keys, Suits, Holding, Answered
<1> QED BY <1>1, <1>2, <1>3, TurnKeeps DEF Answered, Cancelled, Holding

\* A slice of recv asks again on the handle it has, or reads.
LEMMA SliceKeeps == ASSUME IInv, NEW t \in Threads, Slice(t), UNCHANGED flash PROVE IInv'
<1>1. PICK pc \in {"asking", "reading"} : thread' = [thread EXCEPT ![t].pc = pc]
    BY DEF Slice
<1>2. Shape /\ Keeps(t) /\ Cancelled /\ thread[t].pc = "inside" /\ thread[t].kind = "recv" /\ pc \in Stations
    BY DEF IInv, Slice, Stations, Holding
<1>3. Turns(t, pc)
    BY <1>1, <1>2, TurnIs
<1>4. Keys(t)' /\ Suits(t)'
    BY <1>2, <1>3 DEF Turns, Keeps, Keys, Suits, Holding, Slice, Seeds
<1> QED BY <1>2, <1>3, <1>4, TurnKeeps DEF Slice, Cancelled, Holding

\* A thread that reads the run's number and goes on changes nothing else of what it does.
LEMMA MovesIs ==
    ASSUME Shape, NEW t \in Threads, NEW pc \in Stations, NEW r \in Nat,
           thread' = [thread EXCEPT ![t].run = r, ![t].pc = pc]
    PROVE  /\ thread' \in [Threads -> Doing] /\ \A u \in Threads \ {t} : thread'[u] = thread[u]
           /\ thread'[t].pc = pc /\ thread'[t].kind = thread[t].kind /\ thread'[t].cs = thread[t].cs
           /\ thread'[t].hs = thread[t].hs /\ thread'[t].run = r /\ thread'[t].outer = thread[t].outer
<1>1. thread \in [Threads -> Doing] /\ thread[t] \in Doing
    BY DEF Shape
<1>2. thread'[t] = [thread[t] EXCEPT !.run = r, !.pc = pc] /\ thread'[t] \in Doing
    BY <1>1 DEF Doing
<1> QED BY <1>1, <1>2 DEF Doing

\* A write is resolved in the run that is on, behind the handle it got: no later one can have opened it.
LEMMA ResolveKeeps == ASSUME IInv, NEW t \in Threads, Resolve(t), UNCHANGED flash PROVE IInv'
<1> DEFINE pc == IF run.on THEN "asking" ELSE "leaving"
<1>1. /\ Shape /\ Keeps(t) /\ Cancelled /\ Reached /\ thread[t].pc = "resolving" /\ thread[t].kind = "write"
      /\ run.number \in Nat /\ pc \in {"asking", "leaving"}
    BY DEF IInv, Resolve, Keeps, Keys, Shape
<1>2. /\ thread' \in [Threads -> Doing] /\ \A u \in Threads \ {t} : thread'[u] = thread[u]
      /\ thread'[t].pc = pc /\ thread'[t].kind = thread[t].kind /\ thread'[t].cs = thread[t].cs
      /\ thread'[t].hs = thread[t].hs /\ thread'[t].run = run.number /\ thread'[t].outer = thread[t].outer
  <2>1. thread' = [thread EXCEPT ![t].run = run.number, ![t].pc = pc]
      BY DEF Resolve
  <2> HIDE DEF pc
  <2>2. pc \in Stations
      BY <1>1 DEF Stations, Holding
  <2> QED BY <1>1, <2>1, <2>2, MovesIs
<1> HIDE DEF pc
<1>3. Claims(t)' /\ Handles(t)' /\ Unlocks(t)' /\ Keys(t)'
    BY <1>1, <1>2 DEF Keeps, Claims, Handles, Unlocks, Keys, Holding, Resolve, Seeds
<1>4. thread[t].hs \subseteq DOMAIN conn
    BY <1>1 DEF Keeps, Handles, Holding
<1>5. \A h \in thread[t].hs : conn[h].run <= run.number
    BY <1>1, <1>4 DEF Reached
<1>6. Suits(t)'
    BY <1>1, <1>2, <1>5 DEF Suits, Resolve
<1>7. Keeps(t)' /\ Cancelled' /\ begun' \in [Threads -> Nat] /\ owner' \in [All -> Threads \cup {Nobody}]
    BY <1>1, <1>3, <1>6 DEF Keeps, Cancelled, Resolve, Shape
<1> QED BY <1>1, <1>2, <1>7, CallKeeps DEF Resolve

\* Nobody else keeps a setting of a client whose lock this thread has.
LEMMA KeepingOwns ==
    ASSUME IInv, NEW c \in All, Keeping(c)
    PROVE  \E t \in Threads : thread[t].pc = "keeping" /\ c \in thread[t].cs /\ owner[c] = t
BY DEF Keeping, IInv, Keeps, Claims, Holding

\* A call goes out on handles that are open, which are its clients' own and were told what these were.
LEMMA BeginCallKeeps == ASSUME IInv, NEW t \in Threads, BeginCall(t), UNCHANGED flash PROVE IInv'
<1> DEFINE pc == IF \A h \in thread[t].hs : Open(h) THEN "inside" ELSE "leaving"
<1>1. /\ Shape /\ Keeps(t) /\ Cancelled /\ thread[t].pc = "asking" /\ pc \in {"inside", "leaving"} /\ pc \in Stations
      /\ run.number \in Nat
    BY DEF IInv, BeginCall, Stations, Holding, Shape
<1>2. Turns(t, pc)
    BY <1>1, TurnIs DEF BeginCall
<1>3. ASSUME pc = "inside", NEW h \in thread[t].hs
      PROVE  /\ client[conn[h].client].h = h /\ conn[h].stated = client[conn[h].client].stated
             /\ conn[h].run = run.number
  <2>1. Open(h) /\ h \in DOMAIN conn \ orphans /\ conn[h].client \in thread[t].cs /\ owner[conn[h].client] = t
      BY <1>1, <1>3 DEF Keeps, Handles, Claims, Holding
  <2>2. conn[h].client \in All /\ h # 0 /\ conn[h].stated \in Nat
      BY <1>1, <2>1, ConnTypes
  <2>3. client[conn[h].client].h = h
      BY <2>1 DEF IInv, Kept
  <2>4. ~Keeping(conn[h].client)
      BY <1>1, <2>1, <2>2, KeepingOwns
  <2>5. client[conn[h].client].stated \in Nat
      BY <1>1, <2>2 DEF Shape, Clientele
  <2> QED BY <2>2, <2>3, <2>4, <2>5 DEF IInv, Told, Current
<1> HIDE DEF pc
<1>4. Keys(t)'
    BY <1>1, <1>2 DEF Turns, Keeps, Keys, BeginCall
<1>5. thread[t].hs \subseteq DOMAIN conn /\ \A h \in thread[t].hs : conn[h].run \in Nat /\ thread[t].run \in Nat
    BY <1>1, ConnTypes, DoingTypes DEF Keeps, Handles, Holding
<1>6. Suits(t)'
    BY <1>1, <1>2, <1>3, <1>5 DEF Turns, Keeps, Suits, BeginCall, Holding
<1> QED BY <1>1, <1>2, <1>4, <1>6, TurnKeeps DEF BeginCall, Cancelled, Holding

\* A read gives its client back with the run it was resolved in and the handle it read from.
LEMMA ReadAnsweredKeeps == ASSUME IInv, NEW t \in Threads, ReadAnswered(t), UNCHANGED flash PROVE IInv'
<1>1. /\ Shape /\ Keeps(t) /\ Cancelled /\ thread[t].pc = "inside" /\ thread[t].kind = "read"
      /\ "answered" \in Stations
    BY DEF IInv, ReadAnswered, Stations
<1>2. Turns(t, "answered")
    BY <1>1, TurnIs DEF ReadAnswered
<1>3. /\ owner' \in [All -> Threads \cup {Nobody}]
      /\ \A c \in All : owner[c] # t => owner'[c] = owner[c]
      /\ owner[thread[t].outer.client] = t /\ thread[t].outer.client \in All /\ thread[t].kind # "key" =>
            owner'[thread[t].outer.client] = t
    BY <1>1, UnlockedIs DEF ReadAnswered
<1>4. Claims(t)' /\ Handles(t)' /\ Keys(t)' /\ Suits(t)'
    BY <1>1, <1>2 DEF Turns, Keeps, Claims, Handles, Keys, Suits, Holding, ReadAnswered
<1>5. Unlocks(t)'
    BY <1>1, <1>2, <1>3 DEF Turns, Keeps, Unlocks, ReadAnswered
<1>6. Keeps(t)' /\ Cancelled' /\ begun' \in [Threads -> Nat]
    BY <1>1, <1>4, <1>5 DEF Keeps, Cancelled, ReadAnswered, Shape
<1> QED BY <1>1, <1>2, <1>3, <1>6, CallKeeps DEF ReadAnswered, Turns

\* A read is decoded only in the run it was resolved in, which is then that of its connection.
LEMMA DecodeKeeps == ASSUME IInv, NEW t \in Threads, Decode(t), UNCHANGED flash PROVE IInv'
<1> DEFINE pc == IF MayDecode(t) THEN "decoded" ELSE "leaving"
<1>1. /\ Shape /\ Keeps(t) /\ Cancelled /\ Reached /\ thread[t].pc = "answered" /\ run.number \in Nat
      /\ pc \in {"decoded", "leaving"} /\ (pc = "decoded" => thread[t].run = run.number)
    BY DEF IInv, Decode, Shape, MayDecode
<1>2. /\ thread' \in [Threads -> Doing] /\ \A u \in Threads \ {t} : thread'[u] = thread[u]
      /\ thread'[t].pc = pc /\ thread'[t].kind = thread[t].kind /\ thread'[t].cs = thread[t].cs
      /\ thread'[t].hs = thread[t].hs /\ thread'[t].run = run.number /\ thread'[t].outer = thread[t].outer
  <2>1. thread' = [thread EXCEPT ![t].run = run.number, ![t].pc = pc]
      BY DEF Decode
  <2> HIDE DEF pc
  <2>2. pc \in Stations
      BY <1>1 DEF Stations, Holding
  <2> QED BY <1>1, <2>1, <2>2, MovesIs
<1> HIDE DEF pc
<1>3. Claims(t)' /\ Handles(t)' /\ Unlocks(t)' /\ Keys(t)'
    BY <1>1, <1>2 DEF Keeps, Claims, Handles, Unlocks, Keys, Holding, Decode
<1>4. thread[t].hs \subseteq DOMAIN conn /\ \A h \in thread[t].hs : conn[h].run \in Nat
    BY <1>1, ConnTypes DEF Keeps, Handles
<1>5. \A h \in thread[t].hs : conn[h].run <= run.number
    BY <1>1, <1>4 DEF Reached
<1>6. Suits(t)'
    BY <1>1, <1>2, <1>4, <1>5 DEF Suits, Keeps, Decode, Holding
<1>7. Keeps(t)' /\ Cancelled' /\ begun' \in [Threads -> Nat] /\ owner' \in [All -> Threads \cup {Nobody}]
    BY <1>1, <1>3, <1>6 DEF Keeps, Cancelled, Decode, Shape
<1> QED BY <1>1, <1>2, <1>7, CallKeeps DEF Decode

\* A read that is decoded is over.
LEMMA ReadReturnsKeeps == ASSUME IInv, NEW t \in Threads, ReadReturns(t), UNCHANGED flash PROVE IInv'
<1>1. Shape /\ Keeps(t) /\ Cancelled /\ thread[t].pc = "decoded"
    BY DEF IInv, ReadReturns
<1>2. Rests(t)
    BY <1>1, RestIs DEF ReadReturns
<1>3. OuterStays(t)
    BY <1>1 DEF OuterStays, Keeps, Unlocks, ReadReturns
<1>4. Keeps(t)'
    BY <1>1, <1>2, <1>3, RestKeeps
<1>5. thread'[t].pc # "keeping" /\ begun' \in [Threads -> Nat] /\ owner' \in [All -> Threads \cup {Nobody}] /\ Cancelled'
    BY <1>1, <1>2 DEF Rests, Shape, Cancelled, ReadReturns
<1> QED BY <1>1, <1>2, <1>4, <1>5, CallKeeps DEF Rests, ReadReturns

\* A thread that has the locks of all its clients goes in, unless it is refused.
LEMMA AcquireKeeps == ASSUME IInv, NEW t \in Threads, Acquire(t), UNCHANGED flash PROVE IInv'
<1> DEFINE pc == IF Refused(t) THEN "leaving" ELSE "handles"
<1>1. /\ Shape /\ Keeps(t) /\ Cancelled /\ thread[t].pc = "want" /\ pc \in {"leaving", "handles"} /\ pc \in Stations
      /\ thread[t].cs \subseteq All /\ t # Nobody
    BY UdsAssumption, DoingTypes DEF IInv, Acquire, Stations, Holding
<1>2. Turns(t, pc)
    BY <1>1, TurnIs DEF Acquire
<1>3. /\ owner' \in [All -> Threads \cup {Nobody}] /\ \A c \in thread[t].cs : owner'[c] = t
      /\ \A c \in All : owner[c] \notin {t, Nobody} => owner'[c] = owner[c]
      /\ \A c \in All : owner[c] = t => owner'[c] = t
    BY <1>1 DEF Acquire, Shape, Available
<1>4. pc = "handles" /\ thread[t].kind \in Seeds \cup {"access", "retarget"} => \A c \in thread[t].cs : ~client[c].in_key_fn
    BY DEF Refused, InItsKeyFn
<1> HIDE DEF pc
<1>5. Claims(t)' /\ Handles(t)' /\ Suits(t)'
    BY <1>1, <1>2, <1>3 DEF Turns, Keeps, Claims, Handles, Suits, Holding, Acquire
<1>6. Unlocks(t)' /\ Keys(t)'
    BY <1>1, <1>2, <1>3, <1>4 DEF Turns, Keeps, Unlocks, Keys, Acquire
<1>7. Keeps(t)' /\ Cancelled' /\ begun' \in [Threads -> Nat]
    BY <1>1, <1>5, <1>6 DEF Keeps, Cancelled, Acquire, Shape
<1> QED BY <1>1, <1>2, <1>3, <1>7, CallKeeps DEF Acquire, Turns

\* A functional call takes one lock more, or gives back all but its key_fn's, or has them all.
LEMMA TryLocksKeeps == ASSUME IInv, NEW t \in Threads, TryLocks(t), UNCHANGED flash PROVE IInv'
<1> DEFINE missing == {c \in thread[t].cs : owner[c] # t}
           first == FirstOf(missing)
<1>1. /\ Shape /\ Keeps(t) /\ Cancelled /\ thread[t].pc = "want" /\ thread[t].kind \in Functionals
      /\ thread[t].cs \subseteq All /\ t # Nobody
    BY UdsAssumption, DoingTypes DEF IInv, TryLocks
<1>2. UNCHANGED <<script, lock, run, client, conn, orphans, begun>> /\ begun' \in [Threads -> Nat] /\ Cancelled'
    BY <1>1 DEF TryLocks, Shape, Cancelled
<1>3. CASE owner[first] = Nobody /\ owner' = [owner EXCEPT ![first] = t] /\ UNCHANGED thread
  <2>1. /\ owner' \in [All -> Threads \cup {Nobody}]
        /\ \A c \in All : owner[c] \notin {t, Nobody} => owner'[c] = owner[c]
        /\ \A c \in All : owner[c] = t => owner'[c] = t
      BY <1>1, <1>3 DEF Shape
  <2>2. Keeps(t)'
      BY <1>1, <1>2, <1>3, <2>1 DEF Keeps, Claims, Handles, Unlocks, Keys, Suits, Holding, Open
  <2>3. thread' \in [Threads -> Doing]
      BY <1>1, <1>3 DEF Shape
  <2> QED BY <1>1, <1>2, <1>3, <2>1, <2>2, <2>3, CallKeeps
<1>4. CASE owner' = Unlocked(t) /\ IF InKeyFn(t) THEN thread' = [thread EXCEPT ![t] = Back(t)] ELSE UNCHANGED thread
  <2>1. CASE InKeyFn(t)
      BY <1>1, <1>2, <1>4, <2>1, ReturnsKeeps DEF Returns
  <2>2. CASE ~InKeyFn(t)
    <3>1. UNCHANGED thread /\ thread[t].outer = NoAccess /\ thread' \in [Threads -> Doing]
        BY <1>1, <1>4, <2>2 DEF InKeyFn, Shape
    <3>2. owner' \in [All -> Threads \cup {Nobody}] /\ \A c \in All : owner[c] # t => owner'[c] = owner[c]
        BY <1>1, <1>4, UnlockedIs
    <3>3. Keeps(t)'
        BY <1>1, <1>2, <3>1 DEF Keeps, Claims, Handles, Unlocks, Keys, Suits, Holding, Open
    <3> QED BY <1>1, <1>2, <3>1, <3>2, <3>3, CallKeeps
  <2> QED BY <2>1, <2>2
<1>5. CASE missing = {} /\ thread' = [thread EXCEPT ![t].pc = IF Refused(t) THEN "leaving" ELSE "handles"] /\ UNCHANGED owner
  <2> DEFINE pc == IF Refused(t) THEN "leaving" ELSE "handles"
  <2>1. pc \in {"leaving", "handles"} /\ pc \in Stations
      BY DEF Stations, Holding
  <2>2. Turns(t, pc)
      BY <1>1, <1>5, <2>1, TurnIs
  <2>3. \A c \in thread[t].cs : owner[c] = t
      BY <1>5
  <2>4. pc = "handles" /\ thread[t].kind \in Seeds \cup {"access", "retarget"} => \A c \in thread[t].cs : ~client[c].in_key_fn
      BY DEF Refused, InItsKeyFn
  <2> HIDE DEF pc
  <2>5. Claims(t)' /\ Handles(t)' /\ Suits(t)'
      BY <1>1, <1>2, <1>5, <2>1, <2>2, <2>3 DEF Turns, Keeps, Claims, Handles, Suits, Holding
  <2>6. Unlocks(t)' /\ Keys(t)'
      BY <1>1, <1>2, <1>5, <2>1, <2>2, <2>4 DEF Turns, Keeps, Unlocks, Keys
  <2>7. Keeps(t)' /\ owner' \in [All -> Threads \cup {Nobody}]
      BY <1>1, <1>5, <2>5, <2>6 DEF Keeps, Shape
  <2> QED BY <1>1, <1>2, <1>5, <2>1, <2>2, <2>7, CallKeeps DEF Turns
<1> QED BY <1>3, <1>4, <1>5 DEF TryLocks

\* Beginning a call
LEMMA AskKeeps ==
    ASSUME IInv, NEW t \in Threads, NEW kind \in Kinds \ {"key"}, NEW cs \in SUBSET All, Ask(t, kind, cs), UNCHANGED flash,
           kind \in Statements => cs \subseteq Clients, kind \in {"read", "write"} => cs \subseteq Nodes,
           kind \notin Functionals => \A c, d \in cs : c = d
    PROVE  IInv'
<1> DEFINE r == IF kind = "read" THEN run.number ELSE 0
           asks == [Back(t) EXCEPT !.pc = "want", !.kind = kind, !.cs = cs, !.run = r]
<1>1. Shape /\ Keeps(t) /\ Cancelled /\ run.number \in Nat /\ r \in Nat /\ thread[t].pc \in {"idle", "key_fn"}
    BY DEF IInv, Ask, Shape, Free
<1>2. /\ Back(t) \in Doing /\ Back(t).hs = {}
      /\ Back(t).outer \in {NoAccess, thread[t].outer}
      /\ Back(t).outer # NoAccess => thread[t].kind # "key"
    BY <1>1, BackIs
<1>3. thread' = [thread EXCEPT ![t] = asks]
    BY DEF Ask
<1>4. /\ asks \in Doing /\ asks.pc = "want" /\ asks.kind = kind /\ asks.cs = cs /\ asks.hs = {} /\ asks.run = r
      /\ asks.outer = Back(t).outer
    BY <1>1, <1>2 DEF Doing, Stations
<1> HIDE DEF asks
<1>5. /\ thread' \in [Threads -> Doing] /\ (\A u \in Threads \ {t} : thread'[u] = thread[u]) /\ thread'[t] = asks
    BY <1>1, <1>3, <1>4 DEF Shape
<1>6. \A c \in cs : client[c].is \in {"made", "closed"}
    BY DEF Ask
<1>7. kind # "none"
    BY DEF Kinds, Seeds, Functionals, Statements
<1>8. Claims(t)' /\ Handles(t)' /\ Suits(t)' /\ Keys(t)'
  <2>1. /\ thread'[t].pc = "want" /\ thread'[t].kind = kind /\ thread'[t].cs = cs /\ thread'[t].hs = {}
        /\ thread'[t].run = r /\ client' = client /\ run' = run /\ kind # "key" /\ kind # "none"
      BY <1>4, <1>5, <1>7 DEF Ask
  <2>2. Claims(t)'
      BY <1>6, <2>1 DEF Claims, Holding
  <2>3. Handles(t)' /\ Keys(t)'
      BY <2>1 DEF Handles, Keys, Holding
  <2>4. Suits(t)'
      BY <1>1, <2>1 DEF Suits, Holding
  <2> QED BY <2>2, <2>3, <2>4
<1>9. Unlocks(t)'
    BY <1>1, <1>2, <1>4, <1>5 DEF Keeps, Unlocks, Ask
<1>10. begun' \in [Threads -> Nat]
    BY <1>1 DEF Ask, Shape
<1>11. Keeps(t)' /\ Cancelled' /\ owner' \in [All -> Threads \cup {Nobody}]
    BY <1>1, <1>8, <1>9 DEF Keeps, Cancelled, Ask, Shape
<1>12. thread'[t].pc # "keeping" /\ thread[t].pc # "keeping"
    BY <1>1, <1>4, <1>5
<1> QED BY <1>5, <1>10, <1>11, <1>12, CallKeeps DEF Ask

-------------------------------------------------------------------------------
(* flash.program *)

\* A step of the flashing thread alone touches nothing but the flash.
LEMMA FlashOnlyKeeps ==
    ASSUME IInv, UNCHANGED <<script, lock, run, client, owner, conn, orphans, thread, begun>>, Cancelled'
    PROVE  IInv'
<1>1. Shape' /\ Reached' /\ Current' /\ Kept' /\ Told' /\ Silent'
    BY DEF IInv, Shape, Reached, Current, Kept, Told, Silent, Keeping, Open
<1>2. \A t \in Threads : Keeps(t)'
    BY DEF IInv, Keeps, Claims, Handles, Unlocks, Keys, Suits, Open
<1> QED BY <1>1, <1>2 DEF IInv

\* The caller goes from one of its stations to another.
LEMMA CallerKeeps ==
    ASSUME IInv, NEW t \in Threads, NEW pc \in Flashing, thread' = [thread EXCEPT ![t].pc = pc],
           thread[t].pc \in Flashing \/ (thread[t].pc = "asking" /\ thread[t].kind = "flash"),
           UNCHANGED <<script, lock, run, client, owner, conn, orphans, begun>>, Cancelled'
    PROVE  IInv'
<1>1. Shape /\ Keeps(t) /\ pc \in Stations /\ thread[t].pc \in Holding
    BY DEF IInv, Flashing, Stations, Holding
<1>2. Turns(t, pc)
    BY <1>1, TurnIs
<1>3. Keys(t)' /\ Suits(t)'
    BY <1>1, <1>2 DEF Turns, Keeps, Keys, Suits, Flashing, Holding
<1> QED BY <1>1, <1>2, <1>3, TurnKeeps DEF Flashing, Holding

\* Every step of a flash, its caller's and its thread's: cancelled before it goes on when progress raised.
LEMMA FlashKeeps == ASSUME IInv, NEW t \in Threads, FlashStep(t) PROVE IInv'
<1>1. Cancelled /\ MaxBlocks \in Nat
    BY UdsAssumption DEF IInv
<1>2. CASE FlashStarts(t)
    BY <1>1, <1>2, CallerKeeps DEF FlashStarts, Flashing, Cancelled, NoFlash
<1>3. CASE SessionBegins(t)
    BY <1>1, <1>3, FlashOnlyKeeps DEF SessionBegins, Cancelled
<1>4. CASE SessionGoesOn(t)
  <2> DEFINE stopped == flash.cancel \/ \E h \in thread[t].hs : ~Open(h)
  <2>1. CASE stopped
    <3>1. flash' = [flash EXCEPT !.worker = "ended"]
        BY <1>4, <2>1 DEF SessionGoesOn
    <3> QED BY <1>1, <1>4, <3>1, FlashOnlyKeeps DEF SessionGoesOn, Cancelled
  <2>2. CASE ~stopped /\ flash.left > 0
    <3>1. flash' = [flash EXCEPT !.worker = "asked", !.left = @ - 1]
        BY <1>4, <2>2 DEF SessionGoesOn
    <3>2. flash.left - 1 \in Nat
        BY <1>1, <2>2 DEF Cancelled
    <3>3. Cancelled'
        BY <1>1, <3>1, <3>2 DEF Cancelled
    <3> QED BY <1>4, <3>3, FlashOnlyKeeps DEF SessionGoesOn
  <2>3. CASE ~stopped /\ ~(flash.left > 0)
    <3>1. flash' = [flash EXCEPT !.worker = "checked"] /\ ~flash.cancel
        BY <1>4, <2>3 DEF SessionGoesOn
    <3> QED BY <1>1, <1>4, <3>1, FlashOnlyKeeps DEF SessionGoesOn, Cancelled
  <2> QED BY <2>1, <2>2, <2>3
<1>5. CASE Progress(t)
    BY <1>1, <1>5, CallerKeeps DEF Progress, Flashing, Cancelled
<1>6. CASE ProgressReturns(t)
    BY <1>1, <1>6, CallerKeeps DEF ProgressReturns, Flashing, Cancelled
<1>7. CASE ProgressRaises(t)
    BY <1>1, <1>7, CallerKeeps DEF ProgressRaises, Raised, Flashing, Cancelled
<1>8. CASE Interrupted(t)
    BY <1>1, <1>8, CallerKeeps DEF Interrupted, Flashing, Cancelled
<1>9. CASE CancelAgain(t)
    BY <1>1, <1>9, FlashOnlyKeeps DEF CancelAgain, Cancelled
<1>10. CASE FlashEnds(t)
    BY <1>1, <1>10, ReturnsKeeps DEF FlashEnds, Cancelled, NoFlash
<1> QED BY <1>2, <1>3, <1>4, <1>5, <1>6, <1>7, <1>8, <1>9, <1>10 DEF FlashStep

-------------------------------------------------------------------------------
(* What goes out on a connection: seeds and settings *)

\* A function on 1 .. n is a sequence of n.
LEMMA IsSeqOf ==
    ASSUME NEW S, NEW n \in Nat, NEW f \in [1 .. n -> S]
    PROVE  f \in Seq(S) /\ Len(f) = n
OBVIOUS

\* Connections that are told or asked something stay as many, of their clients, and open or not.
ConnsHear ==
    /\ conn' \in Seq(Connections) /\ DOMAIN conn' = DOMAIN conn
    /\ \A h \in DOMAIN conn :
          /\ conn'[h].client = conn[h].client /\ conn'[h].run = conn[h].run /\ conn'[h].at = conn[h].at
          /\ conn'[h].is = "open" <=> conn[h].is = "open"

\* Connections with other settings and seeds are connections told or asked something.
LEMMA HearIs ==
    ASSUME Shape, DOMAIN conn' = DOMAIN conn, conn' = [h \in DOMAIN conn |-> conn'[h]],
           \A h \in DOMAIN conn : \E stated \in Nat, seed \in Nat :
               conn'[h] = [conn[h] EXCEPT !.stated = stated, !.seed = seed]
    PROVE  ConnsHear
<1>1. /\ Len(conn) \in Nat /\ DOMAIN conn = 1 .. Len(conn)
      /\ \A h \in DOMAIN conn : conn[h] \in Connections
    BY ConnTypes
<1>2. ASSUME NEW h \in DOMAIN conn
      PROVE  /\ conn'[h] \in Connections
             /\ conn'[h].client = conn[h].client /\ conn'[h].run = conn[h].run /\ conn'[h].at = conn[h].at
             /\ conn'[h].is = conn[h].is
  <2>1. PICK stated \in Nat, seed \in Nat : conn'[h] = [conn[h] EXCEPT !.stated = stated, !.seed = seed]
      OBVIOUS
  <2> QED BY <1>1, <2>1 DEF Connections
<1>3. conn' \in [1 .. Len(conn) -> Connections]
    BY <1>1, <1>2
<1>4. conn' \in Seq(Connections)
    BY <1>1, <1>3, IsSeqOf
<1> QED BY <1>2, <1>4 DEF ConnsHear

\* ... and with nothing else changed, the clients stand to them as they did.
LEMMA HearKeeps ==
    ASSUME IInv, ConnsHear, UNCHANGED <<run, orphans>>,
           client' \in [All -> Clientele],
           \A c \in All : /\ client'[c].h = client[c].h /\ client'[c].is = client[c].is /\ client'[c].at = client[c].at
    PROVE  Reached' /\ Current' /\ Kept'
<1>1. \A h \in DOMAIN conn : conn[h].client \in All
    BY ConnTypes DEF IInv
<1>2. Reached'
    BY <1>1 DEF IInv, Reached, ConnsHear
<1>3. Current'
    BY <1>1 DEF IInv, Current, ConnsHear, Open
<1>4. Kept'
    BY <1>1 DEF IInv, Kept, ConnsHear, Open
<1> QED BY <1>2, <1>3, <1>4

\* A seed is asked for under the client's lock, which no key_fn of another thread can hold.
LEMMA SeededKeeps == ASSUME IInv, NEW t \in Threads, Seeded(t), UNCHANGED flash PROVE IInv'
<1>1. /\ Shape /\ Keeps(t) /\ Cancelled /\ thread[t].pc = "inside" /\ thread[t].kind \in Seeds /\ "reading" \in Stations
      /\ run.number \in Nat
    BY DEF IInv, Seeded, Stations, Holding, Shape
<1>2. Turns(t, "reading")
    BY <1>1, TurnIs DEF Seeded
<1>3. ASSUME NEW h \in DOMAIN conn
      PROVE  conn'[h] = [conn[h] EXCEPT !.stated = conn[h].stated, !.seed = IF h \in thread[t].hs THEN @ + 1 ELSE @]
  <2>1. conn[h] \in Connections
      BY <1>1, ConnTypes
  <2> QED BY <2>1 DEF Seeded, Connections
<1>4. \A h \in DOMAIN conn :
          /\ conn'[h].stated = conn[h].stated
          /\ h \notin thread[t].hs => conn'[h].seed = conn[h].seed
    BY <1>1, <1>3, ConnTypes DEF Connections
<1>5. ConnsHear
  <2>1. \A h \in DOMAIN conn : conn[h].stated \in Nat /\ conn[h].seed \in Nat /\ conn[h].seed + 1 \in Nat
      BY <1>1, ConnTypes
  <2>2. DOMAIN conn' = DOMAIN conn /\ conn' = [h \in DOMAIN conn |-> conn'[h]]
      BY DEF Seeded
  <2>3. ASSUME NEW h \in DOMAIN conn
        PROVE  \E stated \in Nat, seed \in Nat : conn'[h] = [conn[h] EXCEPT !.stated = stated, !.seed = seed]
    <3> DEFINE seed == IF h \in thread[t].hs THEN conn[h].seed + 1 ELSE conn[h].seed
    <3>1. seed \in Nat
        BY <2>1
    <3>2. conn'[h] = [conn[h] EXCEPT !.stated = conn[h].stated, !.seed = seed]
        BY <1>3
    <3> HIDE DEF seed
    <3> QED BY <2>1, <3>1, <3>2
  <2> QED BY <1>1, <2>2, <2>3, HearIs
<1>6. Shape'
    BY <1>1, <1>2, <1>5 DEF Shape, ConnsHear, Seeded, Turns
<1>7. \A h \in thread[t].hs : h \in DOMAIN conn /\ conn[h].client \in thread[t].cs /\ owner[conn[h].client] = t
    BY <1>1 DEF Keeps, Handles, Claims, Holding
<1>8. ASSUME NEW u \in Threads \ {t}
      PROVE  Keeps(u)'
  <2>1. Keeps(u) /\ u # t
      BY DEF IInv
  <2>2. ConnsStay
      BY <1>5 DEF ConnsStay, ConnsHear
  <2>3. \A h \in DOMAIN conn : owner[conn[h].client] = u => conn'[h].seed = conn[h].seed /\ conn'[h].stated = conn[h].stated
      BY <1>4, <1>7, <2>1
  <2>4. thread'[u] = thread[u] /\ UNCHANGED <<run, owner, client, orphans>>
      BY <1>2, <2>1 DEF Turns, Seeded
  <2>5. Spares(u)
      BY <1>1, <2>2, <2>3, <2>4 DEF Spares
  <2> QED BY <1>1, <1>6, <2>1, <2>5, SparedKeeps
<1>9. Keeps(t)'
  <2>1. thread[t].outer # NoAccess => thread[t].outer.h \notin thread[t].hs
      BY <1>1, <1>7 DEF Keeps, Unlocks, Keys, Seeds
  <2>4. thread'[t].outer = thread[t].outer /\ thread'[t].kind = thread[t].kind /\ UNCHANGED <<owner, client, orphans>>
      BY <1>2 DEF Turns, Seeded
  <2>5. \A h \in DOMAIN conn : h \in DOMAIN conn' /\ conn'[h].client = conn[h].client
      BY <1>5 DEF ConnsHear
  <2>2. Unlocks(t)'
      BY <1>1, <1>4, <2>1, <2>4, <2>5 DEF Keeps, Unlocks
  <2>3. Claims(t)' /\ Handles(t)' /\ Keys(t)' /\ Suits(t)'
    <3>1. Claims(t)'
        BY <1>1, <1>2, <2>4 DEF Keeps, Claims, Turns, Holding
    <3>2. Handles(t)'
        BY <1>1, <1>2, <2>4, <2>5 DEF Keeps, Handles, Turns, Holding
    <3>3. Keys(t)' /\ Suits(t)'
        BY <1>1, <1>2 DEF Keeps, Keys, Suits, Turns, Seeds
    <3> QED BY <3>1, <3>2, <3>3
  <2> QED BY <2>2, <2>3 DEF Keeps
<1>10. \A c \in All : Keeping(c)' <=> Keeping(c)
    BY <1>1, <1>2 DEF Keeping, Turns
<1>11. Told' /\ Silent' /\ Cancelled'
    BY <1>1, <1>4, <1>10 DEF IInv, Told, Silent, Current, Cancelled, Seeded
<1>12. Reached' /\ Current' /\ Kept'
    BY <1>1, <1>5, HearKeeps DEF Seeded, Shape
<1> QED BY <1>6, <1>8, <1>9, <1>11, <1>12 DEF IInv

\* One connection hears something new.
LEMMA HearOne ==
    ASSUME Shape, NEW h \in DOMAIN conn, NEW stated \in Nat, NEW seed \in Nat,
           conn' = [conn EXCEPT ![h].stated = stated, ![h].seed = seed]
    PROVE  /\ ConnsHear /\ conn'[h].stated = stated /\ conn'[h].seed = seed
           /\ \A g \in DOMAIN conn \ {h} : conn'[g] = conn[g]
<1>1. \A g \in DOMAIN conn : conn[g] \in Connections /\ conn[g].stated \in Nat /\ conn[g].seed \in Nat
    BY ConnTypes
<1>2. conn'[h] = [conn[h] EXCEPT !.stated = stated, !.seed = seed]
    OBVIOUS
<1>3. \A g \in DOMAIN conn \ {h} : conn'[g] = conn[g]
    OBVIOUS
<1>4. ASSUME NEW g \in DOMAIN conn
      PROVE  \E s \in Nat, d \in Nat : conn'[g] = [conn[g] EXCEPT !.stated = s, !.seed = d]
  <2>1. CASE g = h
      BY <1>2, <2>1
  <2>2. CASE g # h
    <3>1. conn[g] = [conn[g] EXCEPT !.stated = conn[g].stated, !.seed = conn[g].seed]
        BY <1>1 DEF Connections
    <3> QED BY <1>1, <1>3, <2>2, <3>1
  <2> QED BY <2>1, <2>2
<1>5. DOMAIN conn' = DOMAIN conn /\ conn' = [g \in DOMAIN conn |-> conn'[g]]
    BY DEF Shape
<1>6. ConnsHear
    BY <1>4, <1>5, HearIs
<1> QED BY <1>1, <1>2, <1>3, <1>6 DEF Connections

\* A client that goes into its key_fn, or comes out of it.
LEMMA InKeyFnIs ==
    ASSUME Shape, NEW c \in All, NEW called \in BOOLEAN, client' = [client EXCEPT ![c].in_key_fn = called]
    PROVE  /\ client' \in [All -> Clientele] /\ client'[c].in_key_fn = called
           /\ \A d \in All : /\ client'[d].h = client[d].h /\ client'[d].is = client[d].is /\ client'[d].at = client[d].at
                             /\ client'[d].stated = client[d].stated /\ (d # c => client'[d] = client[d])
<1>1. client \in [All -> Clientele] /\ client[c] \in Clientele
    BY DEF Shape
<1>2. client'[c] = [client[c] EXCEPT !.in_key_fn = called] /\ \A d \in All \ {c} : client'[d] = client[d]
    BY <1>1
<1>3. client'[c] \in Clientele
    BY <1>1, <1>2 DEF Clientele
<1>4. client' \in [All -> Clientele]
    BY <1>1, <1>2, <1>3
<1>5. /\ client'[c].in_key_fn = called /\ client'[c].h = client[c].h /\ client'[c].is = client[c].is
      /\ client'[c].at = client[c].at /\ client'[c].stated = client[c].stated
    BY <1>1, <1>2 DEF Clientele
<1> QED BY <1>2, <1>4, <1>5

\* The seed's connection is held with the client's lock, and the key answers the seed just given.
LEMMA AccessSeededKeeps == ASSUME IInv, NEW t \in Threads, AccessSeeded(t), UNCHANGED flash PROVE IInv'
<1>1. PICK h \in thread[t].hs, c \in thread[t].cs, called \in BOOLEAN :
          LET outer == [client |-> c, h |-> h, seed |-> conn[h].seed + 1]
          IN  /\ conn' = [conn EXCEPT ![h].seed = @ + 1]
              /\ client' = [client EXCEPT ![c].in_key_fn = called]
              /\ thread' = [thread EXCEPT ![t] =
                    IF called THEN [Idle EXCEPT !.pc = "key_fn", !.outer = outer]
                              ELSE [@ EXCEPT !.pc = "asking", !.kind = "key", !.outer = outer]]
    BY DEF AccessSeeded
<1> DEFINE outer == [client |-> c, h |-> h, seed |-> conn[h].seed + 1]
<1>2. /\ Shape /\ Keeps(t) /\ Cancelled /\ thread[t].pc = "inside" /\ thread[t].kind = "access" /\ thread[t] \in Doing
      /\ run.number \in Nat /\ thread[t].cs \subseteq All
    BY DoingTypes DEF IInv, AccessSeeded, Shape
<1>3. /\ h \in DOMAIN conn \ orphans /\ conn[h].client = c /\ c \in All /\ c # Nobody /\ owner[c] = t
      /\ client[c].is \in {"made", "closed"} /\ thread[t].cs = {c} /\ thread[t].hs = {h}
  <2>1. /\ h \in DOMAIN conn \ orphans /\ conn[h].client \in thread[t].cs /\ c \in thread[t].cs /\ owner[c] = t
        /\ client[c].is \in {"made", "closed"}
      BY <1>2 DEF Keeps, Handles, Claims, Holding
  <2>2. thread[t].cs = {c}
      BY <1>2 DEF Keeps, Claims, Holding, Functionals
  <2>3. thread[t].hs = {h}
      BY <1>2, <2>1, <2>2 DEF Keeps, Handles, Holding
  <2>4. c \in All /\ c # Nobody
      BY <1>2, UdsAssumption
  <2> QED BY <2>1, <2>2, <2>3, <2>4
<1>4. conn[h].stated \in Nat /\ conn[h].seed + 1 \in Nat /\ h \in Nat
    BY <1>2, <1>3, ConnTypes
<1>5. conn' = [conn EXCEPT ![h].stated = conn[h].stated, ![h].seed = conn[h].seed + 1]
  <2>1. conn[h] \in Connections
      BY <1>2, <1>3, ConnTypes
  <2>2. [conn[h] EXCEPT !.seed = @ + 1] = [conn[h] EXCEPT !.stated = conn[h].stated, !.seed = conn[h].seed + 1]
      BY <2>1 DEF Connections
  <2> QED BY <1>1, <2>2
<1>6. /\ ConnsHear /\ conn'[h].stated = conn[h].stated /\ conn'[h].seed = conn[h].seed + 1
      /\ \A g \in DOMAIN conn \ {h} : conn'[g] = conn[g]
    BY <1>2, <1>3, <1>4, <1>5, HearOne
<1>7. /\ client' \in [All -> Clientele] /\ client'[c].in_key_fn = called
      /\ \A d \in All : /\ client'[d].h = client[d].h /\ client'[d].is = client[d].is /\ client'[d].at = client[d].at
                        /\ client'[d].stated = client[d].stated /\ (d # c => client'[d] = client[d])
    BY <1>1, <1>2, <1>3, InKeyFnIs
<1>8. /\ thread' \in [Threads -> Doing] /\ \A u \in Threads \ {t} : thread'[u] = thread[u]
      /\ thread'[t].outer = outer
      /\ \/ called /\ thread'[t].pc = "key_fn" /\ thread'[t].kind = "none" /\ thread'[t].cs = {} /\ thread'[t].hs = {}
         \/ thread'[t].pc = "asking" /\ thread'[t].kind = "key" /\ thread'[t].cs = {c} /\ thread'[t].hs = {h}
  <2>1. outer \in [client : All \cup {Nobody}, h : Nat, seed : Nat]
      BY <1>3, <1>4
  <2> HIDE DEF outer
  <2>2. CASE called
    <3>1. thread' = [thread EXCEPT ![t] = [Idle EXCEPT !.pc = "key_fn", !.outer = outer]]
        BY <1>1, <2>2 DEF outer
    <3>2. [Idle EXCEPT !.pc = "key_fn", !.outer = outer] \in Doing
        BY <2>1 DEF Doing, Idle, Stations
    <3> QED BY <1>2, <2>2, <3>1, <3>2 DEF Shape, Idle
  <2>3. CASE ~called
    <3>1. thread' = [thread EXCEPT ![t] = [@ EXCEPT !.pc = "asking", !.kind = "key", !.outer = outer]]
        BY <1>1, <2>3 DEF outer
    <3>2. [thread[t] EXCEPT !.pc = "asking", !.kind = "key", !.outer = outer] \in Doing
        BY <1>2, <2>1 DEF Doing, Stations, Holding, Kinds
    <3>3. thread'[t] = [thread[t] EXCEPT !.pc = "asking", !.kind = "key", !.outer = outer]
        BY <1>2, <3>1 DEF Shape
    <3>4. /\ thread'[t].pc = "asking" /\ thread'[t].kind = "key" /\ thread'[t].cs = {c} /\ thread'[t].hs = {h}
          /\ thread'[t].outer = outer
        BY <1>2, <1>3, <3>3 DEF Doing
    <3>5. thread' \in [Threads -> Doing] /\ \A u \in Threads \ {t} : thread'[u] = thread[u]
        BY <1>2, <3>1, <3>2 DEF Shape
    <3> QED BY <3>4, <3>5
  <2> QED BY <2>2, <2>3
<1>9. Shape'
    BY <1>2, <1>6, <1>7, <1>8 DEF Shape, ConnsHear, AccessSeeded
<1>10. ASSUME NEW u \in Threads \ {t}
       PROVE  Keeps(u)'
  <2>1. Keeps(u) /\ u # t
      BY DEF IInv
  <2>2. ConnsStay
      BY <1>6 DEF ConnsStay, ConnsHear
  <2>3. \A d \in All : owner[d] = u => client'[d] = client[d]
      BY <1>3, <1>7, <2>1
  <2>4. \A g \in DOMAIN conn : owner[conn[g].client] = u => conn'[g] = conn[g]
      BY <1>3, <1>6, <2>1
  <2>6. run' = run /\ owner' = owner /\ orphans' = orphans
      BY DEF AccessSeeded
  <2>5. Spares(u)
      BY <1>2, <1>7, <1>8, <2>1, <2>2, <2>3, <2>4, <2>6 DEF Spares
  <2> QED BY <1>2, <1>9, <2>1, <2>5, SparedKeeps
<1>11. Keeps(t)'
  <2>1. outer # NoAccess
      BY <1>3 DEF NoAccess
  <2>2. Unlocks(t)'
      BY <1>3, <1>6, <1>7, <1>8 DEF Unlocks, AccessSeeded, ConnsHear
  <2>3. Keys(t)'
      BY <1>8, <2>1 DEF Keys, Seeds
  <2>4. Claims(t)' /\ Handles(t)'
      BY <1>3, <1>6, <1>7, <1>8 DEF Claims, Handles, AccessSeeded, ConnsHear, Holding, Statements
  <2>5. Suits(t)'
      BY <1>8 DEF Suits
  <2> QED BY <2>2, <2>3, <2>4, <2>5 DEF Keeps
<1>12. \A d \in All : Keeping(d)' <=> Keeping(d)
    BY <1>2, <1>8 DEF Keeping
<1>13. Told'
    BY <1>3, <1>6, <1>7, <1>12 DEF IInv, Told, Current
<1>14. Silent' /\ Cancelled'
    BY <1>2, <1>7 DEF IInv, Silent, Cancelled, AccessSeeded
<1>15. Reached' /\ Current' /\ Kept'
    BY <1>6, <1>7, HearKeeps DEF AccessSeeded
<1> QED BY <1>9, <1>10, <1>11, <1>13, <1>14, <1>15 DEF IInv


\* The key goes out under the lock security_access kept, on the handle and for the seed it kept.
LEMMA KeyFnReturnsKeeps == ASSUME IInv, NEW t \in Threads, KeyFnReturns(t), UNCHANGED flash PROVE IInv'
<1> DEFINE outer == thread[t].outer
<1>1. PICK pc \in {"asking", "leaving"} :
          thread' = [thread EXCEPT ![t].pc = pc, ![t].kind = "key", ![t].cs = {outer.client}, ![t].hs = {outer.h}]
    BY DEF KeyFnReturns
<1>2. /\ Shape /\ Keeps(t) /\ Cancelled /\ thread[t].pc = "key_fn" /\ thread[t].kind = "none" /\ outer # NoAccess
      /\ thread[t] \in Doing /\ outer.h \in Nat /\ run.number \in Nat
    BY DoingTypes DEF IInv, KeyFnReturns, Keeps, Keys, Shape
<1>3. /\ outer.client \in All /\ owner[outer.client] = t /\ client[outer.client].is \in {"made", "closed"}
      /\ outer.h \in DOMAIN conn \ orphans /\ conn[outer.h].client = outer.client /\ conn[outer.h].seed = outer.seed
    BY <1>2 DEF Keeps, Unlocks
<1>4. /\ client' \in [All -> Clientele] /\ client'[outer.client].in_key_fn = FALSE
      /\ \A d \in All : /\ client'[d].h = client[d].h /\ client'[d].is = client[d].is /\ client'[d].at = client[d].at
                        /\ client'[d].stated = client[d].stated /\ (d # outer.client => client'[d] = client[d])
  <2>1. client' = [client EXCEPT ![outer.client].in_key_fn = FALSE]
      BY DEF KeyFnReturns
  <2> QED BY <1>2, <1>3, <2>1, InKeyFnIs
<1>5. /\ thread' \in [Threads -> Doing] /\ (\A u \in Threads \ {t} : thread'[u] = thread[u])
      /\ thread'[t].pc = pc /\ thread'[t].kind = "key" /\ thread'[t].cs = {outer.client} /\ thread'[t].hs = {outer.h}
      /\ thread'[t].outer = outer
  <2>1. thread'[t] = [thread[t] EXCEPT !.pc = pc, !.kind = "key", !.cs = {outer.client}, !.hs = {outer.h}]
      BY <1>1, <1>2 DEF Shape
  <2>2. pc \in Stations /\ "key" \in Kinds
      BY DEF Stations, Holding, Kinds
  <2> HIDE DEF outer
  <2>3. [thread[t] EXCEPT !.pc = pc, !.kind = "key", !.cs = {outer.client}, !.hs = {outer.h}] \in Doing
    <3>1. {outer.client} \subseteq All /\ {outer.h} \subseteq Nat
        BY <1>2, <1>3
    <3> QED BY <1>2, <2>2, <3>1 DEF Doing
  <2>4. /\ thread'[t].pc = pc /\ thread'[t].kind = "key" /\ thread'[t].cs = {outer.client} /\ thread'[t].hs = {outer.h}
        /\ thread'[t].outer = thread[t].outer
      BY <1>2, <2>1 DEF Doing
  <2> QED BY <1>1, <1>2, <2>1, <2>3, <2>4 DEF Shape, outer
<1>6. UNCHANGED <<script, lock, run, owner, conn, orphans, begun, flash>>
    BY DEF KeyFnReturns
<1>7. Shape'
    BY <1>2, <1>4, <1>5, <1>6 DEF Shape
<1>8. ASSUME NEW u \in Threads \ {t}
      PROVE  Keeps(u)'
  <2>1. Keeps(u) /\ u # t
      BY DEF IInv
  <2>2. ConnsStay
      BY <1>6 DEF ConnsStay
  <2>3. \A d \in All : owner[d] = u => client'[d] = client[d]
      BY <1>3, <1>4, <2>1
  <2>4. Spares(u)
      BY <1>2, <1>4, <1>5, <1>6, <2>1, <2>2, <2>3 DEF Spares
  <2> QED BY <1>2, <1>7, <2>1, <2>4, SparedKeeps
<1>9. Keeps(t)'
  <2>1. Claims(t)' /\ Handles(t)'
      BY <1>3, <1>4, <1>5, <1>6 DEF Claims, Handles, Holding, Statements
  <2>2. Unlocks(t)'
      BY <1>3, <1>4, <1>5, <1>6 DEF Unlocks
  <2>3. Keys(t)' /\ Suits(t)'
      BY <1>2, <1>5 DEF Keys, Suits, Seeds
  <2> QED BY <2>1, <2>2, <2>3 DEF Keeps
<1>10. \A d \in All : Keeping(d)' <=> Keeping(d)
    BY <1>2, <1>5 DEF Keeping
<1>11. Told'
    BY <1>4, <1>6, <1>10 DEF IInv, Told
<1>14. Silent' /\ Cancelled'
    BY <1>2, <1>4, <1>6 DEF IInv, Silent, Cancelled, All
<1>12. ConnsHear
    BY <1>2, <1>6 DEF ConnsHear, Shape
<1>13. Reached' /\ Current' /\ Kept'
    BY <1>4, <1>6, <1>12, HearKeeps
<1> QED BY <1>7, <1>8, <1>9, <1>11, <1>13, <1>14 DEF IInv

\* The library took a setting: the connection is ahead of its client, whose lock t has.
LEMMA StatedKeeps == ASSUME IInv, NEW t \in Threads, Stated(t), UNCHANGED flash PROVE IInv'
<1>1. /\ Shape /\ Keeps(t) /\ Cancelled /\ thread[t].pc = "inside" /\ thread[t].kind \in Statements /\ thread[t] \in Doing
      /\ run.number \in Nat /\ thread[t].cs \subseteq All /\ "keeping" \in Stations /\ "leaving" \in Stations
      /\ UNCHANGED <<script, lock, run, client, owner, orphans, begun, flash>>
    BY DoingTypes DEF IInv, Stated, Shape, Stations, Holding
<1>2. CASE thread' = [thread EXCEPT ![t].pc = "leaving"] /\ UNCHANGED conn
  <2>1. Turns(t, "leaving")
      BY <1>1, <1>2, TurnIs
  <2>2. Keys(t)' /\ Suits(t)'
      BY <1>1, <2>1 DEF Turns, Keeps, Keys, Suits, Holding, Statements
  <2> QED BY <1>1, <1>2, <2>1, <2>2, TurnKeeps DEF Holding, Cancelled
<1>3. ASSUME NEW h \in thread[t].hs,
             conn' = [conn EXCEPT ![h].stated = @ + 1, ![h].seed = IF thread[t].kind = "retarget" THEN 0 ELSE @],
             thread' = [thread EXCEPT ![t].pc = "keeping"]
      PROVE  IInv'
  <2> DEFINE stated == conn[h].stated + 1
             seed == IF thread[t].kind = "retarget" THEN 0 ELSE conn[h].seed
  <2>0. PICK c \in thread[t].cs : conn[h].client = c
      BY <1>1 DEF Keeps, Handles, Holding
  <2>1. /\ h \in DOMAIN conn \ orphans /\ conn[h].client = c /\ c \in thread[t].cs /\ owner[c] = t /\ thread[t].cs = {c} /\ thread[t].hs = {h}
        /\ c \in Clients
    <3>1. h \in DOMAIN conn \ orphans /\ c \in thread[t].cs /\ owner[c] = t
        BY <1>1, <2>0 DEF Keeps, Handles, Claims, Holding
    <3>2. thread[t].cs = {c} /\ c \in Clients
        BY <1>1, <3>1 DEF Keeps, Claims, Holding, Functionals, Statements
    <3>3. thread[t].hs = {h}
        BY <1>1, <3>1, <3>2 DEF Keeps, Handles, Holding
    <3> QED BY <2>0, <3>1, <3>2, <3>3
  <2>2. conn[h] \in Connections /\ conn[h].stated \in Nat /\ conn[h].seed \in Nat /\ stated \in Nat /\ seed \in Nat
      BY <1>1, <2>1, ConnTypes
  <2>3. conn' = [conn EXCEPT ![h].stated = stated, ![h].seed = seed]
    <3>1. conn'[h] = [conn[h] EXCEPT !.stated = stated, !.seed = seed] /\ \A g \in DOMAIN conn \ {h} : conn'[g] = conn[g]
        BY <1>3, <2>1, <2>2 DEF Connections
    <3>2. conn' = [conn EXCEPT ![h] = [conn[h] EXCEPT !.stated = stated, !.seed = seed]]
        BY <1>3, <2>1, <2>2 DEF Connections
    <3> QED BY <3>2
  <2> HIDE DEF stated, seed
  <2>4. /\ ConnsHear /\ conn'[h].stated = stated /\ conn'[h].seed = seed
        /\ \A g \in DOMAIN conn \ {h} : conn'[g] = conn[g]
      BY <1>1, <2>1, <2>2, <2>3, HearOne
  <2>5. Turns(t, "keeping")
      BY <1>1, <1>3, TurnIs
  <2>6. Shape'
      BY <1>1, <2>4, <2>5 DEF Shape, ConnsHear, Turns
  <2>7. ASSUME NEW u \in Threads \ {t}
        PROVE  Keeps(u)'
    <3>1. Keeps(u) /\ u # t
        BY DEF IInv
    <3>2. ConnsStay
        BY <2>4 DEF ConnsStay, ConnsHear
    <3>3. \A g \in DOMAIN conn : owner[conn[g].client] = u => conn'[g] = conn[g]
        BY <2>1, <2>4, <3>1
    <3>4. Spares(u)
        BY <1>1, <2>5, <3>1, <3>2, <3>3 DEF Spares, Turns
    <3> QED BY <1>1, <2>6, <3>1, <3>4, SparedKeeps
  <2>8. Keeps(t)'
    <3>1. thread[t].outer # NoAccess => thread[t].outer.h # h \/ seed = conn[h].seed
      <4>1. CASE thread[t].kind = "retarget"
          BY <1>1, <2>1, <4>1 DEF Keeps, Unlocks, Keys
      <4>2. CASE thread[t].kind # "retarget"
          BY <4>2 DEF seed
      <4> QED BY <4>1, <4>2
    <3>2. Unlocks(t)'
        BY <1>1, <2>4, <2>5, <3>1 DEF Keeps, Unlocks, Turns, ConnsHear
    <3>3. Claims(t)' /\ Handles(t)'
        BY <1>1, <2>4, <2>5 DEF Keeps, Claims, Handles, Turns, ConnsHear, Holding
    <3>4. Keys(t)' /\ Suits(t)'
        BY <1>1, <2>1, <2>4, <2>5 DEF Keeps, Keys, Suits, Turns, ConnsHear, Statements
    <3> QED BY <3>2, <3>3, <3>4 DEF Keeps
  <2>9. ~Keeping(c) /\ Keeping(c)' /\ \A d \in All \ {c} : Keeping(d)' <=> Keeping(d)
    <3>1. ~Keeping(c)
        BY <1>1, <2>1, KeepingOwns
    <3>2. Keeping(c)' /\ \A d \in All \ {c} : Keeping(d)' <=> Keeping(d)
        BY <1>1, <2>1, <2>5 DEF Keeping, Turns
    <3> QED BY <3>1, <3>2
  <2>10. Told'
    <3> SUFFICES ASSUME NEW d \in All, client[d].h # 0
                 PROVE  conn'[client[d].h].stated = client[d].stated + (IF Keeping(d)' THEN 1 ELSE 0)
        BY <1>1 DEF Told
    <3>1. client[d].h \in DOMAIN conn /\ conn[client[d].h].client = d
        BY DEF IInv, Current
    <3>2. conn[client[d].h].stated = client[d].stated + (IF Keeping(d) THEN 1 ELSE 0)
        BY DEF IInv, Told
    <3>3. CASE d = c
      <4>1. client[c].h = h
        <5>1. client[c].h \in {0, h}
            BY <1>1, <2>1 DEF Keeps, Suits
        <5> QED BY <3>3, <5>1
      <4>2. client[c].stated \in Nat
          BY <1>1, <2>1 DEF Shape, Clientele, All
      <4> QED BY <2>4, <2>9, <3>2, <3>3, <4>1, <4>2 DEF stated
    <3>4. CASE d # c
        BY <2>1, <2>4, <2>9, <3>1, <3>2, <3>4
    <3> QED BY <3>3, <3>4
  <2>11. Silent' /\ Cancelled'
      BY <1>1 DEF IInv, Silent, Cancelled
  <2>12. Reached' /\ Current' /\ Kept'
      BY <1>1, <2>4, HearKeeps DEF Shape
  <2> QED BY <2>6, <2>7, <2>8, <2>10, <2>11, <2>12 DEF IInv
<1> QED BY <1>2, <1>3 DEF Stated

\* A client that keeps one setting more.
LEMMA KeptIs ==
    ASSUME Shape, NEW c \in All, client' = [client EXCEPT ![c].stated = @ + 1]
    PROVE  /\ client' \in [All -> Clientele] /\ client[c].stated \in Nat /\ client'[c].stated = client[c].stated + 1
           /\ \A d \in All : /\ client'[d].h = client[d].h /\ client'[d].is = client[d].is /\ client'[d].at = client[d].at
                             /\ client'[d].in_key_fn = client[d].in_key_fn /\ (d # c => client'[d] = client[d])
<1>1. client \in [All -> Clientele] /\ client[c] \in Clientele
    BY DEF Shape
<1>2. client'[c] = [client[c] EXCEPT !.stated = @ + 1] /\ \A d \in All \ {c} : client'[d] = client[d]
    BY <1>1
<1>3. client'[c] \in Clientele
    BY <1>1, <1>2 DEF Clientele
<1>4. client' \in [All -> Clientele]
    BY <1>1, <1>2, <1>3
<1>5. /\ client'[c].in_key_fn = client[c].in_key_fn /\ client'[c].h = client[c].h /\ client'[c].is = client[c].is
      /\ client'[c].at = client[c].at /\ client'[c].stated = client[c].stated + 1 /\ client[c].stated \in Nat
    BY <1>1, <1>2 DEF Clientele
<1> QED BY <1>2, <1>4, <1>5

\* The client keeps the setting its connection took: it was told one more than the client was.
LEMMA KeepKeeps == ASSUME IInv, NEW t \in Threads, Keep(t), UNCHANGED flash PROVE IInv'
<1>1. PICK c \in thread[t].cs : client' = [client EXCEPT ![c].stated = @ + 1]
    BY DEF Keep
<1>2. /\ Shape /\ Keeps(t) /\ Cancelled /\ thread[t].pc = "keeping" /\ run.number \in Nat
      /\ thread' = [thread EXCEPT ![t] = Back(t)] /\ owner' = Unlocked(t)
      /\ UNCHANGED <<script, lock, run, conn, orphans, begun, flash>>
    BY DEF IInv, Keep, Returns, Shape
<1>3. c \in Clients /\ c \in All /\ owner[c] = t /\ \A d \in thread[t].cs : d = c
    BY <1>1, <1>2 DEF Keeps, Claims, Keys, Holding, Functionals, Statements, All
<1>4. /\ client' \in [All -> Clientele] /\ client[c].stated \in Nat /\ client'[c].stated = client[c].stated + 1
      /\ \A d \in All : /\ client'[d].h = client[d].h /\ client'[d].is = client[d].is /\ client'[d].at = client[d].at
                        /\ client'[d].in_key_fn = client[d].in_key_fn /\ (d # c => client'[d] = client[d])
    BY <1>1, <1>2, <1>3, KeptIs
<1>5. Rests(t)
    BY <1>2, RestIs
<1>6. /\ owner' \in [All -> Threads \cup {Nobody}]
      /\ \A d \in All : owner[d] # t => owner'[d] = owner[d]
      /\ owner[thread[t].outer.client] = t /\ thread[t].outer.client \in All /\ thread[t].kind # "key" =>
            owner'[thread[t].outer.client] = t
    BY <1>2, UnlockedIs
<1>7. Shape'
    BY <1>2, <1>4, <1>5, <1>6 DEF Shape, Rests
<1>8. ASSUME NEW u \in Threads \ {t}
      PROVE  Keeps(u)'
  <2>1. Keeps(u) /\ u # t
      BY DEF IInv
  <2>2. ConnsStay
      BY <1>2 DEF ConnsStay
  <2>3. \A d \in All : owner[d] = u => client'[d] = client[d] /\ owner'[d] = u
      BY <1>3, <1>4, <1>6, <2>1
  <2>4. Spares(u)
      BY <1>2, <1>4, <1>5, <2>1, <2>2, <2>3 DEF Spares, Rests
  <2> QED BY <1>2, <1>7, <2>1, <2>4, SparedKeeps
<1>9. Keeps(t)'
  <2>1. OuterStays(t)
      BY <1>2, <1>4, <1>6 DEF OuterStays, Keeps, Unlocks
  <2> QED BY <1>2, <1>5, <2>1, RestKeeps
<1>10. Keeping(c) /\ ~Keeping(c)' /\ \A d \in All \ {c} : Keeping(d)' <=> Keeping(d)
  <2>1. Keeping(c)
      BY <1>2, <1>3 DEF Keeping
  <2>2. ASSUME Keeping(c)'
        PROVE  FALSE
    <3>1. PICK u \in Threads : thread'[u].pc = "keeping" /\ c \in thread'[u].cs
        BY <2>2 DEF Keeping
    <3>2. u # t
        BY <1>5, <3>1 DEF Rests
    <3>3. thread[u] = thread'[u] /\ Keeps(u)
        BY <1>5, <3>2 DEF Rests, IInv
    <3> QED BY <1>3, <3>1, <3>2, <3>3 DEF Keeps, Claims, Holding
  <2>3. \A d \in All \ {c} : Keeping(d)' <=> Keeping(d)
      BY <1>3, <1>5 DEF Keeping, Rests
  <2> QED BY <2>1, <2>2, <2>3
<1>11. Told'
  <2> SUFFICES ASSUME NEW d \in All, client[d].h # 0
               PROVE  conn[client[d].h].stated = client'[d].stated + (IF Keeping(d)' THEN 1 ELSE 0)
      BY <1>2, <1>4 DEF Told
  <2>1. conn[client[d].h].stated = client[d].stated + (IF Keeping(d) THEN 1 ELSE 0)
      BY DEF IInv, Told
  <2>2. CASE d = c
      BY <1>4, <1>10, <2>1, <2>2
  <2>3. CASE d # c
      BY <1>4, <1>10, <2>1, <2>3
  <2> QED BY <2>2, <2>3
<1>12. Silent' /\ Cancelled'
  <2>1. c \notin IsoTps
      BY <1>3, UdsAssumption
  <2> QED BY <1>2, <1>4, <2>1 DEF IInv, Silent, Cancelled, All
<1>13. ConnsHear
    BY <1>2 DEF ConnsHear, Shape
<1>14. Reached' /\ Current' /\ Kept'
    BY <1>2, <1>4, <1>13, HearKeeps
<1> QED BY <1>7, <1>8, <1>9, <1>11, <1>12, <1>14 DEF IInv

\* Both locks are held: client and connection are told the same.
LEMMA KeepAliveKeeps == ASSUME IInv, NEW t \in Threads, NEW c \in All, KeepAlive(t, c), UNCHANGED flash PROVE IInv'
<1> DEFINE h == client[c].h
<1>1. /\ Shape /\ Keeps(t) /\ Cancelled /\ thread[t].pc \in {"idle", "key_fn"} /\ run.number \in Nat
      /\ c \in Clients /\ owner[c] \in {Nobody, t} /\ client' = [client EXCEPT ![c].stated = @ + 1]
      /\ UNCHANGED <<script, lock, run, owner, orphans, thread, flash>> /\ begun' \in [Threads -> Nat]
    BY DEF IInv, KeepAlive, Shape, Free, Available
<1>2. /\ client' \in [All -> Clientele] /\ client[c].stated \in Nat /\ client'[c].stated = client[c].stated + 1
      /\ \A d \in All : /\ client'[d].h = client[d].h /\ client'[d].is = client[d].is /\ client'[d].at = client[d].at
                        /\ client'[d].in_key_fn = client[d].in_key_fn /\ (d # c => client'[d] = client[d])
    BY <1>1, KeptIs
<1>3. /\ ConnsHear /\ \A g \in DOMAIN conn : conn'[g].seed = conn[g].seed /\ (conn[g].client # c => conn'[g] = conn[g])
      /\ \A d \in All \ {c} : client[d].h # 0 => conn'[client[d].h].stated = conn[client[d].h].stated
      /\ h # 0 => conn'[h].stated = client[c].stated + 1
  <2>1. CASE h = 0
    <3>1. conn' = conn
        BY <2>1 DEF KeepAlive
    <3> QED BY <1>1, <2>1, <3>1 DEF ConnsHear, Shape
  <2>2. CASE h # 0
    <3>1. h \in DOMAIN conn /\ conn[h].client = c /\ conn[h] \in Connections /\ conn[h].seed \in Nat
        BY <1>1, <2>2, ConnTypes DEF IInv, Current
    <3>2. conn' = [conn EXCEPT ![h].stated = client[c].stated + 1]
        BY <2>2 DEF KeepAlive
    <3>3. conn' = [conn EXCEPT ![h].stated = client[c].stated + 1, ![h].seed = conn[h].seed]
      <4>1. [conn[h] EXCEPT !.stated = client[c].stated + 1]
                = [conn[h] EXCEPT !.stated = client[c].stated + 1, !.seed = conn[h].seed]
          BY <3>1 DEF Connections
      <4> QED BY <3>2, <4>1
    <3>4. client[c].stated + 1 \in Nat
        BY <1>2
    <3> HIDE DEF h
    <3>5. /\ ConnsHear /\ conn'[h].stated = client[c].stated + 1 /\ conn'[h].seed = conn[h].seed
          /\ \A g \in DOMAIN conn \ {h} : conn'[g] = conn[g]
        BY <1>1, <3>1, <3>3, <3>4, HearOne
    <3>6. \A d \in All \ {c} : client[d].h # 0 => client[d].h \in DOMAIN conn /\ client[d].h # h
        BY <3>1 DEF IInv, Current
    <3> QED BY <3>1, <3>5, <3>6
  <2> QED BY <2>1, <2>2
<1> HIDE DEF h
<1>4. Shape'
    BY <1>1, <1>2, <1>3 DEF Shape, ConnsHear
<1>5. ASSUME NEW u \in Threads \ {t}
      PROVE  Keeps(u)'
  <2>1. Keeps(u) /\ u # t /\ u # Nobody
      BY UdsAssumption DEF IInv
  <2>2. ConnsStay
      BY <1>3 DEF ConnsStay, ConnsHear
  <2>3. \A d \in All : owner[d] = u => client'[d] = client[d]
      BY <1>1, <1>2, <2>1
  <2>4. \A g \in DOMAIN conn : owner[conn[g].client] = u => conn'[g] = conn[g]
      BY <1>1, <1>3, <2>1
  <2>5. Spares(u)
      BY <1>1, <1>2, <2>1, <2>2, <2>3, <2>4 DEF Spares
  <2> QED BY <1>1, <1>4, <2>1, <2>5, SparedKeeps
<1>6. Keeps(t)'
  <2>1. Claims(t)' /\ Handles(t)' /\ Suits(t)' /\ Keys(t)'
      BY <1>1 DEF Keeps, Claims, Handles, Keys, Suits, Holding
  <2>2. Unlocks(t)'
      BY <1>1, <1>2, <1>3 DEF Keeps, Unlocks, ConnsHear
  <2> QED BY <2>1, <2>2 DEF Keeps
<1>7. ~Keeping(c) /\ \A d \in All : Keeping(d)' <=> Keeping(d)
  <2>1. ~Keeping(c)
    <3>1. ASSUME Keeping(c)
          PROVE  FALSE
      <4>1. PICK u \in Threads : thread[u].pc = "keeping" /\ c \in thread[u].cs /\ owner[c] = u
          BY <3>1, KeepingOwns
      <4> QED BY <1>1, <4>1, UdsAssumption
    <3> QED BY <3>1
  <2> QED BY <1>1, <2>1 DEF Keeping
<1>8. Told'
  <2> SUFFICES ASSUME NEW d \in All, client[d].h # 0
               PROVE  conn'[client[d].h].stated = client'[d].stated + (IF Keeping(d)' THEN 1 ELSE 0)
      BY <1>2 DEF Told
  <2>1. conn[client[d].h].stated = client[d].stated + (IF Keeping(d) THEN 1 ELSE 0)
      BY DEF IInv, Told
  <2>2. CASE d = c
      BY <1>2, <1>3, <1>7, <2>2 DEF h
  <2>3. CASE d # c
      BY <1>2, <1>3, <1>7, <2>1, <2>3
  <2> QED BY <2>2, <2>3
<1>9. Silent' /\ Cancelled'
  <2>1. c \notin IsoTps
      BY <1>1, UdsAssumption
  <2> QED BY <1>1, <1>2, <2>1 DEF IInv, Silent, Cancelled, All
<1>10. Reached' /\ Current' /\ Kept'
    BY <1>1, <1>2, <1>3, HearKeeps
<1> QED BY <1>4, <1>5, <1>6, <1>8, <1>9, <1>10 DEF IInv

-------------------------------------------------------------------------------
(* Connections opened and let go *)

\* A connection whose close is over was no client's any more.
LEMMA ClosedKeeps == ASSUME IInv, NEW t \in Threads, Closed(t), UNCHANGED flash PROVE IInv'
<1>1. /\ Shape /\ Keeps(t) /\ Cancelled /\ thread[t].pc \in {"closing", "stopping"} /\ run.number \in Nat
      /\ thread[t] \in Doing /\ thread \in [Threads -> Doing]
      /\ conn' = [h \in DOMAIN conn |-> IF h \in thread[t].hs THEN [conn[h] EXCEPT !.is = "closed"] ELSE conn[h]]
      /\ UNCHANGED <<script, run, client, owner, orphans, begun, flash>>
    BY DEF IInv, Closed, Shape
<1>2. ASSUME NEW h \in DOMAIN conn
      PROVE  /\ conn'[h] \in Connections
             /\ conn'[h].client = conn[h].client /\ conn'[h].run = conn[h].run /\ conn'[h].at = conn[h].at
             /\ conn'[h].stated = conn[h].stated /\ conn'[h].seed = conn[h].seed
             /\ conn'[h].is = "open" <=> conn[h].is = "open"
  <2>1. conn[h] \in Connections /\ (h \in thread[t].hs => conn[h].is # "open")
      BY <1>1, ConnTypes DEF Keeps, Suits, Open
  <2>2. CASE h \in thread[t].hs
    <3>1. conn'[h] = [conn[h] EXCEPT !.is = "closed"]
        BY <1>1, <2>2
    <3> QED BY <2>1, <2>2, <3>1 DEF Connections
  <2>3. CASE h \notin thread[t].hs
      BY <1>1, <2>1, <2>3
  <2> QED BY <2>2, <2>3
<1>3. ConnsHear
  <2>1. Len(conn) \in Nat /\ DOMAIN conn = 1 .. Len(conn)
      BY <1>1, ConnTypes
  <2>2. DOMAIN conn' = DOMAIN conn
      BY <1>1
  <2>3. conn' \in [1 .. Len(conn) -> Connections]
      BY <1>1, <1>2, <2>1
  <2>4. conn' \in Seq(Connections)
      BY <2>1, <2>3, IsSeqOf
  <2> QED BY <1>2, <2>2, <2>4 DEF ConnsHear
<1>4. /\ thread' \in [Threads -> Doing] /\ (\A u \in Threads \ {t} : thread'[u] = thread[u])
      /\ thread'[t].pc # "keeping" /\ lock' \in {Nobody, lock}
  <2>1. CASE thread[t].pc = "closing"
    <3>1. thread' = [thread EXCEPT ![t] = Back(t)] /\ lock' = Nobody
        BY <2>1 DEF Closed
    <3>2. Rests(t)
        BY <1>1, <3>1, RestIs
    <3> QED BY <3>1, <3>2 DEF Rests
  <2>2. CASE thread[t].pc # "closing"
    <3>1. thread' = [thread EXCEPT ![t].hs = {}] /\ lock' = lock
        BY <2>2 DEF Closed
    <3>2. thread'[t] = [thread[t] EXCEPT !.hs = {}] /\ thread'[t] \in Doing
        BY <1>1, <3>1 DEF Doing
    <3> QED BY <1>1, <3>1, <3>2 DEF Doing
  <2> QED BY <2>1, <2>2
<1>5. Shape'
    BY <1>1, <1>3, <1>4 DEF Shape, ConnsHear
<1>6. ASSUME NEW u \in Threads \ {t}
      PROVE  Keeps(u)'
  <2>1. Keeps(u) /\ u # t
      BY DEF IInv
  <2>2. ConnsStay
      BY <1>3 DEF ConnsStay, ConnsHear
  <2>3. Spares(u)
      BY <1>1, <1>2, <1>4, <2>1, <2>2 DEF Spares
  <2> QED BY <1>1, <1>5, <2>1, <2>3, SparedKeeps
<1>7. Keeps(t)'
  <2>1. CASE thread[t].pc = "closing"
    <3>1. thread' = [thread EXCEPT ![t] = Back(t)]
        BY <2>1 DEF Closed
    <3>2. Rests(t)
        BY <1>1, <3>1, RestIs
    <3>3. OuterStays(t)
        BY <1>1, <1>2, <1>3 DEF OuterStays, Keeps, Unlocks, ConnsHear
    <3> QED BY <1>1, <3>2, <3>3, RestKeeps
  <2>2. CASE thread[t].pc # "closing"
    <3>1. thread' = [thread EXCEPT ![t].hs = {}] /\ thread[t].pc = "stopping"
        BY <1>1, <2>2 DEF Closed
    <3>2. /\ thread'[t].pc = "stopping" /\ thread'[t].hs = {} /\ thread'[t].kind = thread[t].kind
          /\ thread'[t].outer = thread[t].outer
        BY <1>1, <3>1 DEF Doing
    <3>3. Unlocks(t)'
        BY <1>1, <1>2, <1>3, <3>2 DEF Keeps, Unlocks, ConnsHear
    <3>4. Claims(t)' /\ Handles(t)' /\ Suits(t)'
        BY <3>2 DEF Claims, Handles, Suits, Holding
    <3>5. Keys(t)'
        BY <1>1, <3>1, <3>2 DEF Keeps, Keys
    <3> QED BY <3>3, <3>4, <3>5 DEF Keeps
  <2> QED BY <2>1, <2>2
<1>8. \A d \in All : Keeping(d)' <=> Keeping(d)
    BY <1>1, <1>4 DEF Keeping
<1>9. Told'
    BY <1>1, <1>2, <1>8 DEF IInv, Told, Current
<1>10. Silent' /\ Cancelled'
    BY <1>1 DEF IInv, Silent, Cancelled
<1>11. Reached' /\ Current' /\ Kept'
    BY <1>1, <1>3, HearKeeps DEF Shape
<1> QED BY <1>5, <1>6, <1>7, <1>9, <1>10, <1>11 DEF IInv

\* The orphans are closed, and a connection may be let go; for the rest the ones there are stay.
Mends ==
    /\ orphans' = {} /\ conn' \in Seq(Connections)
    /\ \A h \in DOMAIN conn :
          /\ h \in DOMAIN conn'
          /\ conn'[h].client = conn[h].client /\ conn'[h].run = conn[h].run /\ conn'[h].at = conn[h].at
          /\ conn'[h].stated = conn[h].stated /\ conn'[h].seed = conn[h].seed
          /\ conn'[h].is = "open" => conn[h].is = "open" /\ h \notin orphans

\* Closing the orphans closes nothing else, and changes nothing else of a connection.
LEMMA OrphansGo ==
    ASSUME Shape
    PROVE  /\ WithoutOrphans \in Seq(Connections) /\ Len(WithoutOrphans) = Len(conn)
           /\ DOMAIN WithoutOrphans = DOMAIN conn
           /\ \A h \in DOMAIN conn :
                 /\ WithoutOrphans[h] \in Connections
                 /\ WithoutOrphans[h].client = conn[h].client /\ WithoutOrphans[h].run = conn[h].run
                 /\ WithoutOrphans[h].at = conn[h].at
                 /\ WithoutOrphans[h].stated = conn[h].stated /\ WithoutOrphans[h].seed = conn[h].seed
                 /\ WithoutOrphans[h].is = "open" => conn[h].is = "open" /\ h \notin orphans
                 /\ h \notin orphans => WithoutOrphans[h].is = conn[h].is
<1>1. Len(conn) \in Nat /\ DOMAIN conn = 1 .. Len(conn) /\ \A h \in DOMAIN conn : conn[h] \in Connections
    BY ConnTypes
<1>2. ASSUME NEW h \in DOMAIN conn
      PROVE  /\ WithoutOrphans[h] \in Connections
             /\ WithoutOrphans[h].client = conn[h].client /\ WithoutOrphans[h].run = conn[h].run
             /\ WithoutOrphans[h].at = conn[h].at
             /\ WithoutOrphans[h].stated = conn[h].stated /\ WithoutOrphans[h].seed = conn[h].seed
             /\ WithoutOrphans[h].is = "open" => conn[h].is = "open" /\ h \notin orphans
             /\ h \notin orphans => WithoutOrphans[h].is = conn[h].is
  <2>1. WithoutOrphans[h] = IF h \in orphans THEN [conn[h] EXCEPT !.is = "closed"] ELSE conn[h]
      BY DEF WithoutOrphans
  <2>2. CASE h \in orphans
    <3>1. WithoutOrphans[h] = [conn[h] EXCEPT !.is = "closed"]
        BY <2>1, <2>2
    <3> QED BY <1>1, <2>2, <3>1 DEF Connections
  <2>3. CASE h \notin orphans
      BY <1>1, <2>1, <2>3
  <2> QED BY <2>2, <2>3
<1>3. DOMAIN WithoutOrphans = DOMAIN conn
    BY DEF WithoutOrphans
<1>4. WithoutOrphans \in [1 .. Len(conn) -> Connections]
    BY <1>1, <1>2, <1>3 DEF WithoutOrphans
<1>5. WithoutOrphans \in Seq(Connections) /\ Len(WithoutOrphans) = Len(conn)
    BY <1>1, <1>4, IsSeqOf
<1> QED BY <1>2, <1>3, <1>5

\* ... and so a step that closes them mends.
LEMMA MendedIs ==
    ASSUME Shape, conn' = WithoutOrphans, orphans' = {}
    PROVE  Mends /\ DOMAIN conn' = DOMAIN conn /\ \A h \in DOMAIN conn \ orphans : conn'[h].is = conn[h].is
BY OrphansGo DEF Mends

\* LetGo: the client's connection is closing.
LEMMA LetGoIs ==
    ASSUME Shape, NEW c \in All, client[c].h \in DOMAIN conn \ orphans, LetGo(c)
    PROVE  /\ Mends /\ DOMAIN conn' = DOMAIN conn /\ conn'[client[c].h].is = "closing"
           /\ \A h \in (DOMAIN conn \ orphans) \ {client[c].h} : conn'[h].is = conn[h].is
<1> DEFINE g == client[c].h
<1>1. conn' = [WithoutOrphans EXCEPT ![g].is = "closing"] /\ orphans' = {}
    BY DEF LetGo
<1>2. Len(conn) \in Nat /\ DOMAIN conn = 1 .. Len(conn) /\ g \in DOMAIN conn \ orphans
    BY ConnTypes
<1> HIDE DEF g
<1>3. conn'[g] = [WithoutOrphans[g] EXCEPT !.is = "closing"] /\ \A h \in DOMAIN conn \ {g} : conn'[h] = WithoutOrphans[h]
    BY <1>1, <1>2, OrphansGo
<1>4. /\ conn'[g] \in Connections /\ conn'[g].is = "closing"
      /\ conn'[g].client = conn[g].client /\ conn'[g].run = conn[g].run /\ conn'[g].at = conn[g].at
      /\ conn'[g].stated = conn[g].stated /\ conn'[g].seed = conn[g].seed
  <2>1. WithoutOrphans[g] \in Connections
      BY <1>2, OrphansGo
  <2>2. /\ conn'[g] \in Connections /\ conn'[g].is = "closing"
        /\ conn'[g].client = WithoutOrphans[g].client /\ conn'[g].run = WithoutOrphans[g].run
        /\ conn'[g].at = WithoutOrphans[g].at
        /\ conn'[g].stated = WithoutOrphans[g].stated /\ conn'[g].seed = WithoutOrphans[g].seed
      BY <1>3, <2>1 DEF Connections
  <2> QED BY <1>2, <2>2, OrphansGo
<1>5. DOMAIN conn' = DOMAIN conn
    BY <1>1, OrphansGo
<1>6. conn' \in [1 .. Len(conn) -> Connections]
  <2>1. \A h \in DOMAIN conn : conn'[h] \in Connections
      BY <1>3, <1>4, OrphansGo
  <2>2. conn' = [h \in DOMAIN conn |-> conn'[h]]
      BY <1>1, OrphansGo
  <2> QED BY <1>2, <2>1, <2>2
<1>7. conn' \in Seq(Connections)
    BY <1>2, <1>6, IsSeqOf
<1> QED BY <1>1, <1>2, <1>3, <1>4, <1>5, <1>7, OrphansGo DEF Mends, g

\* A thread that does none of it is spared.
LEMMA OthersKeep ==
    ASSUME IInv, Shape', Mends, run' = run, owner' = owner, NEW u \in Threads, thread'[u] = thread[u],
           \A c \in All :
              /\ client'[c].stated = client[c].stated /\ client'[c].in_key_fn = client[c].in_key_fn
              /\ client[c].is \in {"made", "closed"} => client'[c].is \in {"made", "closed"}
              /\ owner[c] = u /\ client[c].is \in {"made", "closed"} => client'[c].h \in {client[c].h, 0}
    PROVE  Keeps(u)'
<1>1. Shape /\ Keeps(u) /\ run.number \in Nat
    BY DEF IInv, Shape
<1>2. ConnsStay
    BY DEF ConnsStay, Mends
<1>3. Spares(u)
    BY <1>1, <1>2 DEF Spares, Mends
<1> QED BY <1>1, <1>3, SparedKeeps

\* A step that lets clients go leaves their connections closing, and the others' as they were.
LEMMA LetsGo ==
    ASSUME IInv, Mends, DOMAIN conn' = DOMAIN conn, run' = run,
           \A c \in All :
              /\ client'[c].h \in {client[c].h, 0} /\ client'[c].stated = client[c].stated /\ client'[c].at = client[c].at
              /\ client[c].is # "unmade" => client'[c].is # "unmade"
              /\ client'[c].h # 0 => client'[c].is = client[c].is /\ conn'[client[c].h].is = conn[client[c].h].is
              /\ client[c].h # 0 /\ client'[c].h = 0 => conn'[client[c].h].is # "open"
              /\ Keeping(c)' <=> Keeping(c)
    PROVE  Reached' /\ Current' /\ Kept' /\ Told' /\ Silent'
<1>1. \A h \in DOMAIN conn : conn[h].client \in All /\ h # 0
    BY ConnTypes DEF IInv
<1>2. Reached'
    BY <1>1 DEF IInv, Reached, Mends
<1>3. Current'
    BY <1>1 DEF IInv, Current, Mends, Open
<1>4. Kept'
    BY <1>1 DEF IInv, Kept, Mends, Open
<1>5. Told'
  <2> SUFFICES ASSUME NEW d \in All, client'[d].h # 0
               PROVE  conn'[client'[d].h].stated = client'[d].stated + (IF Keeping(d)' THEN 1 ELSE 0)
      BY DEF Told
  <2>1. client'[d].h = client[d].h /\ client'[d].stated = client[d].stated /\ client[d].h \in DOMAIN conn
      BY DEF IInv, Current
  <2>2. conn[client[d].h].stated = client[d].stated + (IF Keeping(d) THEN 1 ELSE 0)
      BY <2>1 DEF IInv, Told
  <2> QED BY <2>1, <2>2 DEF Mends
<1>6. Silent'
    BY DEF IInv, Silent, All
<1> QED BY <1>2, <1>3, <1>4, <1>5, <1>6

\* A connection opened is the next by number; the others stay as they were.
LEMMA OpensIs ==
    ASSUME Shape, NEW new \in Connections, conn' = Append(WithoutOrphans, new), orphans' = {}
    PROVE  /\ Mends /\ DOMAIN conn' = DOMAIN conn \cup {Len(conn) + 1} /\ Len(conn) + 1 \notin DOMAIN conn
           /\ conn'[Len(conn) + 1] = new /\ \A h \in DOMAIN conn \ orphans : conn'[h].is = conn[h].is
<1>1. Len(conn) \in Nat /\ DOMAIN conn = 1 .. Len(conn)
    BY ConnTypes
<1>2. /\ conn' \in Seq(Connections) /\ Len(conn') = Len(conn) + 1 /\ conn'[Len(conn) + 1] = new
      /\ DOMAIN conn' = 1 .. Len(conn) + 1
      /\ \A h \in 1 .. Len(conn) : conn'[h] = WithoutOrphans[h]
    BY <1>1, OrphansGo
<1>3. \A h \in DOMAIN conn : h \in DOMAIN conn' /\ conn'[h] = WithoutOrphans[h]
    BY <1>1, <1>2
<1>4. Mends
    BY <1>2, <1>3, OrphansGo DEF Mends
<1>5. \A h \in DOMAIN conn \ orphans : conn'[h].is = conn[h].is
    BY <1>3, OrphansGo
<1> QED BY <1>1, <1>2, <1>4, <1>5

\* It is opened for a client that had none, in the run that is on, and told what its client was.
LEMMA OpensKeeps ==
    ASSUME IInv, NEW c \in All, NEW new \in Connections, conn' = Append(WithoutOrphans, new), orphans' = {},
           run' = run, run.on, client[c].h = 0,
           new.client = c, new.run = run.number, new.is = "open", new.stated = client[c].stated,
           client'[c].is = "made", client'[c].h = Len(conn) + 1, client'[c].stated = client[c].stated,
           c \in Nodes => new.at = client'[c].at,
           client'[c].at = client[c].at \/ client[c].is = "unmade",
           \A d \in All \ {c} : client'[d] = client[d],
           ~Keeping(c), \A d \in All : Keeping(d)' <=> Keeping(d)
    PROVE  Reached' /\ Current' /\ Kept' /\ Told' /\ Silent'
<1> DEFINE n == Len(conn) + 1
<1>1. /\ Shape /\ run.number \in Nat
      /\ \A h \in DOMAIN conn : conn[h].client \in All /\ h # 0 /\ h # n
      /\ n # 0 /\ client[c].stated \in Nat
  <2>1. Shape /\ run.number \in Nat /\ client[c].stated \in Nat
      BY DEF IInv, Shape, Clientele
  <2> QED BY <2>1, ConnTypes
<1>2. /\ Mends /\ DOMAIN conn' = DOMAIN conn \cup {n} /\ n \notin DOMAIN conn
      /\ conn'[n] = new /\ \A h \in DOMAIN conn \ orphans : conn'[h].is = conn[h].is
    BY <1>1, OpensIs
<1> HIDE DEF n
<1>3. client'[c].h = n
    BY DEF n
<1>4. Reached'
  <2> SUFFICES ASSUME NEW h \in DOMAIN conn'
               PROVE  /\ conn'[h].run <= run'.number
                      /\ client'[conn'[h].client].is # "unmade"
                      /\ conn'[h].client \in Nodes => conn'[h].at = client'[conn'[h].client].at
      BY DEF Reached
  <2>1. CASE h = n
      BY <1>1, <1>2, <2>1
  <2>2. CASE h \in DOMAIN conn
      BY <1>1, <1>2, <2>2 DEF IInv, Reached, Mends
  <2> QED BY <1>2, <2>1, <2>2
<1>5. Current'
  <2> SUFFICES ASSUME NEW d \in All, client'[d].h # 0
               PROVE  /\ client'[d].is = "made" /\ run'.on
                      /\ client'[d].h \in DOMAIN conn' \ orphans'
                      /\ conn'[client'[d].h].client = d /\ conn'[client'[d].h].is = "open"
                      /\ conn'[client'[d].h].run = run'.number
      BY DEF Current, Open
  <2>1. CASE d = c
      BY <1>1, <1>2, <1>3, <2>1
  <2>2. CASE d # c
    <3>1. /\ client'[d] = client[d] /\ client[d].is = "made" /\ client[d].h \in DOMAIN conn \ orphans
          /\ conn[client[d].h].client = d /\ conn[client[d].h].is = "open" /\ conn[client[d].h].run = run.number
        BY <2>2 DEF IInv, Current, Open
    <3> QED BY <1>2, <3>1 DEF Mends
  <2> QED BY <2>1, <2>2
<1>6. Kept'
  <2> SUFFICES ASSUME NEW h \in DOMAIN conn', conn'[h].is = "open"
               PROVE  client'[conn'[h].client].h = h
      BY DEF Kept, Open
  <2>1. CASE h = n
      BY <1>2, <1>3, <2>1
  <2>2. CASE h \in DOMAIN conn
    <3>1. conn[h].is = "open" /\ h \notin orphans /\ conn'[h].client = conn[h].client
        BY <1>2, <2>2 DEF Mends
    <3>2. client[conn[h].client].h = h
        BY <2>2, <3>1 DEF IInv, Kept, Open
    <3> QED BY <1>1, <2>2, <3>1, <3>2
  <2> QED BY <1>2, <2>1, <2>2
<1>7. Told'
  <2> SUFFICES ASSUME NEW d \in All, client'[d].h # 0
               PROVE  conn'[client'[d].h].stated = client'[d].stated + (IF Keeping(d)' THEN 1 ELSE 0)
      BY DEF Told
  <2>1. CASE d = c
      BY <1>1, <1>2, <1>3, <2>1
  <2>2. CASE d # c
    <3>1. client'[d] = client[d] /\ client[d].h \in DOMAIN conn
        BY <2>2 DEF IInv, Current
    <3>2. conn[client[d].h].stated = client[d].stated + (IF Keeping(d) THEN 1 ELSE 0)
        BY <3>1 DEF IInv, Told
    <3> QED BY <1>2, <3>1, <3>2 DEF Mends
  <2> QED BY <2>1, <2>2
<1>8. Silent'
    BY DEF IInv, Silent, All
<1> QED BY <1>4, <1>5, <1>6, <1>7, <1>8

\* Nobody keeps a setting of a client that is not made yet.
LEMMA UnmadeIs ==
    ASSUME IInv, NEW c \in All, client[c].is = "unmade"
    PROVE  client[c].h = 0 /\ ~Keeping(c)
<1>1. client[c].h = 0
    BY DEF IInv, Current
<1>2. ~Keeping(c)
    BY DEF IInv, Keeping, Keeps, Claims, Holding
<1> QED BY <1>1, <1>2

\* What a client opens is a connection.
LEMMA OpenedIs ==
    ASSUME IInv, NEW c \in All
    PROVE  /\ c \in IsoTps => NewIsoTp(c) \in Connections
           /\ c \notin IsoTps => NewConn(c) \in Connections
           /\ Opened(c) \in Connections /\ Opened(c).client = c /\ Opened(c).run = run.number /\ Opened(c).is = "open"
           /\ Opened(c).stated = client[c].stated /\ Opened(c).at = run.at
<1>1. run.number \in Nat /\ run.at \in Places /\ client[c].stated \in Nat
    BY DEF IInv, Shape, Clientele
<1>2. c \in IsoTps => client[c].stated = 0
    BY DEF IInv, Silent
<1> QED BY <1>1, <1>2 DEF Opened, NewConn, NewIsoTp, Connections

\* A client made with its first connection; every thread is spared.
LEMMA MadeKeeps ==
    ASSUME IInv, NEW c \in All, NEW at \in Places \cup {Nobody}, client[c].is = "unmade", run.on, UNCHANGED flash,
           c \in Nodes => at = run.at, c \notin Nodes => at = client[c].at,
           conn' = Append(WithoutOrphans, Opened(c)), orphans' = {},
           client' = [client EXCEPT ![c].is = "made", ![c].at = at, ![c].h = Len(conn) + 1],
           UNCHANGED <<script, lock, run, owner, thread, begun>>
    PROVE  IInv'
<1>1. Shape /\ Cancelled /\ Len(conn) + 1 \in Nat /\ client[c] \in Clientele /\ client \in [All -> Clientele]
  <2>1. Shape /\ Cancelled /\ client[c] \in Clientele /\ client \in [All -> Clientele]
      BY DEF IInv, Shape
  <2> QED BY <2>1, ConnTypes
<1>2. client[c].h = 0 /\ ~Keeping(c)
    BY UnmadeIs
<1>3. /\ Opened(c) \in Connections /\ Opened(c).client = c /\ Opened(c).run = run.number /\ Opened(c).is = "open"
      /\ Opened(c).stated = client[c].stated /\ Opened(c).at = run.at
    BY OpenedIs
<1>4. client'[c] = [client[c] EXCEPT !.is = "made", !.at = at, !.h = Len(conn) + 1] /\ \A d \in All \ {c} : client'[d] = client[d]
    BY <1>1
<1>5. /\ client'[c] \in Clientele /\ client'[c].is = "made" /\ client'[c].h = Len(conn) + 1 /\ client'[c].at = at
      /\ client'[c].stated = client[c].stated /\ client'[c].in_key_fn = client[c].in_key_fn
    BY <1>1, <1>4 DEF Clientele
<1>6. client' \in [All -> Clientele]
    BY <1>1, <1>4, <1>5
<1>7. Mends /\ DOMAIN conn' = DOMAIN conn \cup {Len(conn) + 1}
    BY <1>1, <1>3, OpensIs
<1>8. Shape'
    BY <1>1, <1>6, <1>7 DEF Shape, Mends
<1>9. ASSUME NEW u \in Threads
      PROVE  Keeps(u)'
    BY <1>1, <1>4, <1>5, <1>7, <1>8, OthersKeep
<1>10. \A d \in All : Keeping(d)' <=> Keeping(d)
    BY DEF Keeping
<1>11. Reached' /\ Current' /\ Kept' /\ Told' /\ Silent'
    BY <1>2, <1>3, <1>4, <1>5, <1>10, OpensKeeps
<1> QED BY <1>1, <1>8, <1>9, <1>11 DEF IInv, Cancelled

\* A client is made with its first connection.
LEMMA CreateKeeps == ASSUME IInv, NEW t \in Threads, NEW c \in All, Create(t, c), UNCHANGED flash PROVE IInv'
<1>1. Shape /\ client[c] \in Clientele /\ c \notin Nodes /\ client[c].is = "unmade" /\ run.on
    BY DEF IInv, Shape, Create, MayOpen
<1>2. client[c].at \in Places \cup {Nobody}
    BY <1>1 DEF Clientele
<1>3. client' = [client EXCEPT ![c].is = "made", ![c].at = client[c].at, ![c].h = Len(conn) + 1]
  <2>1. [client[c] EXCEPT !.is = "made", !.h = Len(conn) + 1]
            = [client[c] EXCEPT !.is = "made", !.at = client[c].at, !.h = Len(conn) + 1]
      BY <1>1 DEF Clientele
  <2>2. client' = [client EXCEPT ![c].is = "made", ![c].h = Len(conn) + 1]
      BY DEF Create
  <2> QED BY <2>1, <2>2
<1> QED BY <1>1, <1>2, <1>3, MadeKeeps DEF Create

\* A NodeClient is made where its run reaches the node, with its first connection.
LEMMA CreateNodeKeeps == ASSUME IInv, NEW t \in Threads, NEW c \in All, CreateNode(t, c), UNCHANGED flash PROVE IInv'
<1>1. c \in Nodes /\ c \notin IsoTps /\ client[c].is = "unmade" /\ run.on /\ run.at \in Places \cup {Nobody}
    BY UdsAssumption DEF IInv, Shape, CreateNode
<1>2. Opened(c) = NewConn(c)
    BY <1>1 DEF Opened
<1> QED BY <1>1, <1>2, MadeKeeps DEF CreateNode

\* A call takes the handle its client has, or opens one; its client is then its by its lock.
LEMMA HandleKeeps == ASSUME IInv, NEW t \in Threads, Handle(t), UNCHANGED flash PROVE IInv'
<1>0. PICK c \in thread[t].cs \ {conn[h].client : h \in thread[t].hs} :
          \E h \in {client[c].h} \cup {Len(conn) + 1} :
            /\ IF client[c].h # 0
               THEN h = client[c].h /\ conn' = WithoutOrphans /\ UNCHANGED client
               ELSE IF client[c].is = "made" /\ MayOpen(c)
               THEN /\ h = Len(conn) + 1
                    /\ conn' = Append(WithoutOrphans, Opened(c))
                    /\ client' = [client EXCEPT ![c].h = h]
               ELSE h = 0 /\ conn' = WithoutOrphans /\ UNCHANGED client
            /\ thread' = [thread EXCEPT
                    ![t].hs = @ \cup ({h} \ {0}),
                    ![t].pc = IF h = 0 THEN "leaving"
                              ELSE IF Cardinality(thread[t].hs) + 1 < Cardinality(thread[t].cs) THEN "handles"
                              ELSE IF thread[t].kind = "write" THEN "resolving" ELSE "asking"]
    BY DEF Handle
<1>1. PICK h \in {client[c].h} \cup {Len(conn) + 1} :
            /\ IF client[c].h # 0
               THEN h = client[c].h /\ conn' = WithoutOrphans /\ UNCHANGED client
               ELSE IF client[c].is = "made" /\ MayOpen(c)
               THEN /\ h = Len(conn) + 1
                    /\ conn' = Append(WithoutOrphans, Opened(c))
                    /\ client' = [client EXCEPT ![c].h = h]
               ELSE h = 0 /\ conn' = WithoutOrphans /\ UNCHANGED client
            /\ thread' = [thread EXCEPT
                    ![t].hs = @ \cup ({h} \ {0}),
                    ![t].pc = IF h = 0 THEN "leaving"
                              ELSE IF Cardinality(thread[t].hs) + 1 < Cardinality(thread[t].cs) THEN "handles"
                              ELSE IF thread[t].kind = "write" THEN "resolving" ELSE "asking"]
    BY <1>0
<1>2. /\ Shape /\ Keeps(t) /\ Cancelled /\ thread[t].pc = "handles" /\ run.number \in Nat /\ orphans' = {}
      /\ thread[t] \in Doing /\ thread \in [Threads -> Doing] /\ client \in [All -> Clientele] /\ thread[t].run \in Nat
      /\ UNCHANGED <<script, lock, run, owner, begun, flash>>
    BY DoingTypes DEF IInv, Handle, Shape
<1>3. /\ c \in All /\ owner[c] = t /\ client[c].is \in {"made", "closed"} /\ client[c] \in Clientele
      /\ Len(conn) + 1 \in Nat \ {0}
  <2>1. c \in All
      BY <1>2, DoingTypes
  <2>2. Len(conn) \in Nat
      BY <1>2, ConnTypes
  <2> QED BY <1>2, <2>1, <2>2 DEF Keeps, Claims, Holding
<1>4. /\ Mends /\ (h # 0 => h \in DOMAIN conn' /\ conn'[h].client = c /\ conn'[h].run = run.number)
      /\ client' \in [All -> Clientele] /\ h \in Nat
      /\ \A d \in All : /\ client'[d].stated = client[d].stated /\ client'[d].in_key_fn = client[d].in_key_fn
                        /\ client'[d].is = client[d].is /\ client'[d].at = client[d].at
                        /\ (d # c => client'[d] = client[d])
      /\ ((\A d \in All : Keeping(d)' <=> Keeping(d)) => Reached' /\ Current' /\ Kept' /\ Told' /\ Silent')
  <2>1. CASE conn' = WithoutOrphans /\ UNCHANGED client /\ h = client[c].h
    <3>1. Mends /\ DOMAIN conn' = DOMAIN conn /\ \A g \in DOMAIN conn \ orphans : conn'[g].is = conn[g].is
        BY <1>2, <2>1, MendedIs
    <3>2. \A d \in All : client[d].h # 0 => /\ client[d].h \in DOMAIN conn \ orphans /\ conn[client[d].h].client = d
                                            /\ conn[client[d].h].run = run.number
        BY DEF IInv, Current
    <3>3. (\A d \in All : Keeping(d)' <=> Keeping(d)) => Reached' /\ Current' /\ Kept' /\ Told' /\ Silent'
        BY <1>2, <2>1, <3>1, <3>2, LetsGo
    <3>4. client[c].h \in Nat
        BY <1>3 DEF Clientele
    <3> QED BY <1>2, <1>3, <2>1, <3>1, <3>2, <3>3, <3>4 DEF Mends
  <2>2. CASE /\ client[c].h = 0 /\ client[c].is = "made" /\ MayOpen(c) /\ h = Len(conn) + 1
             /\ conn' = Append(WithoutOrphans, Opened(c)) /\ client' = [client EXCEPT ![c].h = h]
    <3>1. /\ Opened(c) \in Connections /\ Opened(c).client = c /\ Opened(c).run = run.number /\ Opened(c).is = "open"
          /\ Opened(c).stated = client[c].stated /\ Opened(c).at = run.at
        BY <1>3, OpenedIs
    <3>2. client'[c] = [client[c] EXCEPT !.h = Len(conn) + 1] /\ \A d \in All \ {c} : client'[d] = client[d]
        BY <1>2, <1>3, <2>2
    <3>3. /\ client'[c] \in Clientele /\ client'[c].is = "made" /\ client'[c].h = Len(conn) + 1
          /\ client'[c].at = client[c].at /\ client'[c].stated = client[c].stated
          /\ client'[c].in_key_fn = client[c].in_key_fn
        BY <1>3, <2>2, <3>2 DEF Clientele
    <3>4. client' \in [All -> Clientele]
        BY <1>2, <2>2, <3>2, <3>3
    <3>5. /\ Mends /\ DOMAIN conn' = DOMAIN conn \cup {Len(conn) + 1} /\ conn'[Len(conn) + 1] = Opened(c)
        BY <1>2, <2>2, <3>1, OpensIs
    <3>6. ~Keeping(c)
        BY <1>2, <1>3, KeepingOwns
    <3>7. run.on /\ (c \in Nodes => run.at = client[c].at)
        BY <2>2 DEF MayOpen, StillThere
    <3>8. (\A d \in All : Keeping(d)' <=> Keeping(d)) => Reached' /\ Current' /\ Kept' /\ Told' /\ Silent'
        BY <1>2, <1>3, <2>2, <3>1, <3>2, <3>3, <3>6, <3>7, OpensKeeps
    <3> QED BY <1>3, <2>2, <3>1, <3>2, <3>3, <3>4, <3>5, <3>8
  <2>3. CASE client[c].h = 0 /\ h = 0 /\ conn' = WithoutOrphans /\ UNCHANGED client
      BY <2>1, <2>3
  <2> QED BY <1>1, <2>1, <2>2, <2>3
<1> DEFINE hs == thread[t].hs \cup ({h} \ {0})
           pc == IF h = 0 THEN "leaving"
                 ELSE IF Cardinality(thread[t].hs) + 1 < Cardinality(thread[t].cs) THEN "handles"
                 ELSE IF thread[t].kind = "write" THEN "resolving" ELSE "asking"
<1>5. /\ pc \in Stations /\ pc \in {"leaving", "handles", "resolving", "asking"}
      /\ pc = "resolving" => thread[t].kind = "write"
      /\ pc = "asking" => thread[t].kind # "write"
    BY DEF Stations, Holding
<1>6. thread' = [thread EXCEPT ![t].hs = hs, ![t].pc = pc]
    BY <1>1
<1> HIDE DEF pc
<1>7. /\ thread' \in [Threads -> Doing] /\ (\A u \in Threads \ {t} : thread'[u] = thread[u])
      /\ thread'[t].pc = pc /\ thread'[t].kind = thread[t].kind /\ thread'[t].cs = thread[t].cs
      /\ thread'[t].hs = hs /\ thread'[t].run = thread[t].run /\ thread'[t].outer = thread[t].outer
  <2>1. thread'[t] = [thread[t] EXCEPT !.hs = hs, !.pc = pc] /\ hs \subseteq Nat
      BY <1>2, <1>4, <1>6, DoingTypes
  <2> HIDE DEF hs
  <2>2. thread'[t] \in Doing
      BY <1>2, <1>5, <2>1 DEF Doing
  <2>3. /\ thread'[t].pc = pc /\ thread'[t].kind = thread[t].kind /\ thread'[t].cs = thread[t].cs
        /\ thread'[t].hs = hs /\ thread'[t].run = thread[t].run /\ thread'[t].outer = thread[t].outer
      BY <1>2, <2>1 DEF Doing
  <2> QED BY <1>2, <1>6, <2>2, <2>3
<1>8. Shape'
    BY <1>2, <1>4, <1>7 DEF Shape, Mends
<1>9. ASSUME NEW u \in Threads \ {t}
      PROVE  Keeps(u)'
  <2>1. u # t
      OBVIOUS
  <2> QED BY <1>2, <1>3, <1>4, <1>7, <1>8, <2>1, OthersKeep
<1>10. Keeps(t)'
  <2>1. thread[t].hs \subseteq DOMAIN conn /\ thread[t].cs \subseteq All
      BY <1>2, DoingTypes DEF Keeps, Handles, Holding
  <2>2. Claims(t)'
      BY <1>2, <1>4, <2>1, <1>5, <1>7 DEF Keeps, Claims, Holding
  <2>3. Handles(t)'
    <3>1. hs \subseteq DOMAIN conn' \ orphans'
        BY <1>2, <1>4, <2>1 DEF Mends
    <3>2. \A g \in hs : conn'[g].client \in thread[t].cs
        BY <1>2, <1>4, <2>1 DEF Mends, Keeps, Handles, Holding
    <3>3. \A g, i \in hs : conn'[g].client = conn'[i].client => g = i
        BY <1>2, <1>4, <2>1 DEF Mends, Keeps, Handles, Holding
    <3> QED BY <1>7, <3>1, <3>2, <3>3 DEF Handles
  <2>4. Unlocks(t)'
      BY <1>2, <1>4, <1>7 DEF Keeps, Unlocks, Mends
  <2>5. Keys(t)'
    <3>1. \A d \in thread[t].cs : client'[d].in_key_fn = client[d].in_key_fn
        BY <1>2, <1>4, DoingTypes
    <3> QED BY <1>2, <1>5, <1>7, <3>1 DEF Keeps, Keys
  <2>6. Suits(t)'
    <3>1. thread[t].kind = "read" => \A g \in hs : thread[t].run <= conn'[g].run
        BY <1>2, <1>4, <2>1 DEF Keeps, Suits, Holding, Mends
    <3>2. thread[t].kind = "read" => thread[t].run <= run.number
        BY <1>2 DEF Keeps, Suits, Holding
    <3> QED BY <1>2, <1>5, <1>7, <3>1, <3>2 DEF Suits
  <2> QED BY <2>2, <2>3, <2>4, <2>5, <2>6 DEF Keeps
<1>11. \A d \in All : Keeping(d)' <=> Keeping(d)
    BY <1>2, <1>5, <1>7 DEF Keeping
<1> QED BY <1>2, <1>4, <1>8, <1>9, <1>10, <1>11 DEF IInv, Cancelled

\* A client closed by any thread keeps its lock's holder, and its connection is nobody's to ask on.
LEMMA CloseKeeps == ASSUME IInv, NEW t \in Threads, NEW c \in All, Close(t, c), UNCHANGED flash PROVE IInv'
<1>1. /\ Shape /\ Keeps(t) /\ Cancelled /\ thread[t].pc \in {"idle", "key_fn"} /\ run.number \in Nat
      /\ client[c].is = "made" /\ client[c] \in Clientele /\ client \in [All -> Clientele] /\ t # Nobody
      /\ client' = [client EXCEPT ![c].is = "closed", ![c].h = 0]
      /\ UNCHANGED <<script, run, owner, begun, flash>>
    BY UdsAssumption DEF IInv, Close, Shape, Free
<1>2. /\ client' \in [All -> Clientele] /\ client'[c].is = "closed" /\ client'[c].h = 0
      /\ client'[c].at = client[c].at /\ client'[c].stated = client[c].stated
      /\ client'[c].in_key_fn = client[c].in_key_fn /\ \A d \in All \ {c} : client'[d] = client[d]
  <2>1. client'[c] = [client[c] EXCEPT !.is = "closed", !.h = 0] /\ \A d \in All \ {c} : client'[d] = client[d]
      BY <1>1
  <2>2. /\ client'[c] \in Clientele /\ client'[c].is = "closed" /\ client'[c].h = 0
        /\ client'[c].at = client[c].at /\ client'[c].stated = client[c].stated
        /\ client'[c].in_key_fn = client[c].in_key_fn
      BY <1>1, <2>1 DEF Clientele
  <2>3. client' \in [All -> Clientele]
      BY <1>1, <2>1, <2>2
  <2> QED BY <2>1, <2>2, <2>3
<1>3. /\ \A d \in All : client[d].h # 0 => client[d].h \in DOMAIN conn \ orphans /\ conn[client[d].h].client = d
    BY DEF IInv, Current
<1>4. /\ Mends /\ DOMAIN conn' = DOMAIN conn /\ (client[c].h # 0 => conn'[client[c].h].is # "open")
      /\ \A d \in All \ {c} : client[d].h # 0 => conn'[client[d].h].is = conn[client[d].h].is
  <2>1. CASE LetGo(c)
    <3>1. client[c].h \in DOMAIN conn \ orphans
        BY <1>3, <2>1 DEF LetGo
    <3>2. /\ Mends /\ DOMAIN conn' = DOMAIN conn /\ conn'[client[c].h].is = "closing"
          /\ \A h \in (DOMAIN conn \ orphans) \ {client[c].h} : conn'[h].is = conn[h].is
        BY <1>1, <2>1, <3>1, LetGoIs
    <3> QED BY <1>3, <3>1, <3>2
  <2>2. CASE client[c].h = 0 /\ conn' = WithoutOrphans /\ orphans' = {}
      BY <1>1, <1>3, <2>2, MendedIs
  <2> QED BY <2>1, <2>2 DEF Close
<1>5. /\ thread' \in [Threads -> Doing] /\ (\A u \in Threads \ {t} : thread'[u] = thread[u])
      /\ lock' \in Threads \cup {Nobody}
      /\ \/ thread'[t] = thread[t]
         \/ /\ thread'[t].pc = "closing" /\ thread'[t].hs = {client[c].h} /\ client[c].h # 0
            /\ thread'[t].kind = "none" /\ thread'[t].outer \in {NoAccess, thread[t].outer}
            /\ thread'[t].outer # NoAccess => thread[t].kind # "key"
  <2>1. CASE UNCHANGED <<lock, thread>>
      BY <1>1, <2>1 DEF Shape
  <2>2. CASE LetGo(c) /\ lock' = t /\ thread' = [thread EXCEPT ![t] = [Back(t) EXCEPT !.pc = "closing", !.hs = {client[c].h}]]
    <3>1. /\ Back(t) \in Doing /\ Back(t).kind = "none" /\ Back(t).outer \in {NoAccess, thread[t].outer}
          /\ Back(t).outer # NoAccess => thread[t].kind # "key"
        BY <1>1, BackIs
    <3>2. client[c].h \in Nat /\ client[c].h # 0 /\ {client[c].h} \subseteq Nat
        BY <1>1, <2>2 DEF Clientele, LetGo
    <3>3. thread'[t] = [Back(t) EXCEPT !.pc = "closing", !.hs = {client[c].h}]
        BY <1>1, <2>2 DEF Shape
    <3>4. /\ thread'[t] \in Doing /\ thread'[t].pc = "closing" /\ thread'[t].hs = {client[c].h}
          /\ thread'[t].kind = Back(t).kind /\ thread'[t].outer = Back(t).outer
      <4>1. "closing" \in Stations
          BY DEF Stations
      <4>2. [Back(t) EXCEPT !.pc = "closing", !.hs = {client[c].h}] \in Doing
          BY <3>1, <3>2, <4>1 DEF Doing
      <4> QED BY <3>1, <3>3, <4>2 DEF Doing
    <3> QED BY <1>1, <2>2, <3>1, <3>2, <3>4 DEF Shape
  <2> QED BY <2>1, <2>2 DEF Close
<1>6. Shape'
    BY <1>1, <1>2, <1>4, <1>5 DEF Shape, Mends
<1>7. \A d \in All : /\ client'[d].stated = client[d].stated /\ client'[d].in_key_fn = client[d].in_key_fn
                     /\ client[d].is \in {"made", "closed"} => client'[d].is \in {"made", "closed"}
                     /\ client'[d].h \in {client[d].h, 0}
    BY <1>2
<1>8. ASSUME NEW u \in Threads, thread'[u] = thread[u]
      PROVE  Keeps(u)'
    BY <1>1, <1>4, <1>6, <1>7, <1>8, OthersKeep
<1>9. Keeps(t)'
  <2>1. CASE thread'[t] = thread[t]
      BY <1>8, <2>1
  <2>2. CASE /\ thread'[t].pc = "closing" /\ thread'[t].hs = {client[c].h} /\ client[c].h # 0
             /\ thread'[t].kind = "none" /\ thread'[t].outer \in {NoAccess, thread[t].outer}
             /\ thread'[t].outer # NoAccess => thread[t].kind # "key"
    <3>1. Unlocks(t)'
        BY <1>1, <1>4, <1>7, <2>2 DEF Keeps, Unlocks, Mends
    <3>2. Claims(t)' /\ Handles(t)' /\ Keys(t)'
        BY <2>2 DEF Claims, Handles, Keys, Holding
    <3>3. Suits(t)'
        BY <1>3, <1>4, <2>2 DEF Suits, Open
    <3> QED BY <3>1, <3>2, <3>3 DEF Keeps
  <2> QED BY <1>5, <2>1, <2>2
<1>10. \A d \in All : Keeping(d)' <=> Keeping(d)
    BY <1>1, <1>5 DEF Keeping
<1>11. Reached' /\ Current' /\ Kept' /\ Told' /\ Silent'
    BY <1>1, <1>2, <1>4, <1>10, LetsGo
<1> QED BY <1>1, <1>5, <1>6, <1>8, <1>9, <1>11 DEF IInv, Cancelled

\* A client no thread is using is collected: its connection is put aside, open.
LEMMA CollectKeeps == ASSUME IInv, NEW c \in All, Collect(c), UNCHANGED flash PROVE IInv'
<1>1. /\ Shape /\ Cancelled /\ run.number \in Nat
      /\ client[c].is = "made" /\ client[c] \in Clientele /\ client \in [All -> Clientele]
      /\ client' = [client EXCEPT ![c].is = "collected", ![c].h = 0] /\ orphans' = orphans \cup {client[c].h}
      /\ client[c].h # 0 /\ \A u \in Threads : c \notin thread[u].cs \cup {thread[u].outer.client}
      /\ UNCHANGED <<script, lock, run, owner, conn, thread, begun, flash>>
    BY DEF IInv, Collect, Shape
<1>2. /\ client' \in [All -> Clientele] /\ client'[c].is = "collected" /\ client'[c].h = 0
      /\ client'[c].at = client[c].at /\ client'[c].stated = client[c].stated
      /\ client'[c].in_key_fn = client[c].in_key_fn /\ \A d \in All \ {c} : client'[d] = client[d]
  <2>1. client'[c] = [client[c] EXCEPT !.is = "collected", !.h = 0] /\ \A d \in All \ {c} : client'[d] = client[d]
      BY <1>1
  <2>2. /\ client'[c] \in Clientele /\ client'[c].is = "collected" /\ client'[c].h = 0
        /\ client'[c].at = client[c].at /\ client'[c].stated = client[c].stated
        /\ client'[c].in_key_fn = client[c].in_key_fn
      BY <1>1, <2>1 DEF Clientele
  <2>3. client' \in [All -> Clientele]
      BY <1>1, <2>1, <2>2
  <2> QED BY <2>1, <2>2, <2>3
<1>3. \A d \in All : client[d].h # 0 => client[d].h \in DOMAIN conn \ orphans /\ conn[client[d].h].client = d
    BY DEF IInv, Current
<1>4. Shape'
    BY <1>1, <1>2, <1>3 DEF Shape
<1>5. ASSUME NEW u \in Threads
      PROVE  Keeps(u)'
  <2>1. Keeps(u)
      BY DEF IInv
  <2>2. ConnsStay
      BY <1>1 DEF ConnsStay
  <2>3. \A d \in thread[u].cs \cup {thread[u].outer.client} : d \in All => client'[d] = client[d]
      BY <1>1, <1>2
  <2>4. \A h \in DOMAIN conn : h \notin orphans /\ conn[h].client \in thread[u].cs \cup {thread[u].outer.client} => h \notin orphans'
      BY <1>1, <1>3
  <2>5. Spares(u)
      BY <1>1, <1>2, <2>2, <2>3, <2>4 DEF Spares
  <2> QED BY <1>1, <1>4, <2>1, <2>5, SparedKeeps
<1>6. \A h \in DOMAIN conn : conn[h].client \in All
    BY <1>1, ConnTypes
<1>7. Reached'
    BY <1>1, <1>2, <1>6 DEF IInv, Reached
<1>8. Current'
    BY <1>1, <1>2, <1>3, <1>6 DEF IInv, Current, Open
<1>9. Kept'
    BY <1>1, <1>2, <1>6 DEF IInv, Kept, Open
<1>10. \A d \in All : Keeping(d)' <=> Keeping(d)
    BY <1>1 DEF Keeping
<1>11. Told'
    BY <1>1, <1>2, <1>10 DEF IInv, Told
<1>12. Silent' /\ Cancelled'
    BY <1>1, <1>2 DEF IInv, Silent, Cancelled, All
<1> QED BY <1>4, <1>5, <1>7, <1>8, <1>9, <1>11, <1>12 DEF IInv

-------------------------------------------------------------------------------
(* The run *)

\* A stop begins: the orphans are closed.
LEMMA StopBeginsKeeps == ASSUME IInv, NEW t \in Threads, StopBegins(t), UNCHANGED flash PROVE IInv'
<1>1. /\ Shape /\ Keeps(t) /\ Cancelled /\ thread[t].pc \in {"idle", "key_fn"} /\ run.number \in Nat /\ t # Nobody
      /\ lock' = t /\ conn' = WithoutOrphans /\ orphans' = {}
      /\ thread' = [thread EXCEPT ![t] = [Back(t) EXCEPT !.pc = "stopping"]]
      /\ UNCHANGED <<script, run, client, owner, begun, flash>>
    BY UdsAssumption DEF IInv, StopBegins, Shape, Free
<1>2. Mends /\ DOMAIN conn' = DOMAIN conn /\ \A h \in DOMAIN conn \ orphans : conn'[h].is = conn[h].is
    BY <1>1, MendedIs
<1>3. /\ thread' \in [Threads -> Doing] /\ (\A u \in Threads \ {t} : thread'[u] = thread[u])
      /\ thread'[t].pc = "stopping" /\ thread'[t].hs = {}
      /\ thread'[t].kind = "none" /\ thread'[t].outer \in {NoAccess, thread[t].outer}
      /\ thread'[t].outer # NoAccess => thread[t].kind # "key"
  <2>1. /\ Back(t) \in Doing /\ Back(t).kind = "none" /\ Back(t).outer \in {NoAccess, thread[t].outer} /\ Back(t).hs = {}
        /\ Back(t).outer # NoAccess => thread[t].kind # "key"
      BY <1>1, BackIs
  <2>2. thread'[t] = [Back(t) EXCEPT !.pc = "stopping"]
      BY <1>1 DEF Shape
  <2>3. /\ thread'[t] \in Doing /\ thread'[t].pc = "stopping" /\ thread'[t].hs = Back(t).hs
        /\ thread'[t].kind = Back(t).kind /\ thread'[t].outer = Back(t).outer
      BY <2>1, <2>2 DEF Doing, Stations
  <2> QED BY <1>1, <2>1, <2>3 DEF Shape
<1>4. Shape'
    BY <1>1, <1>2, <1>3 DEF Shape, Mends
<1>5. ASSUME NEW u \in Threads \ {t}
      PROVE  Keeps(u)'
    BY <1>1, <1>2, <1>3, <1>4, OthersKeep
<1>6. Keeps(t)'
  <2>1. Unlocks(t)'
      BY <1>1, <1>2, <1>3 DEF Keeps, Unlocks, Mends
  <2>2. Claims(t)' /\ Handles(t)' /\ Keys(t)' /\ Suits(t)'
      BY <1>3 DEF Claims, Handles, Keys, Suits, Holding
  <2> QED BY <2>1, <2>2 DEF Keeps
<1>7. \A d \in All : Keeping(d)' <=> Keeping(d)
    BY <1>1, <1>3 DEF Keeping
<1>8. \A d \in All : client[d].h # 0 => client[d].h \in DOMAIN conn \ orphans
    BY DEF IInv, Current
<1>9. Reached' /\ Current' /\ Kept' /\ Told' /\ Silent'
    BY <1>1, <1>2, <1>7, <1>8, LetsGo
<1> QED BY <1>1, <1>4, <1>5, <1>6, <1>9 DEF IInv, Cancelled

\* A stop lets a client go.
LEMMA StopLetsGoKeeps == ASSUME IInv, NEW t \in Threads, StopLetsGo(t), UNCHANGED flash PROVE IInv'
<1>1. PICK c \in All : /\ LetGo(c)
                       /\ client' = [client EXCEPT ![c].h = 0]
                       /\ thread' = [thread EXCEPT ![t].hs = {client[c].h}]
    BY DEF StopLetsGo
<1>2. /\ Shape /\ Keeps(t) /\ Cancelled /\ thread[t].pc = "stopping" /\ run.number \in Nat
      /\ thread[t] \in Doing /\ thread \in [Threads -> Doing]
      /\ client[c] \in Clientele /\ client \in [All -> Clientele] /\ client[c].h # 0
      /\ UNCHANGED <<script, lock, run, owner, begun, flash>>
    BY <1>1 DEF IInv, StopLetsGo, Shape, LetGo
<1>3. /\ client' \in [All -> Clientele] /\ client'[c].is = client[c].is /\ client'[c].h = 0
      /\ client'[c].at = client[c].at /\ client'[c].stated = client[c].stated
      /\ client'[c].in_key_fn = client[c].in_key_fn /\ \A d \in All \ {c} : client'[d] = client[d]
  <2>1. client'[c] = [client[c] EXCEPT !.h = 0] /\ \A d \in All \ {c} : client'[d] = client[d]
      BY <1>1, <1>2
  <2>2. /\ client'[c] \in Clientele /\ client'[c].is = client[c].is /\ client'[c].h = 0
        /\ client'[c].at = client[c].at /\ client'[c].stated = client[c].stated
        /\ client'[c].in_key_fn = client[c].in_key_fn
      BY <1>2, <2>1 DEF Clientele
  <2>3. client' \in [All -> Clientele]
      BY <1>1, <1>2, <2>1, <2>2
  <2> QED BY <2>1, <2>2, <2>3
<1>4. \A d \in All : client[d].h # 0 => client[d].h \in DOMAIN conn \ orphans /\ conn[client[d].h].client = d
    BY DEF IInv, Current
<1>5. /\ Mends /\ DOMAIN conn' = DOMAIN conn /\ conn'[client[c].h].is = "closing"
      /\ \A h \in (DOMAIN conn \ orphans) \ {client[c].h} : conn'[h].is = conn[h].is
    BY <1>1, <1>2, <1>4, LetGoIs
<1>6. /\ thread' \in [Threads -> Doing] /\ (\A u \in Threads \ {t} : thread'[u] = thread[u])
      /\ thread'[t].pc = "stopping" /\ thread'[t].hs = {client[c].h}
      /\ thread'[t].kind = thread[t].kind /\ thread'[t].outer = thread[t].outer
  <2>1. thread'[t] = [thread[t] EXCEPT !.hs = {client[c].h}] /\ client[c].h \in Nat
      BY <1>1, <1>2 DEF Clientele
  <2>2. /\ thread'[t] \in Doing /\ thread'[t].pc = "stopping" /\ thread'[t].hs = {client[c].h}
        /\ thread'[t].kind = thread[t].kind /\ thread'[t].outer = thread[t].outer
      BY <1>2, <2>1 DEF Doing
  <2> QED BY <1>1, <1>2, <2>2
<1>7. Shape'
    BY <1>2, <1>3, <1>5, <1>6 DEF Shape, Mends
<1>12. \A d \in All : /\ client'[d].stated = client[d].stated /\ client'[d].in_key_fn = client[d].in_key_fn
                      /\ client'[d].is = client[d].is /\ client'[d].h \in {client[d].h, 0}
    BY <1>3
<1>8. ASSUME NEW u \in Threads \ {t}
      PROVE  Keeps(u)'
    BY <1>2, <1>5, <1>6, <1>7, <1>12, OthersKeep
<1>9. Keeps(t)'
  <2>1. Unlocks(t)'
      BY <1>2, <1>5, <1>6, <1>12 DEF Keeps, Unlocks, Mends
  <2>2. Claims(t)' /\ Handles(t)'
      BY <1>6 DEF Claims, Handles, Holding
  <2>3. Keys(t)'
      BY <1>2, <1>6 DEF Keeps, Keys
  <2>4. Suits(t)'
      BY <1>2, <1>4, <1>5, <1>6 DEF Suits, Open, Holding
  <2> QED BY <2>1, <2>2, <2>3, <2>4 DEF Keeps
<1>10. \A d \in All : Keeping(d)' <=> Keeping(d)
    BY <1>2, <1>6 DEF Keeping
<1>11. Reached' /\ Current' /\ Kept' /\ Told' /\ Silent'
    BY <1>2, <1>3, <1>4, <1>5, <1>10, LetsGo
<1> QED BY <1>2, <1>7, <1>8, <1>9, <1>11 DEF IInv, Cancelled

\* Between two runs no client has a connection.
LEMMA RunKeeps ==
    ASSUME IInv, NEW t \in Threads, \A c \in All : client[c].h = 0,
           run' \in [on : BOOLEAN, number : {run.number + 1}, at : Places],
           thread' \in [Threads -> Doing], \A u \in Threads \ {t} : thread'[u] = thread[u], thread'[t] = thread[t] \/ Rests(t),
           lock' \in Threads \cup {Nobody}, thread[t].pc # "keeping",
           UNCHANGED <<script, client, owner, conn, orphans, begun, flash>>
    PROVE  IInv'
<1>1. /\ Shape /\ Keeps(t) /\ Cancelled /\ run.number \in Nat /\ run'.number \in Nat /\ run'.number = run.number + 1
      /\ run' \in [on : BOOLEAN, number : Nat, at : Places]
    BY DEF IInv, Shape
<1>2. Shape'
    BY <1>1 DEF Shape
<1>3. ASSUME NEW u \in Threads, thread'[u] = thread[u]
      PROVE  Keeps(u)'
  <2>1. Keeps(u)
      BY DEF IInv
  <2>2. ConnsStay
      BY DEF ConnsStay
  <2>3. Spares(u)
      BY <1>1, <1>3, <2>2 DEF Spares
  <2> QED BY <1>1, <1>2, <2>1, <2>3, SparedKeeps
<1>4. Keeps(t)'
  <2>1. OuterStays(t)
      BY <1>1 DEF OuterStays, Keeps, Unlocks
  <2> QED BY <1>1, <1>3, <2>1, RestKeeps
<1>5. \A h \in DOMAIN conn : conn[h].run \in Nat
    BY <1>1, ConnTypes
<1>6. Reached'
    BY <1>1, <1>5 DEF IInv, Reached
<1>7. Current' /\ Kept' /\ Told' /\ Silent' /\ Cancelled'
    BY <1>1 DEF IInv, Current, Kept, Told, Silent, Cancelled, Open
<1> QED BY <1>2, <1>3, <1>4, <1>6, <1>7 DEF IInv

\* A stop ends the run once no client has a connection.
LEMMA StopEndsKeeps == ASSUME IInv, NEW t \in Threads, StopEnds(t), UNCHANGED flash PROVE IInv'
<1>1. Shape /\ run \in [on : BOOLEAN, number : Nat, at : Places]
    BY DEF IInv, Shape
<1>2. run' = [run EXCEPT !.on = FALSE, !.number = @ + 1]
    BY DEF StopEnds
<1>3. run' \in [on : BOOLEAN, number : {run.number + 1}, at : Places]
    BY <1>1, <1>2
<1>4. Rests(t)
    BY <1>1, RestIs DEF StopEnds
<1> QED BY <1>1, <1>3, <1>4, RunKeeps DEF StopEnds, Rests

\* A run starts with no client connected.
LEMMA StartKeeps == ASSUME IInv, NEW t \in Threads, Start(t), UNCHANGED flash PROVE IInv'
<1>1. PICK at \in script.places : run' = [on |-> TRUE, number |-> run.number + 1, at |-> at]
    BY DEF Start
<1>2. Shape /\ run.number \in Nat /\ at \in Places /\ thread' \in [Threads -> Doing] /\ thread' = thread /\ lock' = lock
    BY DEF IInv, Shape, Start, Places
<1>3. run' \in [on : BOOLEAN, number : {run.number + 1}, at : Places]
    BY <1>1, <1>2
<1>4. \A c \in All : client[c].h = 0
    BY DEF IInv, Current, Start
<1> QED BY <1>2, <1>3, <1>4, RunKeeps DEF Start, Free, Shape

-------------------------------------------------------------------------------
(* Every step *)

\* Every step of a call keeps the invariant.
LEMMA CallStepKeeps == ASSUME IInv, NEW t \in Threads, CallStep(t), UNCHANGED flash PROVE IInv'
BY ClosedKeeps, StopLetsGoKeeps, StopEndsKeeps, AcquireKeeps, TryLocksKeeps, LeaveKeeps, HandleKeeps, ResolveKeeps,
   BeginCallKeeps, AnsweredKeeps, ReadBackKeeps, SeededKeeps, AccessSeededKeeps, KeyFnReturnsKeeps, StatedKeeps, KeepKeeps,
   ReadAnsweredKeeps, DecodeKeeps, ReadReturnsKeeps, SliceKeeps DEF CallStep

\* ... so does every call's beginning, of a kind its client takes,
LEMMA BeginKeeps == ASSUME IInv, NEW t \in Threads, Begin(t), UNCHANGED flash PROVE IInv'
<1>1. CASE \E kind \in Functionals, cs \in SUBSET Clients : AskFunctional(t, kind, cs)
  <2>1. PICK kind \in Functionals, cs \in SUBSET Clients : Ask(t, kind, cs)
      BY <1>1 DEF AskFunctional
  <2>2. /\ kind \in Kinds \ {"key"} /\ kind \notin Statements /\ kind \notin {"read", "write"} /\ cs \in SUBSET All
      BY DEF Functionals, Kinds, Statements, All
  <2> QED BY <2>1, <2>2, AskKeeps
<1>2. ASSUME NEW c \in All, NEW kind \in Kinds \ {"key"}, Ask(t, kind, {c}),
             kind \in Statements => c \in Clients, kind \in {"read", "write"} => c \in Nodes
      PROVE  IInv'
    BY <1>2, AskKeeps
<1>3. /\ {"exchange", "seed", "access", "state", "retarget", "read", "write", "send", "recv", "flash"} \subseteq Kinds \ {"key"}
      /\ Statements = {"state", "retarget"}
    BY DEF Kinds, Seeds, Statements
<1>4. ASSUME NEW c \in All,
             \/ AskExchange(t, c) \/ AskSeed(t, c) \/ AskAccess(t, c) \/ AskState(t, c) \/ AskRetarget(t, c)
             \/ AskRead(t, c) \/ AskWrite(t, c) \/ AskSend(t, c) \/ AskRecv(t, c) \/ AskFlash(t, c)
      PROVE  IInv'
    BY <1>2, <1>3, <1>4 DEF AskExchange, AskSeed, AskAccess, AskState, AskRetarget, AskRead, AskWrite, AskSend, AskRecv, AskFlash
<1> QED BY <1>1, <1>4, KeepAliveKeeps DEF Begin

\* ... what a manager does,
LEMMA ManageKeeps == ASSUME IInv, NEW t \in Managers, Manage(t), UNCHANGED flash PROVE IInv'
<1>1. t \in Threads
    BY UdsAssumption
<1> QED BY <1>1, StopBeginsKeeps, StartKeeps, CreateKeeps, CreateNodeKeeps, CloseKeeps DEF Manage

\* ... and so every step.
LEMMA NextKeeps == ASSUME IInv, Next PROVE IInv'
BY CallStepKeeps, FlashKeeps, BeginKeeps, ManageKeeps, CollectKeeps DEF Next, Step

\* It holds before the first client is made.
LEMMA InitKeeps == ASSUME Init PROVE IInv
<1>1. script \in Scripts /\ script.places \subseteq Places /\ MaxBlocks \in Nat /\ Nobody \notin All /\ conn = <<>>
    BY UdsAssumption DEF Init, Places
<1>2. Shape
  <2>1. Idle \in Doing
      BY DEF Idle, Doing, NoAccess, Stations
  <2>2. [h |-> 0, is |-> "unmade", at |-> Nobody, stated |-> 0, in_key_fn |-> FALSE] \in Clientele
      BY DEF Clientele
  <2>3. thread \in [Threads -> Doing] /\ client \in [All -> Clientele]
      BY <2>1, <2>2 DEF Init
  <2>4. run \in [on : BOOLEAN, number : Nat, at : Places]
    <3>1. run \in [on : {TRUE}, number : {1}, at : script.places]
        BY DEF Init
    <3>2. PICK at \in script.places : run = [on |-> TRUE, number |-> 1, at |-> at]
        BY <3>1
    <3> QED BY <1>1, <3>2
  <2>5. conn \in Seq(Connections) /\ orphans \subseteq DOMAIN conn
      BY <1>1 DEF Init
  <2> QED BY <2>3, <2>4, <2>5 DEF Shape, Init
<1>3. \A c \in All : client[c].h = 0 /\ client[c].stated = 0
    BY DEF Init
<1>4. DOMAIN conn = {}
    BY <1>1
<1>5. Reached /\ Current /\ Kept /\ Told
    BY <1>3, <1>4 DEF Reached, Current, Kept, Told
<1>6. Silent
    BY <1>3 DEF Silent, All
<1>7. ASSUME NEW t \in Threads
      PROVE  Keeps(t)
  <2>1. thread[t] = Idle /\ Idle.pc = "idle" /\ Idle.kind = "none" /\ Idle.outer = NoAccess
      BY DEF Init, Idle
  <2> QED BY <2>1 DEF Keeps, Claims, Handles, Unlocks, Keys, Suits, Holding
<1>8. Cancelled
    BY <1>1 DEF Init, Cancelled, NoFlash
<1> QED BY <1>2, <1>5, <1>6, <1>7, <1>8 DEF IInv

\* The invariant above holds for any number of clients, threads, calls, runs and handles.
THEOREM Invariant == Spec => []IInv
<1>1. Init => IInv
    BY InitKeeps
<1>2. IInv /\ [Next]_vars => IInv'
  <2> SUFFICES ASSUME IInv, [Next]_vars PROVE IInv'
      OBVIOUS
  <2>1. CASE Next
      BY <2>1, NextKeeps
  <2>2. CASE UNCHANGED vars
      BY <2>2, FlashOnlyKeeps DEF vars, IInv, Cancelled
  <2> QED BY <2>1, <2>2
<1> QED BY <1>1, <1>2, PTL DEF Spec

\* UdsClient.security_access: a key goes out on the connection its seed came from, and the seed is
\* still the last one given there, whatever the other threads and the key_fn itself called meanwhile.
THEOREM KeysAnswerTheirSeeds == Spec => []KeyAnswersItsSeed
<1>1. IInv => KeyAnswersItsSeed
    BY DEF IInv, Keeps, Keys, Unlocks, KeyAnswersItsSeed
<1> QED BY <1>1, Invariant, PTL

\* UdsClient._open, did_size, _set_timing, keep_alive, retarget: every request goes out on a
\* connection that was told every setting its client was, those of earlier runs included.
THEOREM CallsGoAsStated == Spec => []AsksAsStated
<1>1. IInv => AsksAsStated
    BY DEF IInv, Keeps, Suits, AsksAsStated
<1> QED BY <1>1, Invariant, PTL

\* NodeClient.read, write: the run a value is encoded or an answer decoded by is the run the
\* connection was opened in, and the connection reaches the node where the client does.
THEOREM RunsLayOut == Spec => []LaidOutByItsRun
<1>1. ASSUME IInv
      PROVE  LaidOutByItsRun
  <2> SUFFICES ASSUME NEW t \in Threads,
                      \/ thread[t].kind = "write" /\ thread[t].pc = "inside"
                      \/ thread[t].kind = "read" /\ thread[t].pc = "decoded",
                      NEW h \in thread[t].hs
               PROVE  conn[h].run = thread[t].run /\ conn[h].at = client[conn[h].client].at
      BY DEF LaidOutByItsRun
  <2>1. conn[h].run = thread[t].run
      BY <1>1 DEF IInv, Keeps, Suits
  <2>2. h \in DOMAIN conn /\ conn[h].client \in Nodes
      BY <1>1 DEF IInv, Keeps, Handles, Claims, Holding
  <2> QED BY <1>1, <2>1, <2>2 DEF IInv, Reached
<1> QED BY <1>1, Invariant, PTL

\* UdsClient._let_go, __del__, Channel.close: an open connection is its client's, in a run that is
\* on, or waits to be closed with the orphans.
THEOREM ConnectionsKept == Spec => []NoConnectionLost
<1>1. ASSUME IInv
      PROVE  NoConnectionLost
  <2> SUFFICES ASSUME NEW h \in DOMAIN conn, Open(h), h \notin orphans
               PROVE  run.on /\ \E c \in All : client[c].is = "made" /\ client[c].h = h
      BY DEF NoConnectionLost
  <2>1. client[conn[h].client].h = h /\ conn[h].client \in All /\ h # 0
      BY <1>1, ConnTypes DEF IInv, Kept
  <2> QED BY <1>1, <2>1 DEF IInv, Current
<1> QED BY <1>1, Invariant, PTL

\* flash.program: a flash whose progress raised is cancelled, and is not checked.
THEOREM RaisedIsNotChecked == Spec => []RaisedNeverChecks
<1>1. IInv => RaisedNeverChecks
    BY DEF IInv, Cancelled, RaisedNeverChecks
<1> QED BY <1>1, Invariant, PTL

-------------------------------------------------------------------------------
(* An interrupted call leaves nothing running, for any number of interrupts anywhere, but for    *)
(* one that strikes in the main thread's except clause, outside the inner try: `cut` says where. *)
(*                                                                                             *)
(* `began` says exactly that the worker got past its first step, `done` that it ended; the     *)
(* main thread is past its mark only with `abandoned` set; and it leaves only on `done`, or    *)
(* with no worker begun, which then meets `abandoned`, or by such an interrupt.                *)

Events ==
    /\ began <=> worker \notin {"none", "ready"}
    /\ done <=> worker = "dead"
Marked ==
    /\ main \in {"start", "wait", "mark", "ask", "poll", "out"}
    /\ main \in {"ask", "poll"} => abandoned
Left ==
    /\ cut # "none" => main = "out"
    /\ main = "out" /\ cut # "mark" => done \/ abandoned
    /\ OnInterrupt /\ main = "out" /\ cut = "none" => worker \notin {"going", "calling"}

ThreadInv == Events /\ Marked /\ Left

\* The invariant holds at the start.
LEMMA ThreadInitInv == CallInit => ThreadInv
BY DEF CallInit, ThreadInv, Events, Marked, Left

\* No step of either thread, and no interrupt, breaks it.
LEMMA ThreadNextInv == ASSUME ThreadInv, [CallNext]_callVars PROVE ThreadInv'
<1> USE DEF ThreadInv, Events, Marked, Left
<1>1. CASE Workers
    BY <1>1 DEF Workers, WorkerBegins, WorkerDecides, WorkerCalls, CallEnds, WorkerEnds
<1>2. CASE Started \/ WaitAnswered \/ Marks \/ Polls
    BY <1>2 DEF Started, WaitAnswered, Marks, Polls
<1>3. CASE Asks
    BY <1>3 DEF Asks, GoesOn
<1>4. CASE Spawns
    BY <1>4 DEF Spawns
<1>5. CASE Interrupt
  <2>1. main # "out" /\ cut = "none"
      BY <1>5 DEF Interrupt
  <2>2. CASE main = "poll"
    <3>1. main' = "ask"
        BY <1>5, <2>2 DEF Interrupt, Landing
    <3> QED BY <1>5, <2>2, <3>1 DEF Interrupt
  <2>3. CASE main \in {"start", "wait"}
    <3>1. main' = "mark"
        BY <1>5, <2>3 DEF Interrupt, Landing
    <3> QED BY <1>5, <2>3, <3>1 DEF Interrupt
  <2>4. CASE main \in {"mark", "ask"}
    <3>1. main' = "out" /\ cut' = main /\ cut' # "none"
        BY <1>5, <2>1, <2>4 DEF Interrupt, Landing
    <3>2. UNCHANGED <<worker, began, abandoned, done>>
        BY <1>5 DEF Interrupt
    <3>3. cut' # "mark" => abandoned'
        BY <2>1, <2>4, <3>1, <3>2
    <3> QED BY <3>1, <3>2, <3>3
  <2> QED BY <2>1, <2>2, <2>3, <2>4
<1>6. CASE GivesUp
    BY <1>6 DEF GivesUp
<1>7. CASE UNCHANGED callVars
    BY <1>7 DEF callVars
<1>8. CASE Over
    BY <1>8, <1>7 DEF Over
<1> QED BY <1>1, <1>2, <1>3, <1>4, <1>5, <1>6, <1>7, <1>8 DEF CallNext, Mains

\* _on_thread with an on_interrupt: when the caller has the thread back, the call has returned,
\* or has not begun and never will be made, whatever interrupts struck the wait and the polling;
\* the one exception, an interrupt in the except clause, is the property's own.
THEOREM InterruptedCallIsOver == CallSpec => []NothingLeftRunning
<1>1. CallInit => ThreadInv
    BY ThreadInitInv
<1>2. ThreadInv /\ [CallNext]_callVars => ThreadInv'
    BY ThreadNextInv
<1>3. ThreadInv => NothingLeftRunning
    BY DEF ThreadInv, Events, Left, NothingLeftRunning
<1> QED BY <1>1, <1>2, <1>3, PTL DEF CallSpec

\* With or without an on_interrupt: a call not begun when its caller leaves is never made.
THEOREM AbandonedCallIsNotMade == CallSpec => []NeverMadeLate
<1>1. CallInit => ThreadInv
    BY ThreadInitInv
<1>2. ThreadInv /\ [CallNext]_callVars => ThreadInv'
    BY ThreadNextInv
<1>3. ThreadInv => NeverMadeLate
    BY DEF ThreadInv, Events, Left, NeverMadeLate
<1> QED BY <1>1, <1>2, <1>3, PTL DEF CallSpec
(* The event loop *)

Taken == [n : Nat, handlers : Seq(Handlers), left : SUBSET Nat]
Counted == {"run", "frame", "taken", "move", "raise"}

LoopShape ==
    /\ now \in Nat
    /\ on_msg \in Seq(Handlers) /\ on_health \in Seq(Monitors) /\ timers \in Seq(Clocks)
    /\ due \in [Clocks -> Nat] /\ active \in [Clocks -> BOOLEAN]
    /\ born \in [Clocks -> Nat] /\ ended \in [Clocks -> Nat]
    /\ pending \in Seq(Taken) /\ stack \in Seq(Runs)
    /\ seen \in [Handlers -> Seq(Nat)] /\ count \in [Counted -> Nat]

\* Where a run() is in its pass, a callback's time included.
At(a) == IF a.pc = "call" THEN a.call.k ELSE a.pc

\* A run() goes through the timers and the monitors there were when it began to.
Sound(a, clocks, monitors) ==
    /\ a.i # 0
    /\ At(a) = "timers" => a.n <= clocks
    /\ At(a) = "health" => a.n <= monitors
    /\ a.pc = "call" => a.call.k # "none" /\ (a.call.k = "timers" => a.call.x \in Clocks)

\* Only the innermost run() is anywhere but in a callback.
Nested ==
    \A i \in DOMAIN stack :
        Sound(stack[i], Len(timers), Len(on_health)) /\ (i < Len(stack) => stack[i].pc = "call")

\* At most one frame is taken up, none in a wait, and a run() in progress has it in hand.
Dispatches(a, n) == At(a) \in {"pending", "deliver"} /\ (a.pc = "call" => a.call.n = n)
InHand ==
    /\ Len(pending) <= 1
    /\ stack # <<>> /\ Top.pc = "wait" => pending = <<>>
    /\ pending # <<>> => \E i \in DOMAIN stack : Dispatches(stack[i], pending[1].n)

\* What a frame owes is owed by the one in hand, to the handlers it has still to call.
Owes ==
    /\ pending = <<>> => owed = {}
    /\ pending # <<>> =>
          /\ pending[1].left \subseteq DOMAIN pending[1].handlers
          /\ owed \subseteq {<<pending[1].n, pending[1].handlers[k]>> : k \in pending[1].left}

\* A timer's next point is on its grid, and behind the last beginning and end of its callback.
OnGrid(d, b, p) == \E k \in Nat : d = b + k * p
Gridded == \A t \in Range(timers) : OnGrid(due[t], born[t], Period[t]) /\ (active[t] \/ due[t] > ended[t])

\* Handlers are registered once; what one was given is in order, and behind the frame that has it still to call.
Once(s) == \A i, j \in DOMAIN s : s[i] = s[j] => i = j
InOrder ==
    /\ Once(on_msg)
    /\ \A h \in Handlers : \A i \in DOMAIN seen[h] :
          seen[h][i] <= count.taken /\ (i > 1 => seen[h][i - 1] < seen[h][i])
    /\ pending # <<>> =>
          /\ Once(pending[1].handlers) /\ pending[1].n <= count.taken
          /\ \A k \in pending[1].left : \A i \in DOMAIN seen[pending[1].handlers[k]] :
                seen[pending[1].handlers[k]][i] < pending[1].n

LoopInv == LoopShape /\ Nested /\ InHand /\ Owes /\ Gridded /\ InOrder

-------------------------------------------------------------------------------
(* Numbers *)

\* A set of natural numbers that has an element has a least one.
LEMMA LeastIs == ASSUME NEW S, S \subseteq Nat, S # {} PROVE Min(S) \in S /\ \A x \in S : Min(S) <= x
<1>1. PICK x \in S : \A y \in S : ~(<<y, x>> \in OpToRel(<, Nat))
    BY NatLessThanWellFounded, WFMin
<1>2. \A y \in S : <<y, x>> \in Nat \X Nat /\ <<y, x>>[1] = y /\ <<y, x>>[2] = x
    OBVIOUS
<1>3. \A y \in S : ~(y < x)
    BY <1>1, <1>2, Zenon DEF OpToRel
<1>4. \A y \in S : x <= y
    BY <1>3
<1> QED BY <1>1, <1>4 DEF Min

\* The greater of two numbers is one of them, and not below either.
LEMMA GreaterIs ==
    ASSUME NEW m \in Nat, NEW n \in Nat
    PROVE  Max({m, n}) \in {m, n} /\ Max({m, n}) >= m /\ Max({m, n}) >= n
<1>1. \E x \in {m, n} : \A y \in {m, n} : x >= y
    OBVIOUS
<1> QED BY <1>1 DEF Max

\* A multiple of a period leaves no rest.
LEMMA MultipleHasNoRest == ASSUME NEW p \in Nat \ {0}, NEW k \in Nat PROVE (k * p) % p = 0
<1>1. p \in Nat /\ p > 0 /\ k * p \in Nat
    OBVIOUS
<1>2. ASSUME NEW x \in Nat
      PROVE  x % p \in 0 .. (p - 1) /\ x = p * (x \div p) + (x % p) /\ x \div p \in Nat
    BY <1>1
<1>3. PICK q \in Nat, r \in 0 .. (p - 1) : k * p = p * q + r /\ r = (k * p) % p
    BY <1>1, <1>2
<1>4. r = (k - q) * p
    BY <1>1, <1>3
<1>5. k - q >= 1 => (k - q) * p >= p
    BY <1>1, <1>3, Z3
<1>6. k - q <= -1 => (k - q) * p <= -p
    BY <1>1, <1>3, Z3
<1>7. k - q = 0
    BY <1>1, <1>3, <1>4, <1>5, <1>6
<1> QED BY <1>1, <1>3, <1>4, <1>7

\* The first point of a grid after a time is on the grid and after that time.
LEMMA PastGridIs ==
    ASSUME NEW d \in Nat, NEW b \in Nat, NEW p \in Nat \ {0}, NEW at \in Nat, OnGrid(d, b, p)
    PROVE  PastGrid(d, p, at) \in Nat /\ PastGrid(d, p, at) > at /\ OnGrid(PastGrid(d, p, at), b, p)
<1>1. CASE d > at
    BY <1>1 DEF PastGrid
<1>2. CASE ~ (d > at)
  <2> DEFINE a == at - d  q == a \div p  r == a % p
  <2>1. a \in Nat /\ p \in Nat /\ p > 0
      BY <1>2
  <2>2. q \in Nat /\ r \in 0 .. (p - 1) /\ a = p * q + r
      BY <2>1
  <2>3. PastGrid(d, p, at) = d + (q + 1) * p
      BY <1>2 DEF PastGrid
  <2>4. PICK k \in Nat : d = b + k * p
      BY DEF OnGrid
  <2>5. at = d + a
      BY <1>2
  <2> HIDE DEF a, q, r
  <2>6. (q + 1) * p = p * q + p
      BY <2>1, <2>2
  <2>7. (k + (q + 1)) * p = k * p + (q + 1) * p
      BY <2>1, <2>2, <2>4
  <2>8. p * q \in Nat /\ (q + 1) * p \in Nat /\ k * p \in Nat
      BY <2>1, <2>2
  <2>9. PastGrid(d, p, at) = b + (k + (q + 1)) * p /\ k + (q + 1) \in Nat
      BY <2>2, <2>3, <2>4, <2>7, <2>8
  <2>10. PastGrid(d, p, at) > at
      BY <2>1, <2>2, <2>3, <2>5, <2>6, <2>8
  <2>11. PastGrid(d, p, at) \in Nat
      BY <2>3, <2>8
  <2> QED BY <2>9, <2>10, <2>11 DEF OnGrid
<1> QED BY <1>1, <1>2

-------------------------------------------------------------------------------
(* The run() calls in progress *)

\* The innermost run().
LEMMA TopIs ==
    ASSUME LoopShape, stack # <<>>
    PROVE  /\ Len(stack) \in Nat \ {0} /\ DOMAIN stack = 1 .. Len(stack) /\ Len(stack) \in DOMAIN stack
           /\ Top \in Runs
<1>1. stack \in Seq(Runs)
    BY DEF LoopShape
<1>2. Len(stack) \in Nat \ {0} /\ DOMAIN stack = 1 .. Len(stack)
    BY <1>1
<1> QED BY <1>1, <1>2 DEF Top

\* What a run() is, field by field.
LEMMA RunIs ==
    ASSUME NEW a \in Runs
    PROVE  /\ a.pc \in {"timers", "health", "pending", "wait", "deliver", "call"}
           /\ a.i \in Nat /\ a.n \in Nat /\ a.deadline \in Nat /\ a.at \in Nat /\ a.until \in Nat
           /\ a.next_health \in Nat
           /\ a.call.k \in {"none", "timers", "health", "pending", "deliver"} /\ a.call.n \in Nat
BY DEF Runs

\* The innermost run() has ended: the others are as they were.
LEMMA PopsIs ==
    ASSUME LoopShape, stack # <<>>, stack' = Front(stack)
    PROVE  /\ stack' \in Seq(Runs) /\ Len(stack') = Len(stack) - 1 /\ DOMAIN stack' = 1 .. Len(stack) - 1
           /\ \A i \in DOMAIN stack' : i \in DOMAIN stack /\ i < Len(stack) /\ stack'[i] = stack[i]
<1>1. stack \in Seq(Runs) /\ Len(stack) \in Nat \ {0} /\ DOMAIN stack = 1 .. Len(stack)
    BY TopIs DEF LoopShape
<1>2. stack' = SubSeq(stack, 1, Len(stack) - 1)
    BY DEF Front
<1>3. Len(stack) - 1 \in Nat /\ \A i \in 1 .. Len(stack) - 1 : i \in 1 .. Len(stack) /\ i < Len(stack)
    BY <1>1
<1> QED BY <1>1, <1>2, <1>3

\* The innermost run() goes on: the others are as they were.
LEMMA ProceedsIs ==
    ASSUME LoopShape, stack # <<>>, NEW a \in Runs, stack' = With(a)
    PROVE  /\ stack' \in Seq(Runs) /\ Len(stack') = Len(stack) /\ DOMAIN stack' = DOMAIN stack
           /\ stack'[Len(stack)] = a /\ Top' = a
           /\ \A i \in DOMAIN stack : i # Len(stack) => stack'[i] = stack[i]
<1>1. stack \in Seq(Runs) /\ Len(stack) \in DOMAIN stack /\ stack' = [stack EXCEPT ![Len(stack)] = a]
    BY TopIs DEF LoopShape, With
<1>2. stack' \in Seq(Runs) /\ Len(stack') = Len(stack) /\ DOMAIN stack' = DOMAIN stack /\ stack'[Len(stack)] = a
    BY <1>1
<1> QED BY <1>1, <1>2 DEF Top

\* What there is to keep when the innermost run() ends.
LEMMA PopKeeps ==
    ASSUME LoopInv, stack # <<>>, stack' = Front(stack), timers' = timers, on_health' = on_health,
           \/ pending' = <<>>
           \/ pending' = pending /\ (pending # <<>> => ~Dispatches(Top, pending[1].n))
    PROVE  stack' \in Seq(Runs) /\ Nested' /\ InHand'
<1>1. LoopShape /\ Nested /\ InHand
    BY DEF LoopInv
<1>2. /\ stack' \in Seq(Runs) /\ Len(stack') = Len(stack) - 1 /\ DOMAIN stack' = 1 .. Len(stack) - 1
      /\ \A i \in DOMAIN stack' : i \in DOMAIN stack /\ i < Len(stack) /\ stack'[i] = stack[i]
    BY <1>1, PopsIs
<1>3. /\ Len(stack) \in Nat \ {0} /\ DOMAIN stack = 1 .. Len(stack)
    BY <1>1, TopIs
<1>4. Nested'
    BY <1>1, <1>2, <1>3 DEF Nested
<1>5. stack' # <<>> => Top'.pc = "call"
  <2>1. stack' # <<>> => Len(stack') \in DOMAIN stack'
      BY <1>2, <1>3
  <2> QED BY <2>1, <1>1, <1>2 DEF Top, Nested
<1>6. Len(pending') <= 1
    BY <1>1 DEF InHand
<1>7. ASSUME pending' # <<>>
      PROVE  \E i \in DOMAIN stack' : Dispatches(stack'[i], pending'[1].n)
  <2>1. PICK i \in DOMAIN stack : Dispatches(stack[i], pending[1].n)
      BY <1>1, <1>7 DEF InHand
  <2>2. i # Len(stack)
      BY <1>7, <2>1 DEF Top
  <2>3. i \in DOMAIN stack'
      BY <1>2, <1>3, <2>2
  <2> QED BY <1>2, <1>7, <2>1, <2>3
<1> QED BY <1>2, <1>4, <1>5, <1>6, <1>7 DEF InHand

\* ... and when it goes on.
LEMMA ProceedsKeeps ==
    ASSUME LoopInv, stack # <<>>, NEW a \in Runs, stack' = With(a), timers' = timers, on_health' = on_health,
           Sound(a, Len(timers), Len(on_health)), Len(pending') <= 1,
           pending' # <<>> =>
              /\ a.pc # "wait"
              /\ \/ Dispatches(a, pending'[1].n)
                 \/ pending # <<>> /\ pending'[1].n = pending[1].n /\ ~Dispatches(Top, pending[1].n)
    PROVE  stack' \in Seq(Runs) /\ Nested' /\ InHand'
<1>1. LoopShape /\ Nested /\ InHand
    BY DEF LoopInv
<1>2. /\ stack' \in Seq(Runs) /\ Len(stack') = Len(stack) /\ DOMAIN stack' = DOMAIN stack
      /\ stack'[Len(stack)] = a /\ Top' = a
      /\ \A i \in DOMAIN stack : i # Len(stack) => stack'[i] = stack[i]
    BY <1>1, ProceedsIs
<1>3. Len(stack) \in Nat \ {0} /\ DOMAIN stack = 1 .. Len(stack) /\ Len(stack) \in DOMAIN stack
    BY <1>1, TopIs
<1>4. Nested'
    BY <1>1, <1>2, <1>3 DEF Nested
<1>5. ASSUME pending' # <<>>
      PROVE  \E i \in DOMAIN stack' : Dispatches(stack'[i], pending'[1].n)
  <2>1. CASE Dispatches(a, pending'[1].n)
      BY <2>1, <1>2, <1>3
  <2>2. CASE pending # <<>> /\ pending'[1].n = pending[1].n /\ ~Dispatches(Top, pending[1].n)
    <3>1. PICK i \in DOMAIN stack : Dispatches(stack[i], pending[1].n)
        BY <1>1, <2>2 DEF InHand
    <3>2. i # Len(stack)
        BY <2>2, <3>1 DEF Top
    <3> QED BY <1>2, <2>2, <3>1, <3>2
  <2> QED BY <1>5, <2>1, <2>2
<1> QED BY <1>2, <1>4, <1>5 DEF InHand

\* ... and when nothing becomes of it, but something is registered.
LEMMA RegistryKeeps ==
    ASSUME LoopInv, stack' = stack, pending' = pending, timers' \in Seq(Clocks), on_health' \in Seq(Monitors),
           Len(timers) <= Len(timers'), Len(on_health) <= Len(on_health')
    PROVE  Nested' /\ InHand'
<1>1. LoopShape /\ Nested /\ InHand
    BY DEF LoopInv
<1>2. stack \in Seq(Runs) /\ timers \in Seq(Clocks) /\ on_health \in Seq(Monitors)
    BY <1>1 DEF LoopShape
<1>3. /\ Len(timers) \in Nat /\ Len(on_health) \in Nat /\ Len(timers') \in Nat /\ Len(on_health') \in Nat
      /\ \A i \in DOMAIN stack : stack[i] \in Runs
    BY <1>2
<1>4. \A i \in DOMAIN stack : stack[i].n \in Nat
    BY <1>3, RunIs
<1>5. Nested'
    BY <1>1, <1>3, <1>4 DEF Nested, Sound
<1>6. InHand'
    BY <1>1 DEF InHand, Top
<1> QED BY <1>5, <1>6

-------------------------------------------------------------------------------
(* Steps that touch neither frames nor timers *)

\* The invariant speaks of the frames, the timers and the run() calls in progress.
LEMMA PassesKeeps ==
    ASSUME LoopInv, UNCHANGED <<registry, due, active, born, ended, pending, seen, owed>>,
           now' \in Nat, count' \in [Counted -> Nat], count'.taken = count.taken,
           stack' \in Seq(Runs), Nested', InHand'
    PROVE  LoopInv'
<1>1. LoopShape'
    BY DEF LoopInv, LoopShape, registry
<1>2. Owes'
    BY DEF LoopInv, Owes
<1>3. Gridded'
    BY DEF LoopInv, Gridded, registry
<1>4. InOrder'
    BY DEF LoopInv, InOrder, registry
<1> QED BY <1>1, <1>2, <1>3, <1>4 DEF LoopInv

\* Only what is counted as taken is in the invariant.
LEMMA BumpIs ==
    ASSUME LoopShape, NEW c \in Counted \ {"taken"}, Bump(c)
    PROVE  count' \in [Counted -> Nat] /\ count'.taken = count.taken
<1>1. count \in [Counted -> Nat] /\ "taken" \in Counted
    BY DEF LoopShape, Counted
<1>2. count' = [count EXCEPT ![c] = count[c] + 1] /\ count[c] + 1 \in Nat
    BY <1>1 DEF Bump
<1> QED BY <1>1, <1>2

\* A pass begins with the timers there are.
LEMMA PassIs ==
    ASSUME LoopShape, NEW a \in Runs
    PROVE  Pass(a) \in Runs /\ Pass(a).pc = "timers" /\ Pass(a).i = 1 /\ Pass(a).n = Len(timers)
<1>1. Len(timers) \in Nat /\ now \in Nat
    BY DEF LoopShape
<1>2. NoCall \in [k : {"none", "timers", "health", "pending", "deliver"},
                  x : Handlers \cup Monitors \cup Clocks \cup {"none"}, n : Nat]
    BY DEF NoCall
<1>3. Pass(a) = [a EXCEPT !.pc = "timers", !.at = now, !.i = 1, !.n = Len(timers), !.call = NoCall]
    BY DEF Pass
<1> HIDE DEF NoCall
<1>4. Pass(a) = [pc |-> "timers", deadline |-> a.deadline, next_health |-> a.next_health, at |-> now, i |-> 1,
                 n |-> Len(timers), until |-> a.until, call |-> NoCall]
    BY <1>3 DEF Runs
<1>5. a.deadline \in Nat /\ a.next_health \in Nat /\ a.until \in Nat
    BY RunIs
<1> QED BY <1>1, <1>2, <1>4, <1>5 DEF Runs

\* A run() begins with a pass, on top of a callback or of the script.
LEMMA RunBeginsKeeps == ASSUME LoopInv, NEW d \in Durations, Run(d) PROVE LoopInv'
<1>1. LoopShape /\ Nested /\ InHand /\ d \in Nat
    BY LoopAssumption DEF LoopInv, LoopAssumption
<1> DEFINE new == [pc |-> "timers", deadline |-> now + d, next_health |-> now, at |-> now, i |-> 1, n |-> 0,
                   until |-> now, call |-> NoCall]
           a == Pass(new)
<1>2. new \in Runs
    BY <1>1 DEF Runs, NoCall, LoopShape
<1>3. stack' = Append(stack, a)
    BY DEF Run
<1> HIDE DEF new
<1>4. a \in Runs /\ a.pc = "timers" /\ a.i = 1 /\ a.n = Len(timers)
    BY <1>1, <1>2, PassIs
<1> HIDE DEF a
<1>5. stack \in Seq(Runs) /\ Len(stack) \in Nat /\ DOMAIN stack = 1 .. Len(stack)
    BY <1>1 DEF LoopShape
<1>6. /\ stack' \in Seq(Runs) /\ Len(stack') = Len(stack) + 1 /\ DOMAIN stack' = 1 .. Len(stack) + 1
      /\ stack'[Len(stack) + 1] = a /\ \A i \in DOMAIN stack : stack'[i] = stack[i]
    BY <1>3, <1>4, <1>5
<1>7. /\ timers' = timers /\ on_health' = on_health /\ pending' = pending
    BY DEF Run, registry
<1>8. \A i \in DOMAIN stack : stack[i].pc = "call"
  <2>1. stack # <<>> => Top.pc = "call"
      BY DEF Run, Scripted, InCallback
  <2>2. ASSUME NEW i \in DOMAIN stack
        PROVE  stack[i].pc = "call"
    <3>1. CASE i = Len(stack)
        BY <2>1, <2>2, <3>1, <1>5 DEF Top
    <3>2. CASE i # Len(stack)
        BY <1>1, <1>5, <2>2, <3>2 DEF Nested
    <3> QED BY <3>1, <3>2
  <2> QED BY <2>2
<1>9. Sound(a, Len(timers), Len(on_health))
  <2>1. Len(timers) \in Nat
      BY <1>1 DEF LoopShape
  <2> QED BY <1>4, <2>1 DEF Sound, At
<1>10. Nested'
  <2>1. ASSUME NEW i \in 1 .. Len(stack) + 1
        PROVE  /\ Sound(stack'[i], Len(timers), Len(on_health))
               /\ i < Len(stack) + 1 => stack'[i].pc = "call"
    <3>1. CASE i = Len(stack) + 1
        BY <1>5, <1>6, <1>9, <3>1
    <3>2. CASE i # Len(stack) + 1
      <4>1. i \in DOMAIN stack
          BY <1>5, <2>1, <3>2
      <4> QED BY <4>1, <1>1, <1>6, <1>8 DEF Nested
    <3> QED BY <3>1, <3>2
  <2> QED BY <1>6, <1>7, <2>1 DEF Nested
<1>11. InHand'
  <2>1. Top' = a
      BY <1>6 DEF Top
  <2>2. pending' # <<>> => \E i \in DOMAIN stack' : Dispatches(stack'[i], pending'[1].n)
    <3>1. ASSUME pending # <<>>
          PROVE  \E i \in DOMAIN stack' : Dispatches(stack'[i], pending[1].n)
      <4>1. PICK i \in DOMAIN stack : Dispatches(stack[i], pending[1].n)
          BY <1>1, <3>1 DEF InHand
      <4>2. i \in DOMAIN stack'
          BY <1>5, <1>6
      <4> QED BY <1>6, <4>1, <4>2
    <3> QED BY <1>7, <3>1
  <2> QED BY <1>1, <1>4, <1>7, <2>1, <2>2 DEF InHand
<1>12. count' \in [Counted -> Nat] /\ count'.taken = count.taken
    BY <1>1, BumpIs DEF Run, Counted
<1> QED BY <1>1, <1>6, <1>7, <1>10, <1>11, <1>12, PassesKeeps DEF Run, history, LoopShape

\* Time, the wires, the controllers, an exception on its way: nothing of it is in the invariant.
LEMMA OutsideKeeps ==
    ASSUME LoopInv, UNCHANGED <<registry, due, active, born, ended, pending, stack, seen, owed>>,
           now' \in Nat, count' \in [Counted -> Nat], count'.taken = count.taken
    PROVE  LoopInv'
<1>1. Nested' /\ InHand'
    BY DEF LoopInv, Nested, InHand, Top, registry
<1>2. stack' \in Seq(Runs)
    BY DEF LoopInv, LoopShape
<1> QED BY <1>1, <1>2, PassesKeeps

\* Time passes: nothing else changes.
LEMMA TickKeeps == ASSUME LoopInv, Tick PROVE LoopInv'
<1>1. now' \in Nat /\ count' = count /\ count \in [Counted -> Nat]
    BY DEF LoopInv, LoopShape, Tick
<1> QED BY <1>1, OutsideKeeps DEF Tick, loop, registry, history

\* Frames arrive, controllers change, an exception is raised or caught: none of it is in the invariant.
LEMMA ExternalKeeps ==
    ASSUME LoopInv,
           \/ \E c \in Channels : (\E id \in Ids : Arrives(c, id)) \/ (\E s \in States : LadderMoves(c, s))
           \/ CallbackRaises \/ CallbackCatches
    PROVE  LoopInv'
<1>1. LoopShape /\ {"frame", "move", "raise"} \subseteq Counted \ {"taken"}
    BY DEF LoopInv, Counted
<1>2. count' \in [Counted -> Nat] /\ count'.taken = count.taken
  <2>1. Bump("frame") \/ Bump("move") \/ Bump("raise") \/ count' = count
      BY DEF Arrives, LadderMoves, CallbackRaises, CallbackCatches
  <2> QED BY <1>1, <2>1, BumpIs DEF LoopShape
<1>3. now' = now /\ UNCHANGED <<registry, due, active, born, ended, pending, stack, seen, owed>>
    BY DEF Arrives, LadderMoves, CallbackRaises, CallbackCatches, loop, registry, history
<1> QED BY <1>1, <1>2, <1>3, OutsideKeeps DEF LoopShape

-------------------------------------------------------------------------------
(* Timers and health *)

\* The innermost run() is sound.
LEMMA TopSound ==
    ASSUME LoopInv, stack # <<>>
    PROVE  /\ LoopShape /\ Nested /\ InHand /\ Top \in Runs /\ Sound(Top, Len(timers), Len(on_health))
           /\ Len(timers) \in Nat /\ DOMAIN timers = 1 .. Len(timers) /\ \A i \in DOMAIN timers : timers[i] \in Clocks
           /\ Len(on_health) \in Nat /\ DOMAIN on_health = 1 .. Len(on_health)
           /\ \A i \in DOMAIN on_health : on_health[i] \in Monitors
<1>1. LoopShape /\ Nested /\ InHand
    BY DEF LoopInv
<1>2. Len(stack) \in DOMAIN stack /\ Top \in Runs
    BY <1>1, TopIs
<1>3. Sound(Top, Len(timers), Len(on_health))
    BY <1>1, <1>2 DEF Nested, Top
<1>4. timers \in Seq(Clocks) /\ on_health \in Seq(Monitors)
    BY <1>1 DEF LoopShape
<1> QED BY <1>1, <1>2, <1>3, <1>4

Stages == {"timers", "health", "pending", "wait", "deliver", "call"}
Callbacks == [k : {"none", "timers", "health", "pending", "deliver"},
              x : Handlers \cup Monitors \cup Clocks \cup {"none"}, n : Nat]

\* A run(), put together.
Made(pc, d, h, s, i, n, u, call) ==
    [pc |-> pc, deadline |-> d, next_health |-> h, at |-> s, i |-> i, n |-> n, until |-> u, call |-> call]

\* What is put together of the right parts is a run(),
LEMMA MadeIs ==
    ASSUME NEW pc \in Stages, NEW d \in Nat, NEW h \in Nat,
           NEW s \in Nat, NEW i \in Nat, NEW n \in Nat, NEW u \in Nat, NEW call \in Callbacks
    PROVE  Made(pc, d, h, s, i, n, u, call) \in Runs
BY DEF Made, Runs, Callbacks, Stages

\* ... and a run() is put together of its parts.
LEMMA RunHas ==
    ASSUME NEW a \in Runs
    PROVE  a = Made(a.pc, a.deadline, a.next_health, a.at, a.i, a.n, a.until, a.call) /\ a.call \in Callbacks
BY DEF Made, Runs, Callbacks

\* A run() of which some fields are set.
Called(a, r, c) == [a EXCEPT !.pc = r, !.call = c]
Advanced(a, r, j, c) == [a EXCEPT !.pc = r, !.i = j, !.call = c]
Polled(a, r, j, m, x) == [a EXCEPT !.pc = r, !.i = j, !.n = m, !.next_health = x]
Paused(a, r, x, y) == [a EXCEPT !.pc = r, !.at = x, !.until = y]
Moved(a, r) == [a EXCEPT !.pc = r]


\* What a callback is called on or comes back to is a run() of the same pass;
LEMMA CalledIs ==
    ASSUME NEW a \in Runs, NEW r \in Stages, NEW c \in Callbacks, NEW b, b = Called(a, r, c)
    PROVE  b \in Runs /\ b.pc = r /\ b.i = a.i /\ b.n = a.n /\ b.call = c
<1>1. ASSUME NEW pc, NEW d, NEW h, NEW s, NEW i, NEW n, NEW u, NEW call, NEW e, e = Made(pc, d, h, s, i, n, u, call)
      PROVE  Called(e, r, c) = Made(r, d, h, s, i, n, u, c)
  <2> DEFINE g == [e EXCEPT !.pc = r, !.call = c]
  <2>1. g = [e EXCEPT !.pc = r, !.call = c]
      OBVIOUS
  <2>2. Called(e, r, c) = g
      BY DEF Called
  <2> HIDE DEF g
  <2>3. g = Made(r, d, h, s, i, n, u, c)
      BY <1>1, <2>1 DEF Made
  <2> QED BY <2>2, <2>3
<1>2. Called(a, r, c) = Made(r, a.deadline, a.next_health, a.at, a.i, a.n, a.until, c)
    BY <1>1, RunHas
<1>3. Made(r, a.deadline, a.next_health, a.at, a.i, a.n, a.until, c) \in Runs
    BY RunIs, RunHas, MadeIs DEF Stages
<1> QED BY <1>2, <1>3 DEF Made

\* ... nor does what is called next,
LEMMA AdvancedIs ==
    ASSUME NEW a \in Runs, NEW r \in Stages, NEW j \in Nat, NEW c \in Callbacks, NEW b, b = Advanced(a, r, j, c)
    PROVE  b \in Runs /\ b.pc = r /\ b.i = j /\ b.n = a.n /\ b.call = c
<1>1. ASSUME NEW pc, NEW d, NEW h, NEW s, NEW i, NEW n, NEW u, NEW call, NEW e, e = Made(pc, d, h, s, i, n, u, call)
      PROVE  Advanced(e, r, j, c) = Made(r, d, h, s, j, n, u, c)
  <2> DEFINE g == [e EXCEPT !.pc = r, !.i = j, !.call = c]
  <2>1. g = [e EXCEPT !.pc = r, !.i = j, !.call = c]
      OBVIOUS
  <2>2. Advanced(e, r, j, c) = g
      BY DEF Advanced
  <2> HIDE DEF g
  <2>3. g = Made(r, d, h, s, j, n, u, c)
      BY <1>1, <2>1 DEF Made
  <2> QED BY <2>2, <2>3
<1>2. Advanced(a, r, j, c) = Made(r, a.deadline, a.next_health, a.at, j, a.n, a.until, c)
    BY <1>1, RunHas
<1>3. Made(r, a.deadline, a.next_health, a.at, j, a.n, a.until, c) \in Runs
    BY RunIs, RunHas, MadeIs DEF Stages
<1> QED BY <1>2, <1>3 DEF Made

\* ... and the poll of the monitors begins with the first,
LEMMA PolledIs ==
    ASSUME NEW a \in Runs, NEW r \in Stages, NEW j, NEW m, NEW x, j \in Nat, m \in Nat, x \in Nat
    PROVE  LET b == Polled(a, r, j, m, x) IN b \in Runs /\ b.pc = r /\ b.i = j /\ b.n = m /\ b.call = a.call
<1>1. ASSUME NEW pc, NEW d, NEW h, NEW s, NEW i, NEW n, NEW u, NEW call, NEW e, e = Made(pc, d, h, s, i, n, u, call)
      PROVE  Polled(e, r, j, m, x) = Made(r, d, x, s, j, m, u, call)
  <2> DEFINE g == [e EXCEPT !.pc = r, !.i = j, !.n = m, !.next_health = x]
  <2>1. g = [e EXCEPT !.pc = r, !.i = j, !.n = m, !.next_health = x]
      OBVIOUS
  <2>2. Polled(e, r, j, m, x) = g
      BY DEF Polled
  <2> HIDE DEF g
  <2>3. g = Made(r, d, x, s, j, m, u, call)
      BY <1>1, <2>1 DEF Made
  <2> QED BY <2>2, <2>3
<1>2. Polled(a, r, j, m, x) = Made(r, a.deadline, x, a.at, j, m, a.until, a.call)
    BY <1>1, RunHas
<1>3. Made(r, a.deadline, x, a.at, j, m, a.until, a.call) \in Runs
    BY RunIs, RunHas, MadeIs DEF Stages
<1> QED BY <1>2, <1>3 DEF Made

\* ... a wait has its end,
LEMMA PausedIs ==
    ASSUME NEW a \in Runs, NEW r \in Stages, NEW x, NEW y, x \in Nat, y \in Nat
    PROVE  LET b == Paused(a, r, x, y) IN b \in Runs /\ b.pc = r /\ b.i = a.i /\ b.n = a.n /\ b.call = a.call
                                                /\ b.at = x /\ b.until = y /\ b.deadline = a.deadline
<1>1. ASSUME NEW pc, NEW d, NEW h, NEW s, NEW i, NEW n, NEW u, NEW call, NEW e, e = Made(pc, d, h, s, i, n, u, call)
      PROVE  Paused(e, r, x, y) = Made(r, d, h, x, i, n, y, call)
  <2> DEFINE g == [e EXCEPT !.pc = r, !.at = x, !.until = y]
  <2>1. g = [e EXCEPT !.pc = r, !.at = x, !.until = y]
      OBVIOUS
  <2>2. Paused(e, r, x, y) = g
      BY DEF Paused
  <2> HIDE DEF g
  <2>3. g = Made(r, d, h, x, i, n, y, call)
      BY <1>1, <2>1 DEF Made
  <2> QED BY <2>2, <2>3
<1>2. Paused(a, r, x, y) = Made(r, a.deadline, a.next_health, x, a.i, a.n, y, a.call)
    BY <1>1, RunHas
<1>3. Made(r, a.deadline, a.next_health, x, a.i, a.n, y, a.call) \in Runs
    BY RunIs, RunHas, MadeIs DEF Stages
<1> QED BY <1>2, <1>3 DEF Made

\* ... and the rest is as it was.
LEMMA MovedIs ==
    ASSUME NEW a \in Runs, NEW r \in Stages, NEW b, b = Moved(a, r)
    PROVE  b \in Runs /\ b.pc = r /\ b.i = a.i /\ b.n = a.n /\ b.call = a.call
<1>1. ASSUME NEW pc, NEW d, NEW h, NEW s, NEW i, NEW n, NEW u, NEW call, NEW e, e = Made(pc, d, h, s, i, n, u, call)
      PROVE  Moved(e, r) = Made(r, d, h, s, i, n, u, call)
  <2> DEFINE g == [e EXCEPT !.pc = r]
  <2>1. g = [e EXCEPT !.pc = r]
      OBVIOUS
  <2>2. Moved(e, r) = g
      BY DEF Moved
  <2> HIDE DEF g
  <2>3. g = Made(r, d, h, s, i, n, u, call)
      BY <1>1, <2>1 DEF Made
  <2> QED BY <2>2, <2>3
<1>2. Moved(a, r) = Made(r, a.deadline, a.next_health, a.at, a.i, a.n, a.until, a.call)
    BY <1>1, RunHas
<1>3. Made(r, a.deadline, a.next_health, a.at, a.i, a.n, a.until, a.call) \in Runs
    BY RunIs, RunHas, MadeIs DEF Stages
<1> QED BY <1>2, <1>3 DEF Made

\* The stages of a run().
LEMMA StagesAre ==
    /\ "timers" \in Stages /\ "health" \in Stages /\ "pending" \in Stages
    /\ "wait" \in Stages /\ "deliver" \in Stages /\ "call" \in Stages
BY DEF Stages

\* No callback is one too.
LEMMA NoCallIs == NoCall \in Callbacks
BY DEF NoCall, Callbacks

\* Behind the health handlers a run() ends, or takes up the frame in hand.
LEMMA AfterHealthKeeps ==
    ASSUME LoopInv, stack # <<>>, Top.pc \in {"timers", "health"}, stack' = AfterHealth(Top),
           timers' = timers, on_health' = on_health, pending' = pending
    PROVE  stack' \in Seq(Runs) /\ Nested' /\ InHand'
<1>1. LoopShape /\ InHand /\ Top \in Runs /\ Sound(Top, Len(timers), Len(on_health))
    BY TopSound
<1>2. CASE now >= Top.deadline
  <2>1. stack' = Front(stack)
      BY <1>2 DEF AfterHealth
  <2>2. \A n : ~Dispatches(Top, n)
      BY DEF Dispatches, At
  <2> QED BY <2>1, <2>2, PopKeeps
<1>3. CASE ~(now >= Top.deadline)
  <2> DEFINE a == [Top EXCEPT !.pc = "pending", !.call = NoCall]
  <2>1. stack' = With(a)
      BY <1>3 DEF AfterHealth
  <2>2. a = Called(Top, "pending", NoCall)
      BY DEF Called
  <2> HIDE DEF a
  <2>5. a \in Runs /\ a.pc = "pending" /\ a.i = Top.i /\ a.n = Top.n
    <3>1. Top \in Runs /\ "pending" \in Stages /\ NoCall \in Callbacks
        BY <1>1, StagesAre, NoCallIs
    <3> QED BY <2>2, <3>1, CalledIs
  <2>3. Sound(a, Len(timers), Len(on_health)) /\ (\A n : Dispatches(a, n)) /\ a.pc # "wait"
      BY <1>1, <2>5 DEF Sound, At, Dispatches
  <2>4. Len(pending') <= 1
      BY <1>1 DEF InHand
  <2> QED BY <2>1, <2>3, <2>4, <2>5, ProceedsKeeps
<1> QED BY <1>2, <1>3

\* The timers are done: the monitors there are now are next, or what is behind them.
LEMMA TimersDoneKeeps == ASSUME LoopInv, TimersDone PROVE LoopInv'
<1>1. /\ stack # <<>> /\ Top.pc = "timers" /\ pending' = pending /\ now' = now /\ count' = count
      /\ UNCHANGED <<registry, due, active, born, ended, seen, owed>>
    BY DEF TimersDone, history
<1>2. LoopShape /\ InHand /\ Top \in Runs /\ Sound(Top, Len(timers), Len(on_health)) /\ Len(on_health) \in Nat
    BY <1>1, TopSound
<1>3. timers' = timers /\ on_health' = on_health /\ now \in Nat /\ count \in [Counted -> Nat]
    BY <1>1, <1>2 DEF registry, LoopShape
<1>4. stack' \in Seq(Runs) /\ Nested' /\ InHand'
  <2>1. CASE on_health # <<>> /\ now >= Top.next_health /\ now < Top.deadline
    <3> DEFINE a == [Top EXCEPT !.pc = "health", !.i = 1, !.n = Len(on_health), !.next_health = now + HEALTH_POLL]
    <3>1. stack' = With(a)
        BY <2>1 DEF TimersDone
    <3>2. now + HEALTH_POLL \in Nat /\ 1 \in Nat
        BY <1>3, LoopAssumption DEF LoopAssumption
    <3>7. a = Polled(Top, "health", 1, Len(on_health), now + HEALTH_POLL)
        BY DEF Polled
    <3> HIDE DEF a
    <3>3. a \in Runs /\ a.pc = "health" /\ a.i = 1 /\ a.n = Len(on_health)
      <4> DEFINE x == now + HEALTH_POLL  one == 1
      <4>1. Top \in Runs /\ "health" \in Stages /\ Len(on_health) \in Nat /\ x \in Nat /\ one \in Nat
          BY <1>2, <3>2, StagesAre
      <4>2. a = Polled(Top, "health", one, Len(on_health), x)
          BY <3>7
      <4> HIDE DEF one, x
      <4>3. a \in Runs /\ a.pc = "health" /\ a.i = one /\ a.n = Len(on_health)
          BY <4>1, <4>2, PolledIs
      <4> QED BY <4>3 DEF one
    <3>4. Sound(a, Len(timers), Len(on_health)) /\ a.pc # "wait"
        BY <1>2, <3>3 DEF Sound, At
    <3>5. \A n : ~Dispatches(Top, n)
        BY <1>1 DEF Dispatches, At
    <3>6. Len(pending') <= 1 /\ pending' = pending
        BY <1>1, <1>2 DEF InHand
    <3> QED BY <1>1, <1>3, <3>1, <3>3, <3>4, <3>5, <3>6, ProceedsKeeps
  <2>2. CASE ~(on_health # <<>> /\ now >= Top.next_health /\ now < Top.deadline)
    <3>1. stack' = AfterHealth(Top)
        BY <2>2 DEF TimersDone
    <3> QED BY <1>1, <1>3, <3>1, AfterHealthKeeps
  <2> QED BY <2>1, <2>2
<1> QED BY <1>1, <1>3, <1>4, PassesKeeps

\* The monitors are done.
LEMMA HealthDoneKeeps == ASSUME LoopInv, HealthDone PROVE LoopInv'
<1>1. /\ stack # <<>> /\ Top.pc = "health" /\ pending' = pending /\ now' = now /\ count' = count
      /\ UNCHANGED <<registry, due, active, born, ended, seen, owed>> /\ stack' = AfterHealth(Top)
    BY DEF HealthDone, history
<1>2. timers' = timers /\ on_health' = on_health /\ now \in Nat /\ count \in [Counted -> Nat]
    BY <1>1 DEF registry, LoopInv, LoopShape
<1>3. stack' \in Seq(Runs) /\ Nested' /\ InHand'
    BY <1>1, <1>2, AfterHealthKeeps
<1> QED BY <1>1, <1>2, <1>3, PassesKeeps

\* A monitor is told: it is one there was when the poll began.
LEMMA HealthTellsKeeps == ASSUME LoopInv, HealthTells PROVE LoopInv'
<1>1. /\ stack # <<>> /\ Top.pc = "health" /\ News(Top) # {} /\ pending' = pending /\ now' = now /\ count' = count
      /\ UNCHANGED <<registry, due, active, born, ended, seen, owed>>
    BY DEF HealthTells, registry
<1>2. /\ LoopShape /\ InHand /\ Top \in Runs /\ Sound(Top, Len(timers), Len(on_health))
      /\ Len(on_health) \in Nat /\ DOMAIN on_health = 1 .. Len(on_health)
      /\ \A i \in DOMAIN on_health : on_health[i] \in Monitors
    BY <1>1, TopSound
<1>3. timers' = timers /\ on_health' = on_health /\ now \in Nat /\ count \in [Counted -> Nat]
    BY <1>1, <1>2 DEF registry, LoopShape
<1>4. Top.i \in Nat \ {0} /\ Top.n \in Nat /\ Top.n <= Len(on_health)
    BY <1>1, <1>2, RunIs DEF Sound, At
<1> DEFINE i == Min(News(Top))
<1>5. i \in DOMAIN on_health /\ i \in Nat
  <2>1. News(Top) \subseteq DOMAIN on_health
    <3>1. News(Top) \subseteq Top.i .. Top.n
        BY Zenon DEF News
    <3> QED BY <1>2, <1>4, <3>1
  <2>2. News(Top) \subseteq Nat
      BY <2>1, <1>2
  <2> QED BY <1>1, <2>1, <2>2, LeastIs
<1> HIDE DEF i
<1> DEFINE m == on_health[i]
<1>6. stack' = With(Advanced(Top, "call", i + 1, [k |-> "health", x |-> m, n |-> 0]))
    BY DEF HealthTells, i, Advanced
<1>7. m \in Monitors
    BY <1>2, <1>5
<1> HIDE DEF m
<1>8. [k |-> "health", x |-> m, n |-> 0] \in Callbacks /\ i + 1 \in Nat
    BY <1>5, <1>7 DEF Callbacks
<1> DEFINE a == Advanced(Top, "call", i + 1, [k |-> "health", x |-> m, n |-> 0])
<1>19. a = Advanced(Top, "call", i + 1, [k |-> "health", x |-> m, n |-> 0])
    OBVIOUS
<1> HIDE DEF a
<1>9. a \in Runs /\ a.pc = "call" /\ a.i = i + 1 /\ a.n = Top.n /\ a.call = [k |-> "health", x |-> m, n |-> 0]
  <2>1. Top \in Runs /\ "call" \in Stages
      BY <1>2, StagesAre
  <2> QED BY <1>8, <1>19, <2>1, AdvancedIs
<1>10. Sound(a, Len(timers), Len(on_health)) /\ a.pc # "wait"
    BY <1>4, <1>5, <1>9 DEF Sound, At
<1>11. \A n : ~Dispatches(Top, n)
    BY <1>1 DEF Dispatches, At
<1>12. Len(pending') <= 1
    BY <1>1, <1>2 DEF InHand
<1>13. stack' \in Seq(Runs) /\ Nested' /\ InHand'
    BY <1>1, <1>3, <1>6, <1>19, <1>9, <1>10, <1>11, <1>12, ProceedsKeeps
<1> QED BY <1>1, <1>3, <1>13, PassesKeeps

\* A timer fires: it is one there was when the pass began, and goes to its next point before its callback begins.
LEMMA TimerFiresKeeps == ASSUME LoopInv, TimerFires PROVE LoopInv'
<1>1. /\ stack # <<>> /\ Top.pc = "timers" /\ Ripe(Top) # {} /\ pending' = pending /\ now' = now /\ count' = count
      /\ UNCHANGED <<registry, born, seen, owed>>
    BY DEF TimerFires, registry
<1>2. /\ LoopShape /\ InHand /\ Top \in Runs /\ Sound(Top, Len(timers), Len(on_health))
      /\ Len(timers) \in Nat /\ DOMAIN timers = 1 .. Len(timers) /\ \A i \in DOMAIN timers : timers[i] \in Clocks
    BY <1>1, TopSound
<1>3. timers' = timers /\ on_health' = on_health /\ on_msg' = on_msg
    BY <1>1 DEF registry
<1>4. Top.i \in Nat \ {0} /\ Top.n \in Nat /\ Top.n <= Len(timers)
    BY <1>1, <1>2, RunIs DEF Sound, At
<1> DEFINE i == Min(Ripe(Top))
<1>5. i \in DOMAIN timers /\ i \in Nat
  <2>1. Ripe(Top) \subseteq DOMAIN timers
      BY <1>2, <1>4 DEF Ripe
  <2>2. Ripe(Top) \subseteq Nat
      BY <2>1, <1>2
  <2> QED BY <1>1, <2>1, <2>2, LeastIs
<1> DEFINE t == timers[i]
<1>6. /\ stack' = With(Advanced(Top, "call", i + 1, [k |-> "timers", x |-> t, n |-> 0]))
      /\ due' = [due EXCEPT ![t] = PastGrid(due[t], Period[t], now)]
      /\ active' = [active EXCEPT ![t] = TRUE] /\ ended' = [ended EXCEPT ![t] = now]
    BY DEF TimerFires, Advanced
<1> HIDE DEF i
<1>7. t \in Clocks /\ t \in Range(timers)
    BY <1>2, <1>5 DEF Range
<1> HIDE DEF t
<1>8. [k |-> "timers", x |-> t, n |-> 0] \in Callbacks /\ i + 1 \in Nat
    BY <1>5, <1>7 DEF Callbacks
<1> DEFINE a == Advanced(Top, "call", i + 1, [k |-> "timers", x |-> t, n |-> 0])
<1>19. a = Advanced(Top, "call", i + 1, [k |-> "timers", x |-> t, n |-> 0])
    OBVIOUS
<1> HIDE DEF a
<1>9. a \in Runs /\ a.pc = "call" /\ a.i = i + 1 /\ a.n = Top.n /\ a.call = [k |-> "timers", x |-> t, n |-> 0]
  <2>1. Top \in Runs /\ "call" \in Stages
      BY <1>2, StagesAre
  <2> QED BY <1>8, <1>19, <2>1, AdvancedIs
<1>10. Sound(a, Len(timers), Len(on_health)) /\ a.pc # "wait"
    BY <1>4, <1>5, <1>7, <1>9 DEF Sound, At
<1>11. \A n : ~Dispatches(Top, n)
    BY <1>1 DEF Dispatches, At
<1>12. Len(pending') <= 1
    BY <1>1, <1>2 DEF InHand
<1>13. stack' \in Seq(Runs) /\ Nested' /\ InHand'
    BY <1>1, <1>3, <1>6, <1>19, <1>9, <1>10, <1>11, <1>12, ProceedsKeeps
<1>14. /\ due \in [Clocks -> Nat] /\ active \in [Clocks -> BOOLEAN] /\ born \in [Clocks -> Nat]
       /\ ended \in [Clocks -> Nat] /\ now \in Nat /\ Period[t] \in Nat \ {0}
    BY <1>2, <1>7, LoopAssumption DEF LoopShape, LoopAssumption
<1>15. PastGrid(due[t], Period[t], now) \in Nat /\ OnGrid(PastGrid(due[t], Period[t], now), born[t], Period[t])
  <2>1. OnGrid(due[t], born[t], Period[t])
      BY <1>7 DEF LoopInv, Gridded
  <2>2. due[t] \in Nat /\ born[t] \in Nat
      BY <1>7, <1>14
  <2> QED BY <1>14, <2>1, <2>2, PastGridIs
<1>16. LoopShape'
    BY <1>1, <1>2, <1>3, <1>6, <1>7, <1>13, <1>14, <1>15 DEF LoopShape
<1>17. Gridded'
  <2> SUFFICES ASSUME NEW u \in Range(timers)
               PROVE  OnGrid(due'[u], born[u], Period[u]) /\ (active'[u] \/ due'[u] > ended'[u])
      BY <1>1, <1>3 DEF Gridded
  <2>1. CASE u = t
      BY <1>6, <1>7, <1>14, <1>15, <2>1
  <2>2. CASE u # t
    <3>1. due'[u] = due[u] /\ active'[u] = active[u] /\ ended'[u] = ended[u]
        BY <1>6, <1>14, <2>2, <1>2, <1>7 DEF Range
    <3> QED BY <3>1 DEF LoopInv, Gridded
  <2> QED BY <2>1, <2>2
<1>18. Owes' /\ InOrder'
    BY <1>1, <1>3 DEF LoopInv, Owes, InOrder
<1> QED BY <1>13, <1>16, <1>17, <1>18 DEF LoopInv


-------------------------------------------------------------------------------
(* What the script does *)

\* A handler is registered that was not, and has had its frames so far.
LEMMA OnMessageKeeps == ASSUME LoopInv, NEW h \in Handlers, OnMessage(h) PROVE LoopInv'
<1>1. /\ on_msg' = Append(on_msg, h) /\ ~Contains(on_msg, h)
      /\ UNCHANGED <<now, on_health, timers, due, active, born, ended, pending, stack, seen, owed, count>>
    BY DEF OnMessage, history
<1>2. LoopShape /\ on_msg \in Seq(Handlers)
    BY DEF LoopInv, LoopShape
<1>3. /\ on_msg' \in Seq(Handlers) /\ Len(on_msg) \in Nat /\ DOMAIN on_msg = 1 .. Len(on_msg)
      /\ DOMAIN on_msg' = 1 .. Len(on_msg) + 1 /\ on_msg'[Len(on_msg) + 1] = h
      /\ \A i \in DOMAIN on_msg : on_msg'[i] = on_msg[i] /\ on_msg[i] # h
    BY <1>1, <1>2 DEF Contains
<1>4. LoopShape'
    BY <1>1, <1>2, <1>3 DEF LoopShape
<1>5. Nested' /\ InHand'
  <2>1. timers' \in Seq(Clocks) /\ on_health' \in Seq(Monitors) /\ timers' = timers /\ on_health' = on_health
      BY <1>1, <1>2 DEF LoopShape
  <2>2. Len(timers) <= Len(timers') /\ Len(on_health) <= Len(on_health')
      BY <2>1
  <2> QED BY <1>1, <2>1, <2>2, RegistryKeeps
<1>6. Once(on_msg')
  <2> SUFFICES ASSUME NEW i \in DOMAIN on_msg', NEW j \in DOMAIN on_msg', on_msg'[i] = on_msg'[j]
               PROVE  i = j
      BY DEF Once
  <2>1. \A k \in DOMAIN on_msg' : k \in DOMAIN on_msg \/ k = Len(on_msg) + 1
      BY <1>3
  <2>2. Once(on_msg)
      BY DEF LoopInv, InOrder
  <2> QED BY <1>3, <2>1, <2>2 DEF Once
<1>7. Owes' /\ Gridded'
    BY <1>1 DEF LoopInv, Owes, Gridded
<1>8. InOrder'
    BY <1>1, <1>6 DEF LoopInv, InOrder
<1> QED BY <1>4, <1>5, <1>7, <1>8 DEF LoopInv

\* A monitor is registered.
LEMMA OnHealthKeeps == ASSUME LoopInv, NEW m \in Monitors, OnHealth(m) PROVE LoopInv'
<1>1. /\ on_health' = Append(on_health, m)
      /\ UNCHANGED <<now, on_msg, timers, due, active, born, ended, pending, stack, seen, owed, count>>
    BY DEF OnHealth
<1>2. LoopShape /\ on_health \in Seq(Monitors) /\ timers \in Seq(Clocks)
    BY DEF LoopInv, LoopShape
<1>3. on_health' \in Seq(Monitors) /\ Len(on_health) <= Len(on_health') /\ Len(timers) <= Len(timers')
    BY <1>1, <1>2
<1>4. LoopShape'
    BY <1>1, <1>2, <1>3 DEF LoopShape
<1>5. Nested' /\ InHand'
    BY <1>1, <1>2, <1>3, RegistryKeeps
<1>6. Owes' /\ Gridded' /\ InOrder'
    BY <1>1 DEF LoopInv, Owes, Gridded, InOrder
<1> QED BY <1>4, <1>5, <1>6 DEF LoopInv

\* A timer is registered: its first point is a period from now.
LEMMA OnTimerKeeps == ASSUME LoopInv, NEW t \in Clocks, OnTimer(t) PROVE LoopInv'
<1>1. /\ timers' = Append(timers, t) /\ ~Contains(timers, t)
      /\ due' = [due EXCEPT ![t] = now + Period[t]] /\ active' = [active EXCEPT ![t] = FALSE]
      /\ born' = [born EXCEPT ![t] = now] /\ ended' = [ended EXCEPT ![t] = now]
      /\ UNCHANGED <<now, on_msg, on_health, pending, stack, seen, owed, count>>
    BY DEF OnTimer
<1>2. /\ LoopShape /\ on_health \in Seq(Monitors) /\ timers \in Seq(Clocks) /\ now \in Nat /\ Period[t] \in Nat \ {0}
      /\ due \in [Clocks -> Nat] /\ active \in [Clocks -> BOOLEAN]
      /\ born \in [Clocks -> Nat] /\ ended \in [Clocks -> Nat]
    BY LoopAssumption DEF LoopInv, LoopShape, LoopAssumption
<1>3. /\ on_health' = on_health /\ timers' \in Seq(Clocks)
      /\ Len(on_health) <= Len(on_health') /\ Len(timers) <= Len(timers')
    BY <1>1, <1>2
<1>8. /\ due' \in [Clocks -> Nat] /\ active' \in [Clocks -> BOOLEAN]
      /\ born' \in [Clocks -> Nat] /\ ended' \in [Clocks -> Nat]
    BY <1>1, <1>2
<1>4. LoopShape'
    BY <1>1, <1>2, <1>3, <1>8 DEF LoopShape
<1>5. Nested' /\ InHand'
    BY <1>1, <1>2, <1>3, RegistryKeeps
<1>6. Gridded'
  <2> SUFFICES ASSUME NEW u \in Range(timers')
               PROVE  OnGrid(due'[u], born'[u], Period[u]) /\ (active'[u] \/ due'[u] > ended'[u])
      BY DEF Gridded
  <2>1. CASE u = t
    <3>1. due'[u] = now + Period[u] /\ born'[u] = now /\ ended'[u] = now
        BY <1>1, <1>2, <2>1
    <3>2. now + Period[u] = now + 1 * Period[u] /\ now + Period[u] > now
        BY <1>2, <2>1
    <3> QED BY <3>1, <3>2 DEF OnGrid
  <2>2. CASE u # t
    <3>1. PICK i \in DOMAIN timers' : u = timers'[i]
        BY DEF Range
    <3>2. /\ DOMAIN timers' = 1 .. Len(timers) + 1 /\ DOMAIN timers = 1 .. Len(timers) /\ Len(timers) \in Nat
          /\ timers'[Len(timers) + 1] = t /\ \A j \in DOMAIN timers : timers'[j] = timers[j] /\ timers[j] \in Clocks
      <4>1. ASSUME NEW s \in Seq(Clocks), NEW x \in Clocks
            PROVE  /\ DOMAIN Append(s, x) = 1 .. Len(s) + 1 /\ DOMAIN s = 1 .. Len(s) /\ Len(s) \in Nat
                   /\ Append(s, x)[Len(s) + 1] = x
                   /\ \A j \in DOMAIN s : Append(s, x)[j] = s[j] /\ s[j] \in Clocks
          OBVIOUS
      <4>2. timers \in Seq(Clocks) /\ timers' = Append(timers, t)
          BY <1>1, <1>2
      <4>3. \A j \in DOMAIN timers : timers[j] \in Clocks
          BY <4>2
      <4> QED BY <4>1, <4>2, <4>3
    <3>3. i \in DOMAIN timers
        BY <2>2, <3>1, <3>2
    <3>4. u \in Range(timers) /\ u \in Clocks
        BY <3>1, <3>2, <3>3 DEF Range
    <3>5. due'[u] = due[u] /\ active'[u] = active[u] /\ ended'[u] = ended[u] /\ born'[u] = born[u]
        BY <1>1, <1>2, <2>2, <3>4
    <3> QED BY <3>4, <3>5 DEF LoopInv, Gridded
  <2> QED BY <2>1, <2>2
<1>7. Owes' /\ InOrder'
    BY <1>1 DEF LoopInv, Owes, InOrder
<1> QED BY <1>4, <1>5, <1>6, <1>7 DEF LoopInv

\* Everything registered goes between two tests: no run() is in progress, so nothing is in hand.
LEMMA ForgetKeeps == ASSUME LoopInv, Forget PROVE LoopInv'
<1>1. /\ stack = <<>> /\ on_msg' = <<>> /\ on_health' = <<>> /\ timers' = <<>> /\ pending' = <<>>
      /\ UNCHANGED <<now, due, active, stack, seen, owed, born, ended, count>>
    BY DEF Forget
<1>2. owed = {}
    BY <1>1 DEF LoopInv, InHand, Owes
<1>3. LoopShape'
    BY <1>1 DEF LoopInv, LoopShape
<1>4. Nested' /\ InHand' /\ Owes'
    BY <1>1, <1>2 DEF Nested, InHand, Owes
<1>5. Gridded'
    BY <1>1 DEF Gridded, Range
<1>6. InOrder'
    BY <1>1 DEF LoopInv, InOrder, Once
<1> QED BY <1>3, <1>4, <1>5, <1>6 DEF LoopInv

-------------------------------------------------------------------------------
(* Frames and waits *)

\* The frame in hand, if there is one, is the only one taken up.
LEMMA HandIs ==
    ASSUME LoopInv, pending # <<>>
    PROVE  /\ Len(pending) = 1 /\ DOMAIN pending = {1} /\ pending[1] \in Taken /\ pending \in Seq(Taken)
           /\ pending[1].n \in Nat /\ pending[1].handlers \in Seq(Handlers)
           /\ pending[1].left \subseteq DOMAIN pending[1].handlers
           /\ \A k \in pending[1].left : k \in Nat /\ pending[1].handlers[k] \in Handlers
           /\ Tail(pending) = <<>>
<1>1. pending \in Seq(Taken) /\ Len(pending) <= 1
    BY DEF LoopInv, LoopShape, InHand
<1>2. Len(pending) \in Nat \ {0} /\ DOMAIN pending = 1 .. Len(pending)
    BY <1>1
<1>3. Len(pending) = 1
    BY <1>1, <1>2
<1>4. DOMAIN pending = {1} /\ pending[1] \in Taken
    BY <1>1, <1>2, <1>3
<1>5. pending[1].n \in Nat /\ pending[1].handlers \in Seq(Handlers)
    BY <1>4 DEF Taken
<1>6. pending[1].left \subseteq DOMAIN pending[1].handlers
    BY DEF LoopInv, Owes
<1>7. \A k \in pending[1].left : k \in Nat /\ pending[1].handlers[k] \in Handlers
  <2> SUFFICES ASSUME NEW k \in pending[1].left
               PROVE  k \in Nat /\ pending[1].handlers[k] \in Handlers
      OBVIOUS
  <2>1. k \in DOMAIN pending[1].handlers
      BY <1>6
  <2> QED BY <1>5, <2>1
<1>8. Tail(pending) = <<>>
  <2>1. ASSUME NEW s \in Seq(Taken), Len(s) = 1
        PROVE  Tail(s) = <<>>
    <3>1. s # <<>>
        BY <2>1
    <3>2. Tail(s) \in Seq(Taken) /\ Len(Tail(s)) = 0
        BY <2>1, <3>1
    <3>3. ASSUME NEW t \in Seq(Taken), Len(t) = 0
          PROVE  t = <<>>
        BY <3>3
    <3> QED BY <3>2, <3>3
  <2> QED BY <1>1, <1>3, <2>1
<1> QED BY <1>1, <1>3, <1>4, <1>5, <1>6, <1>7, <1>8

\* What becomes of the frame in hand when some of its handlers are called.
LeftOver(p, x) == [p EXCEPT ![1].left = x]
\* It has the others still to call.
LEMMA LeftIs ==
    ASSUME NEW e \in Taken, NEW p, p = <<e>>, NEW x
    PROVE  LeftOver(p, x) = <<[n |-> e.n, handlers |-> e.handlers, left |-> x]>>
<1>1. LeftOver(p, x) = [p EXCEPT ![1] = [p[1] EXCEPT !.left = x]]
    BY DEF LeftOver
<1>2. p[1] = e
    OBVIOUS
<1>3. ASSUME NEW n, NEW hs, NEW l, e = [n |-> n, handlers |-> hs, left |-> l]
      PROVE  [e EXCEPT !.left = x] = [n |-> n, handlers |-> hs, left |-> x]
    BY <1>3
<1>4. e = [n |-> e.n, handlers |-> e.handlers, left |-> e.left]
    BY DEF Taken
<1>5. [e EXCEPT !.left = x] = [n |-> e.n, handlers |-> e.handlers, left |-> x]
    BY <1>3, <1>4
<1>6. LeftOver(p, x) = [<<e>> EXCEPT ![1] = [n |-> e.n, handlers |-> e.handlers, left |-> x]]
    BY <1>1, <1>2, <1>5
<1>7. ASSUME NEW g
      PROVE  [<<e>> EXCEPT ![1] = g] = <<g>>
    OBVIOUS
<1> QED BY <1>6, <1>7

\* A handler is given the frame in hand, which is behind all it was given; the frame no longer owes it.
LEMMA DispatchKeeps == ASSUME LoopInv, Dispatch PROVE LoopInv'
<1> DEFINE e == pending[1]  k == Min(e.left)  h == e.handlers[k]  c == [k |-> Top.pc, x |-> h, n |-> e.n]
           a == Called(Top, "call", c)
<1>1. /\ stack # <<>> /\ Top.pc \in {"pending", "deliver"} /\ pending # <<>> /\ e.left # {}
      /\ pending' = [pending EXCEPT ![1].left = e.left \ {k}]
      /\ seen' = [seen EXCEPT ![h] = Append(seen[h], e.n)] /\ owed' = owed \ {<<e.n, h>>}
      /\ stack' = With(a)
      /\ UNCHANGED <<now, registry, due, active, born, ended, count>>
    BY DEF Dispatch, Called, Calls
<1>2. /\ LoopShape /\ Top \in Runs /\ Sound(Top, Len(timers), Len(on_health))
      /\ on_msg' = on_msg /\ timers' = timers /\ on_health' = on_health
    BY <1>1, TopSound DEF registry
<1>3. /\ e \in Taken /\ pending = <<e>> /\ e.n \in Nat /\ e.handlers \in Seq(Handlers)
      /\ e.left \subseteq DOMAIN e.handlers /\ \A j \in e.left : j \in Nat /\ e.handlers[j] \in Handlers
  <2>1. pending \in Seq(Taken) /\ Len(pending) = 1
      BY <1>1, HandIs
  <2>2. pending = <<pending[1]>>
      BY <2>1
  <2> QED BY <1>1, <2>2, HandIs
<1>4. k \in e.left /\ h \in Handlers
  <2>1. e.left \subseteq Nat
      BY <1>3
  <2> QED BY <1>1, <1>3, <2>1, LeastIs
<1> HIDE DEF k
<1>5. pending' = <<[n |-> e.n, handlers |-> e.handlers, left |-> e.left \ {k}]>>
  <2>1. pending' = LeftOver(pending, e.left \ {k})
      BY <1>1 DEF LeftOver
  <2> HIDE DEF e
  <2> QED BY <1>3, <2>1, LeftIs
<1>6. /\ pending' # <<>> /\ Len(pending') = 1 /\ pending'[1].n = e.n /\ pending'[1].handlers = e.handlers
      /\ pending'[1].left = e.left \ {k} /\ pending' \in Seq(Taken)
  <2>1. [n |-> e.n, handlers |-> e.handlers, left |-> e.left \ {k}] \in Taken
      BY <1>3 DEF Taken
  <2> QED BY <1>5, <2>1
<1>7. c \in Callbacks /\ c.k = Top.pc /\ c.n = e.n
    BY <1>1, <1>3, <1>4 DEF Callbacks
<1> HIDE DEF e, h, c
<1>8. a \in Runs /\ a.pc = "call" /\ a.i = Top.i /\ a.n = Top.n /\ a.call = c
    BY <1>2, <1>7, CalledIs, StagesAre
<1> HIDE DEF a
<1>9. Sound(a, Len(timers), Len(on_health)) /\ Dispatches(a, e.n)
    BY <1>1, <1>2, <1>7, <1>8 DEF Sound, At, Dispatches
<1>10. stack' \in Seq(Runs) /\ Nested' /\ InHand'
  <2>1. Len(pending') <= 1 /\ a.pc # "wait" /\ Dispatches(a, pending'[1].n)
      BY <1>6, <1>8, <1>9
  <2> QED BY <1>1, <1>2, <1>8, <1>9, <2>1, ProceedsKeeps
<1>11. /\ seen \in [Handlers -> Seq(Nat)] /\ seen' \in [Handlers -> Seq(Nat)]
       /\ seen'[h] = Append(seen[h], e.n) /\ seen[h] \in Seq(Nat)
       /\ \A g \in Handlers : g # h => seen'[g] = seen[g]
  <2>1. seen \in [Handlers -> Seq(Nat)]
      BY <1>2 DEF LoopShape
  <2>2. Append(seen[h], e.n) \in Seq(Nat)
      BY <2>1, <1>3, <1>4
  <2> QED BY <1>1, <1>4, <2>1, <2>2
<1>12. LoopShape'
    BY <1>1, <1>2, <1>6, <1>10, <1>11 DEF LoopShape
<1>13. Owes'
  <2>1. owed \subseteq {<<e.n, e.handlers[j]>> : j \in e.left}
      BY <1>1 DEF LoopInv, Owes, e
  <2>2. owed' \subseteq {<<e.n, e.handlers[j]>> : j \in e.left \ {k}}
      BY <1>1, <2>1 DEF h
  <2> QED BY <1>3, <1>6, <2>2 DEF Owes
<1>14. Gridded'
    BY <1>1, <1>2 DEF LoopInv, Gridded
<1>15. InOrder'
  <2>1. /\ Once(on_msg) /\ Once(e.handlers) /\ e.n <= count.taken
        /\ \A g \in Handlers : \A i \in DOMAIN seen[g] :
              seen[g][i] <= count.taken /\ (i > 1 => seen[g][i - 1] < seen[g][i])
        /\ \A j \in e.left : \A i \in DOMAIN seen[e.handlers[j]] : seen[e.handlers[j]][i] < e.n
      BY <1>1 DEF LoopInv, InOrder, e
  <2>2. \A i \in DOMAIN seen[h] : seen[h][i] < e.n
      BY <1>4, <2>1 DEF h
  <2>3. ASSUME NEW g \in Handlers, NEW i \in DOMAIN seen'[g]
        PROVE  seen'[g][i] <= count.taken /\ (i > 1 => seen'[g][i - 1] < seen'[g][i])
    <3>1. CASE g # h
        BY <3>1, <2>1, <2>3, <1>11
    <3>2. CASE g = h
      <4>1. /\ DOMAIN seen'[h] = 1 .. Len(seen[h]) + 1 /\ DOMAIN seen[h] = 1 .. Len(seen[h]) /\ Len(seen[h]) \in Nat
            /\ seen'[h][Len(seen[h]) + 1] = e.n /\ \A j \in DOMAIN seen[h] : seen'[h][j] = seen[h][j]
        <5> DEFINE s == seen[h]  n == e.n
        <5>1. s \in Seq(Nat) /\ n \in Nat /\ seen'[h] = Append(s, n)
            BY <1>3, <1>11 DEF e
        <5> HIDE DEF s, n
        <5>2. /\ DOMAIN Append(s, n) = 1 .. Len(s) + 1 /\ DOMAIN s = 1 .. Len(s) /\ Len(s) \in Nat
              /\ Append(s, n)[Len(s) + 1] = n /\ \A j \in DOMAIN s : Append(s, n)[j] = s[j]
            BY <5>1
        <5> QED BY <5>1, <5>2 DEF s, n
      <4>2. CASE i = Len(seen[h]) + 1
        <5>1. i > 1 => i - 1 \in DOMAIN seen[h]
            BY <4>1, <4>2
        <5> QED BY <2>1, <2>2, <3>2, <4>1, <4>2, <5>1
      <4>3. CASE i # Len(seen[h]) + 1
        <5>1. i \in DOMAIN seen[h] /\ (i > 1 => i - 1 \in DOMAIN seen[h])
            BY <2>3, <3>2, <4>1, <4>3
        <5> QED BY <1>4, <2>1, <3>2, <4>1, <5>1
      <4> QED BY <4>2, <4>3
    <3> QED BY <3>1, <3>2
  <2>4. ASSUME NEW j \in e.left \ {k}
        PROVE  e.handlers[j] # h /\ e.handlers[j] \in Handlers
      BY <1>3, <1>4, <2>1 DEF Once, h
  <2>5. \A j \in e.left \ {k} : \A i \in DOMAIN seen'[e.handlers[j]] : seen'[e.handlers[j]][i] < e.n
    <3>1. ASSUME NEW j \in e.left \ {k}
          PROVE  seen'[e.handlers[j]] = seen[e.handlers[j]]
        BY <1>11, <2>4
    <3> QED BY <2>1, <3>1
  <2> QED BY <1>1, <1>2, <1>6, <2>1, <2>3, <2>5 DEF InOrder
<1> QED BY <1>10, <1>12, <1>13, <1>14, <1>15 DEF LoopInv

\* A frame all of whose handlers were called owes nothing.
LEMMA DispatchPopsKeeps == ASSUME LoopInv, DispatchPops PROVE LoopInv'
<1>1. /\ pending # <<>> /\ pending[1].left = {} /\ pending' = Tail(pending)
      /\ UNCHANGED <<now, registry, due, active, born, ended, stack, seen, owed, count>>
    BY DEF DispatchPops, history
<1>2. pending' = <<>> /\ on_msg' = on_msg /\ timers' = timers /\ on_health' = on_health
    BY <1>1, HandIs DEF registry
<1>3. LoopShape'
    BY <1>1, <1>2 DEF LoopInv, LoopShape
<1>4. Nested' /\ InHand'
    BY <1>1, <1>2 DEF LoopInv, Nested, InHand
<1>5. Owes'
    BY <1>1, <1>2 DEF LoopInv, Owes
<1>6. Gridded' /\ InOrder'
    BY <1>1, <1>2 DEF LoopInv, Gridded, InOrder
<1> QED BY <1>3, <1>4, <1>5, <1>6 DEF LoopInv

\* Where nothing is in hand the innermost run() may end or go on with anything but a callback.
LEMMA IdleKeeps ==
    ASSUME LoopInv, stack # <<>>, pending = <<>>, timers' = timers, on_health' = on_health, pending' = pending,
           \/ stack' = Front(stack)
           \/ \E a \in Runs : stack' = With(a) /\ Sound(a, Len(timers), Len(on_health))
    PROVE  stack' \in Seq(Runs) /\ Nested' /\ InHand'
<1>1. CASE stack' = Front(stack)
    BY <1>1, PopKeeps
<1>2. ASSUME NEW a \in Runs, stack' = With(a), Sound(a, Len(timers), Len(on_health))
      PROVE  stack' \in Seq(Runs) /\ Nested' /\ InHand'
  <2>1. Len(pending') <= 1 /\ pending' = <<>>
      BY DEF LoopInv, InHand
  <2> QED BY <1>2, <2>1, ProceedsKeeps
<1> QED BY <1>1, <1>2

\* A pass begins anew.
LEMMA AnewIs == ASSUME LoopInv, stack # <<>> PROVE Pass(Top) \in Runs /\ Sound(Pass(Top), Len(timers), Len(on_health))
<1>1. LoopShape /\ Top \in Runs /\ Len(timers) \in Nat
    BY TopSound
<1>2. Pass(Top) \in Runs /\ Pass(Top).pc = "timers" /\ Pass(Top).i = 1 /\ Pass(Top).n = Len(timers)
    BY <1>1, PassIs
<1> QED BY <1>1, <1>2 DEF Sound, At

\* How long a wait may take is a point in time.
LEMMA WaitingIs ==
    ASSUME LoopInv, stack # <<>>
    PROVE  LET b == Waiting(Top)
           IN  /\ b \in Runs /\ Sound(b, Len(timers), Len(on_health))
               /\ b.at = now /\ b.deadline = Top.deadline
               /\ now < Top.deadline => b.until <= Top.deadline
               /\ b.until <= now \/ \A d \in Waited : d >= b.until
<1> DEFINE wakes == {Top.deadline} \cup Waited \cup (IF on_health = <<>> THEN {} ELSE {Top.next_health})
           soon == now + LONGEST_WAIT
           until == Max({now, Min({Wake(Top), soon})})
<1>1. /\ LoopShape /\ Top \in Runs /\ Sound(Top, Len(timers), Len(on_health))
      /\ DOMAIN timers = 1 .. Len(timers) /\ \A i \in DOMAIN timers : timers[i] \in Clocks
    BY TopSound
<1>2. now \in Nat /\ soon \in Nat /\ Top.deadline \in Nat /\ Top.next_health \in Nat
    BY <1>1, LoopAssumption, RunIs DEF LoopShape, LoopAssumption
<1>3. Waited \subseteq Nat
    BY <1>1 DEF Waited, Range, LoopShape
<1>4. Wake(Top) \in Nat /\ Wake(Top) <= Top.deadline /\ \A d \in Waited : Wake(Top) <= d
  <2>1. wakes \subseteq Nat /\ wakes # {}
      BY <1>2, <1>3
  <2>2. Min(wakes) \in wakes /\ \A d \in wakes : Min(wakes) <= d
      BY <2>1, LeastIs
  <2>3. Min(wakes) \in Nat /\ Min(wakes) <= Top.deadline /\ \A d \in Waited : Min(wakes) <= d
      BY <2>1, <2>2
  <2> QED BY <2>3 DEF Wake
<1>5. Min({Wake(Top), soon}) \in Nat /\ Min({Wake(Top), soon}) <= Wake(Top)
  <2> HIDE DEF soon
  <2>1. {Wake(Top), soon} \subseteq Nat /\ {Wake(Top), soon} # {}
      BY <1>2, <1>4
  <2>2. Min({Wake(Top), soon}) \in {Wake(Top), soon} /\ Min({Wake(Top), soon}) <= Wake(Top)
      BY <2>1, LeastIs
  <2> QED BY <2>1, <2>2
<1>6. until \in Nat /\ (until = now \/ until <= Wake(Top))
  <2> DEFINE soonest == Min({Wake(Top), soon})
  <2>1. soonest \in Nat /\ soonest <= Wake(Top) /\ until = Max({now, soonest})
      BY <1>5
  <2> HIDE DEF soonest, until
  <2> QED BY <1>2, <2>1, GreaterIs
<1>9. (now < Top.deadline => until <= Top.deadline) /\ (until <= now \/ \A d \in Waited : d >= until)
  <2> HIDE DEF until
  <2> QED BY <1>2, <1>3, <1>4, <1>6
<1>7. Waiting(Top) = Paused(Top, "wait", now, until)
    BY DEF Waiting, Paused
<1> HIDE DEF until
<1>8. Waiting(Top) \in Runs /\ Waiting(Top).pc = "wait" /\ Waiting(Top).i = Top.i
      /\ Waiting(Top).at = now /\ Waiting(Top).until = until /\ Waiting(Top).deadline = Top.deadline
  <2>1. Top \in Runs /\ "wait" \in Stages /\ now \in Nat /\ until \in Nat
      BY <1>1, <1>2, <1>6, StagesAre
  <2> QED BY <1>7, <2>1, PausedIs
<1>10. Sound(Waiting(Top), Len(timers), Len(on_health))
    BY <1>1, <1>8 DEF Sound, At
<1> QED BY <1>8, <1>9, <1>10

\* Nothing is in hand: the run() ends, waits, or makes its next pass.
LEMMA DispatchDoneKeeps == ASSUME LoopInv, DispatchDone PROVE LoopInv'
<1>1. /\ stack # <<>> /\ pending = <<>> /\ pending' = pending
      /\ UNCHANGED <<now, registry, due, active, born, ended, seen, owed, count>>
      /\ \/ stack' = Front(stack)
         \/ stack' = With(Waiting(Top))
         \/ stack' = With(Pass(Top))
    BY DEF DispatchDone, history
<1>2. timers' = timers /\ on_health' = on_health
    BY <1>1 DEF registry
<1>3. stack' \in Seq(Runs) /\ Nested' /\ InHand'
    BY <1>1, <1>2, WaitingIs, AnewIs, IdleKeeps
<1> QED BY <1>1, <1>3, PassesKeeps DEF LoopInv, LoopShape

\* In a wait nothing is in hand.
LEMMA WaitsIdle == ASSUME LoopInv, stack # <<>>, Top.pc = "wait" PROVE pending = <<>>
BY DEF LoopInv, InHand

\* A wait is over.
LEMMA WaitEndsKeeps == ASSUME LoopInv, WaitEnds PROVE LoopInv'
<1>1. /\ stack # <<>> /\ Top.pc = "wait" /\ pending' = pending
      /\ UNCHANGED <<now, registry, due, active, born, ended, seen, owed, count>>
      /\ \/ stack' = Front(stack)
         \/ stack' = With(Pass(Top))
    BY DEF WaitEnds, history
<1>2. timers' = timers /\ on_health' = on_health
    BY <1>1 DEF registry
<1>3. stack' \in Seq(Runs) /\ Nested' /\ InHand'
    BY <1>1, <1>2, WaitsIdle, AnewIs, IdleKeeps
<1> QED BY <1>1, <1>3, PassesKeeps DEF LoopInv, LoopShape

\* A wait raises: its run() ends, with nothing in hand.
LEMMA WaitRaisesKeeps == ASSUME LoopInv, WaitRaises PROVE LoopInv'
<1>1. /\ stack # <<>> /\ Top.pc = "wait" /\ pending' = pending /\ Bump("raise") /\ stack' = Front(stack)
      /\ UNCHANGED <<now, registry, due, active, born, ended, seen, owed>>
    BY DEF WaitRaises, history
<1>2. timers' = timers /\ on_health' = on_health
    BY <1>1 DEF registry
<1>3. stack' \in Seq(Runs) /\ Nested' /\ InHand'
    BY <1>1, <1>2, WaitsIdle, IdleKeeps
<1>4. LoopShape /\ "raise" \in Counted \ {"taken"}
    BY DEF LoopInv, Counted
<1>5. count' \in [Counted -> Nat] /\ count'.taken = count.taken
    BY <1>1, <1>4, BumpIs
<1> QED BY <1>1, <1>3, <1>4, <1>5, PassesKeeps DEF LoopShape

\* A frame is taken: it is in the innermost run()'s hand, and behind all that handlers were given.
LEMMA WaitTakesKeeps == ASSUME LoopInv, WaitTakes PROVE LoopInv'
<1> DEFINE i  == (rr + Min(Found)) % Len(Reads)
           ch == Reads[i + 1]
           id == Head(wire[ch])
           n  == count.taken + 1
           matching == {k \in DOMAIN on_msg : ChannelOf[on_msg[k]] = ch /\ id \in Wants[on_msg[k]]}
           e == [n |-> n, handlers |-> on_msg, left |-> matching]
           a == Moved(Top, "deliver")
<1>1. /\ stack # <<>> /\ Looking(Top) /\ pending' = Append(pending, e) /\ stack' = With(a)
      /\ owed' = owed \cup {<<n, on_msg[k]>> : k \in matching} /\ Bump("taken")
      /\ UNCHANGED <<now, registry, due, active, born, ended, seen>>
    BY DEF WaitTakes, Moved
<1>2. matching \subseteq DOMAIN on_msg
    OBVIOUS
<1> HIDE DEF matching
<1>3. Top.pc = "wait" /\ pending = <<>> /\ owed = {}
  <2>1. Top.pc = "wait"
      BY <1>1 DEF Looking
  <2> QED BY <1>1, <2>1 DEF LoopInv, InHand, Owes
<1>4. /\ LoopShape /\ Top \in Runs /\ Sound(Top, Len(timers), Len(on_health))
      /\ on_msg' = on_msg /\ timers' = timers /\ on_health' = on_health /\ on_msg \in Seq(Handlers)
    BY <1>1, TopSound DEF registry, LoopShape
<1>5. n \in Nat /\ count' \in [Counted -> Nat] /\ count'.taken = n /\ n > count.taken
  <2>1. count \in [Counted -> Nat] /\ "taken" \in Counted
      BY <1>4 DEF LoopShape, Counted
  <2>2. count' = [count EXCEPT !["taken"] = count["taken"] + 1] /\ count["taken"] + 1 \in Nat
      BY <1>1, <2>1 DEF Bump
  <2> QED BY <2>1, <2>2
<1> HIDE DEF n
<1>6. e \in Taken /\ e.n = n /\ e.handlers = on_msg /\ e.left = matching
  <2>1. matching \subseteq Nat
      BY <1>2, <1>4
  <2> QED BY <1>4, <1>5, <2>1 DEF Taken
<1> HIDE DEF e
<1>7. pending' = <<e>>
    BY <1>1, <1>3
<1>8. pending' \in Seq(Taken) /\ pending' # <<>> /\ Len(pending') = 1 /\ pending'[1] = e
    BY <1>6, <1>7
<1>9. a \in Runs /\ a.pc = "deliver" /\ a.i = Top.i
    BY <1>4, MovedIs, StagesAre
<1> HIDE DEF a
<1>10. Sound(a, Len(timers), Len(on_health)) /\ Dispatches(a, n)
    BY <1>4, <1>9 DEF Sound, At, Dispatches
<1>11. stack' \in Seq(Runs) /\ Nested' /\ InHand'
  <2>1. Len(pending') <= 1 /\ a.pc # "wait" /\ Dispatches(a, pending'[1].n)
      BY <1>6, <1>8, <1>9, <1>10
  <2> QED BY <1>1, <1>4, <1>9, <1>10, <2>1, ProceedsKeeps
<1>12. LoopShape'
    BY <1>1, <1>4, <1>5, <1>8, <1>11 DEF LoopShape
<1>13. Owes'
    BY <1>1, <1>2, <1>3, <1>6, <1>8 DEF Owes
<1>14. Gridded'
    BY <1>1, <1>4 DEF LoopInv, Gridded
<1>15. InOrder'
  <2>1. /\ Once(on_msg)
        /\ \A h \in Handlers : \A j \in DOMAIN seen[h] :
              seen[h][j] <= count.taken /\ (j > 1 => seen[h][j - 1] < seen[h][j])
      BY DEF LoopInv, InOrder
  <2>2. seen' = seen /\ \A h \in Handlers : \A j \in DOMAIN seen[h] : seen[h][j] \in Nat
    <3>1. seen \in [Handlers -> Seq(Nat)]
        BY <1>4 DEF LoopShape
    <3> QED BY <1>1, <3>1
  <2>3. \A h \in Handlers : \A j \in DOMAIN seen[h] : seen[h][j] < n
    <3>1. count.taken \in Nat
        BY <1>4 DEF LoopShape, Counted
    <3> QED BY <1>5, <2>1, <2>2, <3>1
  <2>4. \A k \in matching : on_msg[k] \in Handlers
      BY <1>2, <1>4
  <2>5. \A h \in Handlers : \A j \in DOMAIN seen[h] : seen[h][j] <= n
      BY <1>5, <2>2, <2>3
  <2> QED BY <1>4, <1>5, <1>6, <1>8, <2>1, <2>2, <2>3, <2>4, <2>5 DEF InOrder
<1> QED BY <1>11, <1>12, <1>13, <1>14, <1>15 DEF LoopInv

-------------------------------------------------------------------------------
(* How a callback ends *)

\* A timer whose callback ends is on its grid again.
LEMMA TimerEndsIs ==
    ASSUME LoopInv, NEW t \in Clocks, TimerEnds(t), timers' = timers, born' = born
    PROVE  /\ due' \in [Clocks -> Nat] /\ active' \in [Clocks -> BOOLEAN] /\ ended' \in [Clocks -> Nat]
           /\ Gridded'
<1>1. /\ due' = [due EXCEPT ![t] = PastGrid(due[t], Period[t], now)]
      /\ active' = [active EXCEPT ![t] = FALSE] /\ ended' = [ended EXCEPT ![t] = now]
    BY DEF TimerEnds
<1>2. /\ due \in [Clocks -> Nat] /\ active \in [Clocks -> BOOLEAN] /\ born \in [Clocks -> Nat]
      /\ ended \in [Clocks -> Nat] /\ now \in Nat /\ Period[t] \in Nat \ {0} /\ timers \in Seq(Clocks)
      /\ due[t] \in Nat /\ born[t] \in Nat
    BY LoopAssumption DEF LoopInv, LoopShape, LoopAssumption
<1>3. PastGrid(due[t], Period[t], now) \in Nat /\ PastGrid(due[t], Period[t], now) > now
  <2>1. due[t] = due[t] + 0 * Period[t]
      BY <1>2
  <2>2. OnGrid(due[t], due[t], Period[t])
      BY <2>1 DEF OnGrid
  <2> QED BY <1>2, <2>2, PastGridIs
<1>4. OnGrid(due[t], born[t], Period[t]) => OnGrid(PastGrid(due[t], Period[t], now), born[t], Period[t])
    BY <1>2, PastGridIs
<1>5. Gridded'
  <2> SUFFICES ASSUME NEW u \in Range(timers)
               PROVE  OnGrid(due'[u], born[u], Period[u]) /\ (active'[u] \/ due'[u] > ended'[u])
      BY DEF Gridded
  <2>1. OnGrid(due[u], born[u], Period[u]) /\ (active[u] \/ due[u] > ended[u])
      BY DEF LoopInv, Gridded
  <2>2. CASE u = t
      BY <1>1, <1>2, <1>3, <1>4, <2>1, <2>2
  <2>3. CASE u # t
    <3>1. u \in Clocks
        BY <1>2 DEF Range
    <3>2. due'[u] = due[u] /\ active'[u] = active[u] /\ ended'[u] = ended[u]
        BY <1>1, <1>2, <2>3, <3>1
    <3> QED BY <2>1, <3>2
  <2> QED BY <2>2, <2>3
<1> QED BY <1>1, <1>2, <1>3, <1>5

\* What the end of a callback does to the timers.
LEMMA EndedIs ==
    ASSUME LoopInv, stack # <<>>, Top.pc = "call", timers' = timers, born' = born,
           IF Top.call.k = "timers" THEN TimerEnds(Top.call.x) ELSE UNCHANGED <<due, active, ended>>
    PROVE  /\ due' \in [Clocks -> Nat] /\ active' \in [Clocks -> BOOLEAN] /\ ended' \in [Clocks -> Nat]
           /\ Gridded'
<1>1. Sound(Top, Len(timers), Len(on_health))
    BY TopSound
<1>2. CASE Top.call.k = "timers"
  <2>1. Top.call.x \in Clocks
      BY <1>1, <1>2 DEF Sound
  <2> QED BY <1>2, <2>1, TimerEndsIs
<1>3. CASE Top.call.k # "timers"
    BY <1>3 DEF LoopInv, LoopShape, Gridded
<1> QED BY <1>2, <1>3

\* A callback returns: its run() goes on where it was.
LEMMA CallbackReturnsKeeps == ASSUME LoopInv, CallbackReturns PROVE LoopInv'
<1> DEFINE a == Called(Top, Top.call.k, NoCall)
<1>1. /\ stack # <<>> /\ Top.pc = "call" /\ stack' = With(a)
      /\ IF Top.call.k = "timers" THEN TimerEnds(Top.call.x) ELSE UNCHANGED <<due, active, ended>>
      /\ UNCHANGED <<now, registry, pending, born, seen, owed, count>>
    BY DEF CallbackReturns, InCallback, Called
<1>2. /\ LoopShape /\ InHand /\ Top \in Runs /\ Sound(Top, Len(timers), Len(on_health))
      /\ on_msg' = on_msg /\ timers' = timers /\ on_health' = on_health
    BY <1>1, TopSound DEF registry
<1>3. Top.call.k \in {"timers", "health", "pending", "deliver"}
    BY <1>1, <1>2, RunIs DEF Sound
<1>4. a \in Runs /\ a.pc = Top.call.k /\ a.i = Top.i /\ a.n = Top.n
  <2>1. Top \in Runs /\ Top.call.k \in Stages /\ NoCall \in Callbacks
      BY <1>2, <1>3, NoCallIs DEF Stages
  <2> QED BY <2>1, CalledIs
<1> HIDE DEF a
<1>5. At(a) = At(Top) /\ a.pc # "call"
    BY <1>1, <1>3, <1>4 DEF At
<1>6. Sound(a, Len(timers), Len(on_health))
    BY <1>2, <1>4, <1>5 DEF Sound
<1>7. \A n : Dispatches(Top, n) => Dispatches(a, n)
    BY <1>5 DEF Dispatches
<1>8. stack' \in Seq(Runs) /\ Nested' /\ InHand'
  <2>1. Len(pending') <= 1 /\ pending' = pending /\ a.pc # "wait"
      BY <1>1, <1>2, <1>3, <1>4 DEF InHand
  <2> QED BY <1>1, <1>2, <1>4, <1>6, <1>7, <2>1, ProceedsKeeps
<1>9. /\ due' \in [Clocks -> Nat] /\ active' \in [Clocks -> BOOLEAN] /\ ended' \in [Clocks -> Nat]
      /\ Gridded'
    BY <1>1, <1>2, EndedIs
<1>10. LoopShape'
    BY <1>1, <1>2, <1>8, <1>9 DEF LoopShape
<1>11. Owes' /\ InOrder'
    BY <1>1, <1>2 DEF LoopInv, Owes, InOrder
<1> QED BY <1>8, <1>9, <1>10, <1>11 DEF LoopInv

\* An exception leaves a run(): the frame its callback had in hand goes with it, and no other.
LEMMA UnwindsKeeps == ASSUME LoopInv, Unwinds PROVE LoopInv'
<1>1. /\ stack # <<>> /\ Top.pc = "call" /\ stack' = Front(stack)
      /\ IF Top.call.k = "timers" THEN TimerEnds(Top.call.x) ELSE UNCHANGED <<due, active, ended>>
      /\ pending' = (IF Abandoned(Top.call) THEN Tail(pending) ELSE pending)
      /\ owed' = {o \in owed : ~(Abandoned(Top.call) /\ o[1] = Top.call.n)}
      /\ UNCHANGED <<now, registry, born, seen, count>>
    BY DEF Unwinds, InCallback
<1>2. /\ LoopShape /\ on_msg' = on_msg /\ timers' = timers /\ on_health' = on_health
    BY <1>1, TopSound DEF registry
<1>3. ASSUME Abandoned(Top.call)
      PROVE  stack' \in Seq(Runs) /\ Nested' /\ InHand' /\ Owes' /\ InOrder' /\ pending' \in Seq(Taken)
  <2>1. pending # <<>> /\ pending[1].n = Top.call.n
      BY <1>3 DEF Abandoned
  <2>2. pending' = <<>>
      BY <1>1, <1>3, <2>1, HandIs
  <2>3. owed' = {}
    <3>1. \A o \in owed : o[1] = Top.call.n
        BY <2>1 DEF LoopInv, Owes
    <3> QED BY <1>1, <1>3, <3>1
  <2>4. stack' \in Seq(Runs) /\ Nested' /\ InHand'
      BY <1>1, <1>2, <2>2, PopKeeps
  <2>5. Owes' /\ InOrder'
      BY <1>1, <1>2, <2>2, <2>3 DEF LoopInv, Owes, InOrder
  <2>6. pending' \in Seq(Taken)
      BY <2>2
  <2> QED BY <2>4, <2>5, <2>6
<1>4. ASSUME ~Abandoned(Top.call)
      PROVE  stack' \in Seq(Runs) /\ Nested' /\ InHand' /\ Owes' /\ InOrder' /\ pending' \in Seq(Taken)
  <2>1. pending' = pending /\ owed' = owed
      BY <1>1, <1>4
  <2>2. pending # <<>> => ~Dispatches(Top, pending[1].n)
      BY <1>1, <1>4 DEF Abandoned, Dispatches, At
  <2>3. stack' \in Seq(Runs) /\ Nested' /\ InHand'
      BY <1>1, <1>2, <2>1, <2>2, PopKeeps
  <2>4. Owes' /\ InOrder'
      BY <1>1, <1>2, <2>1 DEF LoopInv, Owes, InOrder
  <2>5. pending' \in Seq(Taken)
      BY <1>2, <2>1 DEF LoopShape
  <2> QED BY <2>3, <2>4, <2>5
<1>5. stack' \in Seq(Runs) /\ Nested' /\ InHand' /\ Owes' /\ InOrder' /\ pending' \in Seq(Taken)
    BY <1>3, <1>4
<1>6. /\ due' \in [Clocks -> Nat] /\ active' \in [Clocks -> BOOLEAN] /\ ended' \in [Clocks -> Nat]
      /\ Gridded'
    BY <1>1, <1>2, EndedIs
<1>7. LoopShape'
    BY <1>1, <1>2, <1>5, <1>6 DEF LoopShape
<1> QED BY <1>5, <1>6, <1>7 DEF LoopInv

-------------------------------------------------------------------------------
(* The event loop *)

\* The invariant holds before anything is registered,
LEMMA LoopInitInv == LoopInit => LoopInv
<1> SUFFICES ASSUME LoopInit
             PROVE  LoopInv
    OBVIOUS
<1>1. /\ now = 0 /\ on_msg = <<>> /\ on_health = <<>> /\ timers = <<>> /\ pending = <<>> /\ stack = <<>> /\ owed = {}
      /\ due = [t \in Clocks |-> 0] /\ active = [t \in Clocks |-> FALSE]
      /\ born = [t \in Clocks |-> 0] /\ ended = [t \in Clocks |-> 0] /\ seen = [h \in Handlers |-> <<>>]
      /\ count = [run |-> 0, frame |-> 0, taken |-> 0, move |-> 0, raise |-> 0]
    BY DEF LoopInit
<1>2. \A h \in Handlers : seen[h] = <<>> /\ DOMAIN seen[h] = {}
    BY <1>1
<1>3. /\ due \in [Clocks -> Nat] /\ active \in [Clocks -> BOOLEAN]
      /\ born \in [Clocks -> Nat] /\ ended \in [Clocks -> Nat]
    BY <1>1
<1>4. seen \in [Handlers -> Seq(Nat)]
    BY <1>1
<1>5. count \in [Counted -> Nat]
    BY <1>1 DEF Counted
<1>6. LoopShape
    BY <1>1, <1>3, <1>4, <1>5 DEF LoopShape
<1>7. DOMAIN stack = {} /\ Len(pending) = 0 /\ DOMAIN on_msg = {} /\ DOMAIN timers = {}
    BY <1>1
<1>8. Nested /\ InHand /\ Owes
    BY <1>1, <1>7 DEF Nested, InHand, Owes
<1>9. Gridded
    BY <1>7 DEF Gridded, Range
<1>10. InOrder
    BY <1>1, <1>2, <1>7 DEF InOrder, Once
<1> QED BY <1>6, <1>8, <1>9, <1>10 DEF LoopInv

\* ... and through every step.
LEMMA LoopNextKeeps == LoopInv /\ [LoopNext]_loopVars => LoopInv'
<1> SUFFICES ASSUME LoopInv, [LoopNext]_loopVars
             PROVE  LoopInv'
    OBVIOUS
<1>1. CASE UNCHANGED loopVars
  <2>1. now' \in Nat /\ count' \in [Counted -> Nat] /\ count'.taken = count.taken
      BY <1>1 DEF loopVars, LoopInv, LoopShape
  <2> QED BY <1>1, <2>1, OutsideKeeps DEF loopVars, loop, registry, history
<1>2. CASE LoopSteps
    BY <1>2, TimerFiresKeeps, TimersDoneKeeps, HealthTellsKeeps, HealthDoneKeeps, DispatchKeeps, DispatchPopsKeeps,
       DispatchDoneKeeps, WaitTakesKeeps, WaitEndsKeeps, UnwindsKeeps DEF LoopSteps
<1>3. CASE (\E h \in Handlers : OnMessage(h)) \/ (\E m \in Monitors : OnHealth(m)) \/ (\E t \in Clocks : OnTimer(t))
           \/ (\E d \in Durations : Run(d)) \/ Forget
    BY <1>3, OnMessageKeeps, OnHealthKeeps, OnTimerKeeps, RunBeginsKeeps, ForgetKeeps
<1>4. CASE CallbackReturns \/ WaitRaises
    BY <1>4, CallbackReturnsKeeps, WaitRaisesKeeps
<1>5. CASE Works \/ Sleeps
    BY <1>5, TickKeeps DEF Works, Sleeps
<1>6. CASE CallbackRaises \/ CallbackCatches
           \/ \E c \in Channels : (\E id \in Ids : Arrives(c, id)) \/ (\E s \in States : LadderMoves(c, s))
    BY <1>6, ExternalKeeps
<1> QED BY <1>1, <1>2, <1>3, <1>4, <1>5, <1>6 DEF LoopNext

\* The invariant above holds for any handlers, monitors, timers, nesting, durations and exceptions.
THEOREM LoopInvariant == LoopSpec => []LoopInv
BY LoopInitInv, LoopNextKeeps, PTL DEF LoopSpec

\* _dispatch_pending: a frame taken up reaches every handler it matches unless one of them raised,
\* by the time the script has the thread back, whichever of the nested runs takes it further.
THEOREM FramesReachAll == LoopSpec => []TakenReachesAll
<1>1. LoopInv => TakenReachesAll
    BY DEF LoopInv, InHand, Owes, TakenReachesAll
<1> QED BY <1>1, LoopInvariant, PTL

\* _past_grid, _fire: a timer stays on the grid of its registration, and its next point is behind
\* the last beginning and end of its callback, however long that took.
THEOREM TimersKeepTheirGrid == LoopSpec => []KeepsItsGrid
<1>1. LoopInv => KeepsItsGrid
  <2> SUFFICES ASSUME LoopInv, NEW t \in Range(timers)
               PROVE  (due[t] - born[t]) % Period[t] = 0 /\ (active[t] \/ due[t] > ended[t])
      BY DEF KeepsItsGrid
  <2>1. /\ t \in Clocks /\ Period[t] \in Nat \ {0} /\ born[t] \in Nat
        /\ OnGrid(due[t], born[t], Period[t]) /\ (active[t] \/ due[t] > ended[t])
    <3>1. timers \in Seq(Clocks) /\ born \in [Clocks -> Nat]
        BY DEF LoopInv, LoopShape
    <3>2. t \in Clocks
        BY <3>1 DEF Range
    <3>3. Period[t] \in Nat \ {0} /\ born[t] \in Nat
        BY <3>1, <3>2, LoopAssumption DEF LoopAssumption
    <3> QED BY <3>2, <3>3 DEF LoopInv, Gridded
  <2>2. PICK k \in Nat : due[t] = born[t] + k * Period[t]
      BY <2>1 DEF OnGrid
  <2>3. due[t] - born[t] = k * Period[t]
      BY <2>1, <2>2
  <2> QED BY <2>1, <2>3, MultipleHasNoRest
<1> QED BY <1>1, LoopInvariant, PTL

\* _dispatch_pending: a handler is given no frame twice, and none out of order, though a run()
\* inside another handler of that frame goes on with it.
THEOREM EachFrameOnceInOrder == LoopSpec => []EachOnceInOrder
<1>1. LoopInv => EachOnceInOrder
  <2> SUFFICES ASSUME LoopInv, NEW h \in Handlers, NEW i \in 2 .. Len(seen[h])
               PROVE  seen[h][i - 1] < seen[h][i]
      BY DEF EachOnceInOrder
  <2>1. seen[h] \in Seq(Nat)
      BY DEF LoopInv, LoopShape
  <2>2. i \in DOMAIN seen[h] /\ i > 1
      BY <2>1
  <2> QED BY <2>2 DEF LoopInv, InOrder
<1> QED BY <1>1, LoopInvariant, PTL

-------------------------------------------------------------------------------
(* In time *)

\* A wait began before its run's deadline and does not go past it, nor past a timer that is due and not running.
Waits ==
    stack # <<>> /\ Top.pc = "wait" =>
        /\ Top.at <= now /\ Top.at < Top.deadline /\ Top.until <= Top.deadline
        /\ Top.until <= Top.at \/ \A t \in Range(timers) : active[t] \/ due[t] >= Top.until

\* Where a run() is of which some fields are set.
LEMMA SetIs ==
    ASSUME NEW a \in Runs, NEW r, NEW c, NEW j, NEW m, NEW x
    PROVE  /\ Called(a, r, c).pc = r /\ Called(a, r, c).call = c
           /\ Advanced(a, r, j, c).pc = r /\ Advanced(a, r, j, c).call = c
           /\ Polled(a, r, j, m, x).pc = r /\ Moved(a, r).pc = r
BY DEF Called, Advanced, Polled, Moved, Runs

\* The innermost run() after a step that lets it go on.
LEMMA TopWent ==
    ASSUME LoopInv, LoopInv', stack # <<>>, NEW a, stack' = With(a)
    PROVE  Len(stack') = Len(stack) /\ Top' = a
<1>1. stack \in Seq(Runs) /\ stack' \in Seq(Runs) /\ Len(stack) \in Nat \ {0} /\ Len(stack) \in DOMAIN stack
    BY TopIs DEF LoopInv, LoopShape
<1>2. stack' = [stack EXCEPT ![Len(stack)] = a]
    BY DEF With
<1>3. Len(stack') = Len(stack) /\ stack'[Len(stack)] = a
    BY <1>1, <1>2
<1> QED BY <1>3 DEF Top

\* The innermost run() after a step that ends one: it is in a callback.
LEMMA TopEnds ==
    ASSUME LoopInv, stack # <<>>, stack' = Front(stack)
    PROVE  Len(stack') # Len(stack) /\ (stack' # <<>> => Top'.pc = "call")
<1>1. /\ Len(stack') = Len(stack) - 1 /\ DOMAIN stack' = 1 .. Len(stack) - 1
      /\ \A i \in DOMAIN stack' : i \in DOMAIN stack /\ i < Len(stack) /\ stack'[i] = stack[i]
      /\ stack' \in Seq(Runs)
    BY PopsIs DEF LoopInv
<1>2. Len(stack) \in Nat \ {0}
    BY TopIs DEF LoopInv
<1>3. stack' # <<>> => Len(stack') \in DOMAIN stack'
    BY <1>1, <1>2
<1> QED BY <1>1, <1>2, <1>3 DEF Top, LoopInv, Nested

\* What a step does to the innermost run(): it was and is in a callback, or none is there; it is as it
\* was; it has ended; it goes on to call a callback; or it goes on elsewhere.
Outside == stack' = stack /\ (stack = <<>> \/ Top.pc = "call")
Same    == stack' = stack /\ UNCHANGED registry /\ UNCHANGED <<due, active>> /\ now <= now'
Ends    == stack # <<>> /\ stack' = Front(stack)
Invokes(k) == \E a : stack # <<>> /\ stack' = With(a) /\ a.pc = "call" /\ a.call.k = k
ProceedsAs(a) ==
    /\ stack' = With(a) /\ stack # <<>> /\ a.pc # "call"
    /\ a.pc = "wait" => now < Top.deadline /\ UNCHANGED <<registry, due, active, now>> /\ a = Waiting(Top)
Proceeds == \E a : ProceedsAs(a)

\* Every step is one of these; only a wait takes a frame.
LEMMA StepIs ==
    ASSUME LoopInv, [LoopNext]_loopVars
    PROVE  /\ \/ Outside \/ Same \/ Ends \/ Proceeds
              \/ \E d : stack' = Append(stack, Pass(d)) /\ d \in Runs /\ (stack = <<>> \/ Top.pc = "call")
              \/ Invokes("timers") /\ now < Top.deadline
              \/ Invokes("health") /\ now < Top.deadline /\ HealthTells
              \/ Invokes("pending") \/ Invokes("deliver")
           /\ count'.taken > count.taken => WaitTakes
<1> DEFINE Takes == count'.taken > count.taken => WaitTakes
<1>1. LoopShape /\ now \in Nat /\ (stack # <<>> => Top \in Runs /\ Sound(Top, Len(timers), Len(on_health)))
    BY TopSound DEF LoopInv, LoopShape
<1>2. ASSUME NEW c \in Counted \ {"taken"}, Bump(c)
      PROVE  Takes
  <2>1. count'.taken = count.taken /\ count.taken \in Nat
      BY <1>1, <1>2, BumpIs DEF LoopShape, Counted
  <2> QED BY <2>1
<1>3. ASSUME count' = count
      PROVE  Takes
  <2>1. count.taken \in Nat
      BY <1>1 DEF LoopShape, Counted
  <2> QED BY <1>3, <2>1
<1>4. {"run", "frame", "move", "raise"} \subseteq Counted \ {"taken"}
    BY DEF Counted
<1> HIDE DEF Takes
<1>5. CASE (\E h \in Handlers : OnMessage(h)) \/ (\E m \in Monitors : OnHealth(m)) \/ (\E t \in Clocks : OnTimer(t))
           \/ Forget \/ Works
  <2>1. Outside /\ count' = count
      BY <1>5 DEF OnMessage, OnHealth, OnTimer, Forget, Works, Tick, Scripted, InCallback, Outside, loop
  <2> QED BY <2>1, <1>3 DEF Takes
<1>6. ASSUME NEW d \in Durations, Run(d)
      PROVE  /\ \E e : stack' = Append(stack, Pass(e)) /\ e \in Runs /\ (stack = <<>> \/ Top.pc = "call")
             /\ Takes
  <2> DEFINE new == [pc |-> "timers", deadline |-> now + d, next_health |-> now, at |-> now, i |-> 1, n |-> 0,
                     until |-> now, call |-> NoCall]
  <2>1. new \in Runs
    <3>1. now + d \in Nat
        BY <1>1, LoopAssumption DEF LoopAssumption
    <3> QED BY <1>1, <3>1 DEF Runs, NoCall
  <2>2. stack' = Append(stack, Pass(new)) /\ (stack = <<>> \/ Top.pc = "call") /\ Bump("run")
      BY <1>6 DEF Run, Scripted, InCallback
  <2> HIDE DEF new
  <2> QED BY <1>2, <1>4, <2>1, <2>2
<1>7. CASE TimerFires
  <2>1. Invokes("timers") /\ now < Top.deadline /\ count' = count
    <3> DEFINE i == Min(Ripe(Top))  c == [k |-> "timers", x |-> timers[i], n |-> 0]
    <3>1. /\ stack # <<>> /\ now < Top.deadline /\ count' = count
          /\ stack' = With(Advanced(Top, "call", i + 1, c)) /\ c.k = "timers"
        BY <1>7 DEF TimerFires, Advanced
    <3> HIDE DEF i, c
    <3> QED BY <1>1, <3>1, SetIs DEF Invokes
  <2> QED BY <2>1, <1>3 DEF Takes
<1>8. CASE HealthTells
  <2>1. Invokes("health") /\ now < Top.deadline /\ count' = count
    <3> DEFINE i == Min(News(Top))  c == [k |-> "health", x |-> on_health[i], n |-> 0]
    <3>1. /\ stack # <<>> /\ now < Top.deadline /\ count' = count
          /\ stack' = With(Advanced(Top, "call", i + 1, c)) /\ c.k = "health"
        BY <1>8 DEF HealthTells, Advanced
    <3> HIDE DEF i, c
    <3> QED BY <1>1, <3>1, SetIs DEF Invokes
  <2> QED BY <1>8, <2>1, <1>3 DEF Takes
<1>9. CASE Dispatch
  <2>1. (Invokes("pending") \/ Invokes("deliver")) /\ count' = count
    <3> DEFINE e == pending[1]  c == [k |-> Top.pc, x |-> e.handlers[Min(e.left)], n |-> e.n]
    <3>1. /\ stack # <<>> /\ Top.pc \in {"pending", "deliver"} /\ count' = count
          /\ stack' = With(Called(Top, "call", c)) /\ c.k = Top.pc
        BY <1>9 DEF Dispatch, Called
    <3> HIDE DEF e, c
    <3> QED BY <1>1, <3>1, SetIs DEF Invokes
  <2> QED BY <2>1, <1>3 DEF Takes
<1>10. ASSUME stack # <<>>, stack' = AfterHealth(Top)
       PROVE  Ends \/ Proceeds
  <2>1. stack' = Front(stack) \/ stack' = With(Called(Top, "pending", NoCall))
      BY <1>10 DEF AfterHealth, Called
  <2>2. Called(Top, "pending", NoCall).pc = "pending"
      BY <1>1, <1>10, SetIs
  <2>3. stack' = With(Called(Top, "pending", NoCall)) => ProceedsAs(Called(Top, "pending", NoCall))
      BY <1>10, <2>2 DEF ProceedsAs
  <2> QED BY <1>10, <2>1, <2>3 DEF Ends, Proceeds
<1>11. CASE TimersDone
  <2>1. Ends \/ Proceeds
    <3> DEFINE a == Polled(Top, "health", 1, Len(on_health), now + HEALTH_POLL)
    <3>1. stack # <<>> /\ (stack' = AfterHealth(Top) \/ stack' = With(a))
        BY <1>11 DEF TimersDone, Polled
    <3>2. a.pc = "health"
        BY <1>1, <3>1, SetIs
    <3> HIDE DEF a
    <3>3. stack' = With(a) => ProceedsAs(a)
        BY <3>1, <3>2 DEF ProceedsAs
    <3> QED BY <1>10, <3>1, <3>3 DEF Proceeds
  <2>2. count' = count
      BY <1>11 DEF TimersDone
  <2> QED BY <2>1, <2>2, <1>3 DEF Takes
<1>12. CASE HealthDone
  <2>1. stack # <<>> /\ stack' = AfterHealth(Top) /\ count' = count
      BY <1>12 DEF HealthDone
  <2> QED BY <2>1, <1>10, <1>3 DEF Takes
<1>13. CASE DispatchPops \/ CallbackRaises \/ CallbackCatches \/ Sleeps \/ UNCHANGED loopVars
            \/ \E c \in Channels : (\E id \in Ids : Arrives(c, id)) \/ (\E s \in States : LadderMoves(c, s))
  <2>1. stack' = stack /\ UNCHANGED registry /\ UNCHANGED <<due, active>>
      BY <1>13 DEF DispatchPops, CallbackRaises, CallbackCatches, Sleeps, Tick, Arrives, LadderMoves, loop, loopVars
  <2>2. now' = now \/ now' = now + 1
      BY <1>13 DEF DispatchPops, CallbackRaises, CallbackCatches, Sleeps, Tick, Arrives, LadderMoves, loopVars
  <2>3. count' = count \/ Bump("raise") \/ Bump("frame") \/ Bump("move")
      BY <1>13 DEF DispatchPops, CallbackRaises, CallbackCatches, Sleeps, Tick, Arrives, LadderMoves, loopVars
  <2>4. Same /\ Takes
      BY <1>1, <1>2, <1>3, <1>4, <2>1, <2>2, <2>3 DEF Same
  <2> QED BY <2>4 DEF Takes
<1>14. Pass(Top).pc = "timers" \/ stack = <<>>
    BY <1>1, PassIs
<1>15. CASE DispatchDone
  <2>1. stack # <<>> /\ count' = count /\ UNCHANGED <<registry, due, active, now>>
      BY <1>15 DEF DispatchDone
  <2>2. \/ stack' = Front(stack)
        \/ stack' = With(Pass(Top))
        \/ stack' = With(Waiting(Top)) /\ ~(now >= Top.deadline)
      BY <1>15 DEF DispatchDone
  <2>3. ~(now >= Top.deadline) => now < Top.deadline
      BY <1>1, <2>1, RunIs
  <2>4. Waiting(Top).pc = "wait"
    <3>1. Waiting(Top) = Paused(Top, "wait", now, Max({now, Min({Wake(Top), now + LONGEST_WAIT})}))
        BY DEF Waiting, Paused
    <3>2. \A x, y : Paused(Top, "wait", x, y).pc = "wait"
        BY <1>1, <2>1 DEF Paused, Runs
    <3> QED BY <3>1, <3>2
  <2>5. /\ stack' = With(Pass(Top)) => ProceedsAs(Pass(Top))
        /\ stack' = With(Waiting(Top)) /\ ~(now >= Top.deadline) => ProceedsAs(Waiting(Top))
      BY <2>1, <2>3, <2>4, <1>14 DEF ProceedsAs
  <2>6. Ends \/ Proceeds
      BY <2>1, <2>2, <2>5 DEF Ends, Proceeds
  <2> QED BY <2>1, <2>6, <1>3 DEF Takes
<1>16. CASE WaitEnds
  <2>1. stack # <<>> /\ count' = count /\ (stack' = Front(stack) \/ stack' = With(Pass(Top)))
      BY <1>16 DEF WaitEnds
  <2>3. stack' = With(Pass(Top)) => ProceedsAs(Pass(Top))
      BY <2>1, <1>14 DEF ProceedsAs
  <2>2. Ends \/ Proceeds
      BY <2>1, <2>3 DEF Ends, Proceeds
  <2> QED BY <2>1, <2>2, <1>3 DEF Takes
<1>17. CASE WaitRaises \/ Unwinds
  <2>1. Ends /\ (count' = count \/ Bump("raise"))
      BY <1>17 DEF WaitRaises, Unwinds, InCallback, Ends
  <2> QED BY <2>1, <1>2, <1>3, <1>4 DEF Takes
<1>18. CASE WaitTakes
  <2>1. stack # <<>> /\ stack' = With(Moved(Top, "deliver"))
      BY <1>18 DEF WaitTakes, Moved
  <2>2. Moved(Top, "deliver").pc = "deliver"
      BY <1>1, <2>1, SetIs
  <2>4. ProceedsAs(Moved(Top, "deliver"))
      BY <2>1, <2>2 DEF ProceedsAs
  <2>3. Proceeds
      BY <2>4 DEF Proceeds
  <2> QED BY <1>18, <2>3
<1>19. CASE CallbackReturns
  <2>1. stack # <<>> /\ Top.pc = "call" /\ stack' = With(Called(Top, Top.call.k, NoCall)) /\ count' = count
      BY <1>19 DEF CallbackReturns, InCallback, Called
  <2>2. Called(Top, Top.call.k, NoCall).pc = Top.call.k
      BY <1>1, <2>1, SetIs
  <2>3. Top.call.k # "call" /\ Top.call.k # "wait"
      BY <1>1, <2>1, RunIs
  <2>5. ProceedsAs(Called(Top, Top.call.k, NoCall))
      BY <2>1, <2>2, <2>3 DEF ProceedsAs
  <2>4. Proceeds
      BY <2>5 DEF Proceeds
  <2> QED BY <2>1, <2>4, <1>3 DEF Takes
<1> QED BY <1>5, <1>6, <1>7, <1>8, <1>9, <1>11, <1>12, <1>13, <1>15, <1>16, <1>17, <1>18, <1>19
        DEF LoopNext, LoopSteps, Takes

\* The innermost run() after a step, and where it is.
LEMMA TopNext ==
    ASSUME LoopInv, LoopInv', [LoopNext]_loopVars
    PROVE  /\ stack' # <<>> /\ Top'.pc = "wait" =>
                 \/ Same /\ stack # <<>> /\ Top' = Top
                 \/ stack # <<>> /\ now < Top.deadline /\ UNCHANGED <<registry, due, active, now>> /\ Top' = Waiting(Top)
           /\ \A k \in {"timers", "health"} : Begins(k) => now < Top.deadline
           /\ Begins("health") => HealthTells
<1>1. ASSUME stack' = stack
      PROVE  Top' = Top
    BY <1>1 DEF Top
<1>2. CASE Outside
    BY <1>1, <1>2 DEF Outside, Begins
<1>3. CASE Same
    BY <1>1, <1>3 DEF Same, Begins
<1>4. CASE Ends
  <2>1. Len(stack') # Len(stack) /\ (stack' # <<>> => Top'.pc = "call")
      BY <1>4, TopEnds DEF Ends
  <2> QED BY <2>1 DEF Begins
<1>5. CASE Proceeds
  <2>1. PICK a : ProceedsAs(a)
      BY <1>5 DEF Proceeds
  <2>2. Top' = a
      BY <2>1, TopWent DEF ProceedsAs
  <2> QED BY <2>1, <2>2 DEF ProceedsAs, Begins
<1>6. ASSUME NEW d \in Runs, stack' = Append(stack, Pass(d)), stack = <<>> \/ Top.pc = "call"
      PROVE  Top'.pc = "timers"
  <2>1. stack \in Seq(Runs)
      BY DEF LoopInv, LoopShape
  <2>2. Pass(d) \in Runs /\ Pass(d).pc = "timers"
      BY <1>6, PassIs DEF LoopInv
  <2>3. Len(stack') = Len(stack) + 1 /\ stack'[Len(stack) + 1] = Pass(d)
      BY <1>6, <2>1, <2>2
  <2> QED BY <2>2, <2>3 DEF Top
<1>7. CASE \E d : stack' = Append(stack, Pass(d)) /\ d \in Runs /\ (stack = <<>> \/ Top.pc = "call")
    BY <1>6, <1>7 DEF Begins
<1>8. ASSUME NEW k, Invokes(k)
      PROVE  Top'.pc = "call" /\ Top'.call.k = k
  <2>1. PICK a : stack # <<>> /\ stack' = With(a) /\ a.pc = "call" /\ a.call.k = k
      BY <1>8 DEF Invokes
  <2> QED BY <2>1, TopWent
<1>9. CASE Invokes("timers") /\ now < Top.deadline
    BY <1>8, <1>9 DEF Begins
<1>10. CASE Invokes("health") /\ now < Top.deadline /\ HealthTells
    BY <1>8, <1>10 DEF Begins
<1>11. CASE Invokes("pending") \/ Invokes("deliver")
    BY <1>8, <1>11 DEF Begins
<1> QED BY <1>2, <1>3, <1>4, <1>5, <1>7, <1>9, <1>10, <1>11, StepIs

\* A wait's end is set where it begins, and what it waits for does not change in it.
LEMMA WaitsKeep == ASSUME LoopInv, LoopInv', Waits, [LoopNext]_loopVars PROVE Waits'
<1> SUFFICES ASSUME stack' # <<>>, Top'.pc = "wait"
             PROVE  /\ Top'.at <= now' /\ Top'.at < Top'.deadline /\ Top'.until <= Top'.deadline
                    /\ Top'.until <= Top'.at \/ \A t \in Range(timers') : active'[t] \/ due'[t] >= Top'.until
    BY DEF Waits
<1>1. CASE Same /\ stack # <<>> /\ Top' = Top
  <2>1. /\ Top.at <= now /\ Top.at < Top.deadline /\ Top.until <= Top.deadline
        /\ Top.until <= Top.at \/ \A t \in Range(timers) : active[t] \/ due[t] >= Top.until
      BY <1>1 DEF Waits
  <2>2. now \in Nat /\ now' \in Nat /\ Top.at \in Nat /\ now <= now'
      BY <1>1, TopSound, RunIs DEF Same, LoopInv, LoopShape
  <2>3. Top.at <= now'
      BY <2>1, <2>2
  <2>4. timers' = timers /\ due' = due /\ active' = active
      BY <1>1 DEF Same, registry
  <2> QED BY <1>1, <2>1, <2>3, <2>4
<1>2. CASE stack # <<>> /\ now < Top.deadline /\ UNCHANGED <<registry, due, active, now>> /\ Top' = Waiting(Top)
  <2>1. /\ Waiting(Top).at = now /\ Waiting(Top).deadline = Top.deadline /\ Waiting(Top).until <= Top.deadline
        /\ Waiting(Top).until <= now \/ \A d \in Waited : d >= Waiting(Top).until
      BY <1>2, WaitingIs
  <2>2. \A t \in Range(timers) : active[t] \/ due[t] \in Waited
      BY DEF Waited
  <2>3. timers' = timers /\ due' = due /\ active' = active /\ now' = now /\ now \in Nat
      BY <1>2 DEF registry, LoopInv, LoopShape
  <2> QED BY <1>2, <2>1, <2>2, <2>3
<1> QED BY <1>1, <1>2, TopNext

\* A wait keeps to its deadline and to its timers.
LEMMA AlwaysWaits == LoopSpec => []Waits
<1>1. LoopInit => Waits
    BY DEF LoopInit, Waits
<1>2. LoopInv /\ LoopInv' /\ Waits /\ [LoopNext]_loopVars => Waits'
    BY WaitsKeep
<1> QED BY <1>1, <1>2, LoopInvariant, PTL DEF LoopSpec

\* run, wait_on: no wait runs past a timer that is due and whose callback is not running.
THEOREM NoTimerIsSlept == LoopSpec => []NoDueTimerWaits
<1>1. LoopInv /\ Waits => NoDueTimerWaits
  <2> SUFFICES ASSUME LoopInv, Waits, stack # <<>>, Top.pc = "wait", now < Top.until, NEW t \in Range(timers)
               PROVE  active[t] \/ due[t] > now
      BY DEF NoDueTimerWaits
  <2>1. Top.at <= now /\ (Top.until <= Top.at \/ active[t] \/ due[t] >= Top.until)
      BY DEF Waits
  <2>2. now \in Nat /\ Top.at \in Nat /\ Top.until \in Nat /\ due[t] \in Nat
    <3>1. Top \in Runs /\ LoopShape
        BY TopSound
    <3>2. t \in Clocks
        BY <3>1 DEF LoopShape, Range
    <3> QED BY <3>1, <3>2, RunIs DEF LoopShape
  <2> QED BY <2>1, <2>2
<1> QED BY <1>1, LoopInvariant, AlwaysWaits, PTL

\* run: no run() fires a timer, tells a monitor or takes a frame once its deadline has passed, with
\* the one look that a wait makes in any case.
THEOREM NothingLate == LoopSpec => NothingTakenUpLate
<1>1. ASSUME LoopInv, LoopInv', Waits, [LoopNext]_loopVars,
             Begins("timers") \/ Begins("health") \/ count'.taken > count.taken
      PROVE  now < Top.deadline
  <2>1. CASE Begins("timers") \/ Begins("health")
      BY <1>1, <2>1, TopNext
  <2>2. CASE count'.taken > count.taken
    <3>1. WaitTakes
        BY <1>1, <2>2, StepIs
    <3>2. stack # <<>> /\ Top.pc = "wait" /\ (now < Top.until \/ now = Top.at)
        BY <3>1 DEF WaitTakes, Looking
    <3>3. Top.at < Top.deadline /\ Top.until <= Top.deadline
        BY <1>1, <3>2 DEF Waits
    <3>4. now \in Nat /\ Top.until \in Nat /\ Top.deadline \in Nat
        BY <1>1, <3>2, TopSound, RunIs DEF LoopInv, LoopShape
    <3> QED BY <3>2, <3>3, <3>4
  <2> QED BY <1>1, <2>1, <2>2
<1>2. LoopInv /\ LoopInv' /\ Waits /\ [LoopNext]_loopVars
         => [Begins("timers") \/ Begins("health") \/ count'.taken > count.taken => now < Top.deadline]_loopVars
    BY <1>1
<1> QED BY <1>2, LoopInvariant, AlwaysWaits, PTL DEF LoopSpec, NothingTakenUpLate

\* What the loop takes a monitor to have been told it was told.
SaidIsTold == said = told /\ DOMAIN said = Monitors

\* Both are written by the same steps.
LEMMA SaidKeeps == ASSUME SaidIsTold, LoopInv, [LoopNext]_loopVars PROVE SaidIsTold'
<1>1. CASE \E m \in Monitors : OnHealth(m)
    BY <1>1 DEF OnHealth, SaidIsTold
<1>2. CASE HealthTells
    BY <1>2 DEF HealthTells, SaidIsTold
<1>3. CASE ~(\E m \in Monitors : OnHealth(m)) /\ ~HealthTells
  <2>1. said' = said /\ told' = told
      BY <1>3 DEF LoopNext, LoopSteps, OnMessage, OnTimer, Forget, Run, TimerFires, TimersDone, HealthDone, Dispatch,
         DispatchPops, DispatchDone, WaitTakes, WaitEnds, WaitRaises, CallbackReturns, CallbackRaises, CallbackCatches,
         Unwinds, Tick, Works, Sleeps, Arrives, LadderMoves, loopVars, loop, history
  <2> QED BY <2>1 DEF SaidIsTold
<1> QED BY <1>1, <1>2, <1>3

\* _poll_health: a monitor is told only of known states, and never of one it was told last.
THEOREM HealthIsAlwaysNews == LoopSpec => HealthIsNews
<1>1. ASSUME LoopInv, LoopInv', SaidIsTold, [LoopNext]_loopVars, Begins("health")
      PROVE  told'[Top'.call.x] \notin {"", told[Top'.call.x]}
  <2> DEFINE i == Min(News(Top))  m == on_health[i]
  <2>1. /\ stack # <<>> /\ Top.pc = "health" /\ News(Top) # {}
        /\ told' = [told EXCEPT ![m] = ladder[ChannelOf[m]]]
        /\ stack' = With(Advanced(Top, "call", i + 1, [k |-> "health", x |-> m, n |-> 0]))
      BY <1>1, TopNext DEF HealthTells, Advanced
  <2>2. /\ Top \in Runs /\ Sound(Top, Len(timers), Len(on_health)) /\ DOMAIN on_health = 1 .. Len(on_health)
        /\ Len(on_health) \in Nat /\ \A j \in DOMAIN on_health : on_health[j] \in Monitors
      BY <1>1, <2>1, TopSound
  <2>3. Top.i \in Nat \ {0} /\ Top.n \in Nat /\ Top.n <= Len(on_health)
      BY <2>1, <2>2, RunIs DEF Sound, At
  <2>4. News(Top) \subseteq DOMAIN on_health /\ News(Top) \subseteq Nat
    <3>1. News(Top) \subseteq Top.i .. Top.n
        BY Zenon DEF News
    <3> QED BY <2>2, <2>3, <3>1
  <2>5. i \in News(Top)
      BY <2>1, <2>4, LeastIs
  <2>6. ladder[ChannelOf[m]] \notin {"", said[m]}
      BY <2>5 DEF News
  <2> HIDE DEF i
  <2>7. m \in Monitors
      BY <2>2, <2>4, <2>5
  <2> HIDE DEF m
  <2>8. Top' = Advanced(Top, "call", i + 1, [k |-> "health", x |-> m, n |-> 0])
      BY <1>1, <2>1, TopWent
  <2>9. Top'.call.x = m
      BY <2>2, <2>8, SetIs
  <2>10. told'[m] = ladder[ChannelOf[m]]
      BY <1>1, <2>1, <2>7 DEF SaidIsTold
  <2> QED BY <1>1, <2>6, <2>9, <2>10 DEF SaidIsTold
<1>2. LoopInv /\ LoopInv' /\ SaidIsTold /\ [LoopNext]_loopVars
         => [Begins("health") => LET m == Top'.call.x IN told'[m] \notin {"", told[m]}]_loopVars
    BY <1>1
<1>3. LoopInit => SaidIsTold
    BY DEF LoopInit, SaidIsTold
<1>4. SaidIsTold /\ LoopInv /\ [LoopNext]_loopVars => SaidIsTold'
    BY SaidKeeps
<1> QED BY <1>2, <1>3, <1>4, LoopInvariant, PTL DEF LoopSpec, HealthIsNews
===============================================================================
