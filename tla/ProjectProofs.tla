----------------------------- MODULE ProjectProofs -----------------------------
(***************************************************************************)
(* A call by an old object reaches what the object names or nothing, a     *)
(* stopped project holds no bus, and the whole is one run at a time: for   *)
(* any Project objects, threads, project files, listings and numbers of    *)
(* loads and runs.                                                         *)
(*                                                                         *)
(* An index is as good as its name as long as the load, or the run, is the *)
(* one it was listed in (Rows, Lists); a handle is the channel's own       *)
(* in the run that is on (Rows); and what a thread took out of a hold of   *)
(* the lock is still true, or the number it kept is not the run's any more *)
(* (Keeps).                                                                *)
(***************************************************************************)
EXTENDS Project, TLAPS

-------------------------------------------------------------------------------
(* The invariant *)

RowNames  == Names(Layouts)
ItemNames == Names(Databases)
Things    == (RowNames \cup {Nothing}) \X (ItemNames \cup {Nothing})

RowsLoaded  == Layouts \cup {<<>>}
NamesListed == Databases \cup {<<>>}

ItemIds  == [home : Homes, run : Nat, index : Indexes(Databases)]
ChanRecs == [project : Projects, name : RowNames, gen : Nat, h : Nat]
ItemRecs == [name : ItemNames, run : Nat]
Handles  == [is : {"open", "closing", "closed"}, row : RowNames \cup {Nothing}, run : Nat]
ChanLists == UNION {[D -> Channels] : D \in SUBSET Indexes(Layouts)}
ItemLists == UNION {[D -> ItemIds] : D \in SUBSET Indexes(Databases)}
Pcs == {"idle", "stopping", "closing", "sending", "firing", "waiting", "looping", "reading", "decoding", "failed"}
Calls == [pc : Pcs, project : Projects \cup {Nobody}, chan : Channels \cup {Nothing},
          item : ItemIds \cup {Nothing}, h : Nat, run : Nat]

Shape ==
    /\ lock \in Threads \cup {Nobody}
    /\ state \in [owner : Projects \cup {Nobody}, gen : Nat, run : Nat]
    /\ lib \in [rows : RowsLoaded, running : BOOLEAN, releasing : BOOLEAN, run : Nat,
                names : NamesListed, lists : Listings]
    /\ proj \in [Projects -> [gen : Nat, started : BOOLEAN, channels : ChanLists]]
    /\ chan \in [DOMAIN chan -> ChanRecs] /\ DOMAIN chan \subseteq Channels
    /\ item \in [DOMAIN item -> ItemRecs] /\ DOMAIN item \subseteq ItemIds
    /\ listing \in [Homes -> [items : ItemLists, run : Int]]
    /\ handle \in Seq(Handles)
    /\ thread \in [Threads -> Calls]

\* The project started is the one whose load the library holds, and there is one while a run is on.
Runs ==
    /\ \A p \in Projects : proj[p].started => lib.running /\ state.owner = p /\ proj[p].gen = state.gen
    /\ lib.running => state.owner \in Projects /\ proj[state.owner].started

\* Who holds the lock between two steps, and the handle it is waiting to see closed.
Holds(t) ==
    /\ thread[t].pc \in {"stopping", "closing"} <=> lock = t
    /\ thread[t].pc = "stopping" => thread[t].project \in Projects /\ proj[thread[t].project].started
    /\ thread[t].pc \in {"stopping", "closing"} /\ thread[t].h # 0 =>
          thread[t].h \in DOMAIN handle /\ handle[thread[t].h].is = "closing"

Locked == \A t \in Threads : Holds(t)

\* A channel that is current stands at its index under its name, in its project's list; one that has
\* a handle is current, a run is on, and the handle is of its row and of that run.
Rows ==
    /\ \A c \in DOMAIN chan : c.load <= state.gen /\ chan[c].gen <= state.gen
    /\ \A c \in DOMAIN chan : Current(c) =>
          /\ c.index \in DOMAIN lib.rows /\ lib.rows[c.index] = chan[c].name
          /\ c \in Range(proj[state.owner].channels)
    /\ \A p \in Projects : \A i \in DOMAIN proj[p].channels :
          LET c == proj[p].channels[i] IN c \in DOMAIN chan /\ c.index = i /\ chan[c].project = p
    /\ \A c \in DOMAIN chan : chan[c].h # 0 =>
          /\ lib.running /\ Current(c) /\ chan[c].h \in DOMAIN handle
          /\ handle[chan[c].h] = [is |-> "open", row |-> chan[c].name, run |-> lib.run]
          /\ \A d \in DOMAIN chan : chan[d].h = chan[c].h => d = c
    /\ \A h \in DOMAIN handle : handle[h].is = "open" => \E c \in DOMAIN chan : chan[c].h = h

\* An object listed in this run stands at its index under its name; its home has been listed in it.
Lists ==
    /\ \A k \in DOMAIN item :
          /\ k.run <= state.run /\ item[k].run <= state.run
          /\ k.run = state.run => listing[k.home].run = state.run
          /\ item[k].run = state.run => k.index \in DOMAIN lib.names /\ lib.names[k.index] = item[k].name
          /\ IsMessage(k) => k.home[2] \in DOMAIN chan
    /\ \A home \in Homes : \A i \in DOMAIN listing[home].items :
          LET k == listing[home].items[i] IN k \in DOMAIN item /\ k.home = home /\ k.index = i

\* What a thread holds to between two holds of the lock.
Sends(t) == thread[t].pc = "sending" =>
    /\ thread[t].item \in DOMAIN item /\ IsMessage(thread[t].item) /\ thread[t].h \in DOMAIN handle
    /\ handle[thread[t].h].is = "open" =>
          thread[t].run = lib.run /\ chan[thread[t].item.home[2]].h = thread[t].h

Fires(t) == thread[t].pc = "firing" =>
    /\ thread[t].item \in DOMAIN item /\ IsGenerator(thread[t].item) /\ thread[t].run <= lib.run
    /\ lib.running /\ thread[t].run = lib.run =>
          /\ state.owner = thread[t].item.home[2] /\ thread[t].item.index \in DOMAIN lib.names
          /\ lib.names[thread[t].item.index] = item[thread[t].item].name

Awaits(t) == thread[t].pc \in {"waiting", "looping", "reading", "decoding"} =>
    /\ thread[t].chan \in DOMAIN chan /\ thread[t].run <= state.run
    /\ thread[t].item # Nothing =>
          /\ thread[t].item \in DOMAIN item /\ IsMessage(thread[t].item) /\ thread[t].chan = thread[t].item.home[2]
          /\ thread[t].run = state.run => item[thread[t].item].run = state.run
    /\ thread[t].pc = "decoding" => thread[t].item # Nothing

Reads(t) == thread[t].pc \in {"looping", "reading", "decoding"} =>
    /\ thread[t].h \in DOMAIN handle
    /\ thread[t].pc = "reading" => handle[thread[t].h].is # "closed"
    /\ thread[t].run = state.run =>
          /\ lib.running /\ Current(thread[t].chan)
          /\ handle[thread[t].h].is # "closed" =>
                handle[thread[t].h].row = chan[thread[t].chan].name /\ handle[thread[t].h].run = lib.run

Keeps(t) == Sends(t) /\ Fires(t) /\ Awaits(t) /\ Reads(t)

IInv == Shape /\ Runs /\ Locked /\ Rows /\ Lists /\ (\A t \in Threads : Keeps(t)) /\ ReachesItsOwn

-------------------------------------------------------------------------------
(* Homes and lists *)

LEMMA HomesAre ==
    ASSUME NEW home \in Homes
    PROVE  /\ home[1] \in {"messages", "generators", "nodes"}
           /\ home[1] = "messages" => home = MessagesOf(home[2]) /\ home[2] \in Channels
           /\ home[1] # "messages" => home[2] \in Projects
BY DEF Homes, MessagesOf, GeneratorsOf, NodesOf

\* A home whose channel, if it is one's, was made.
Made(home) == home \in Homes /\ (home[1] = "messages" => home[2] \in DOMAIN chan)

ItemTypes ==
    /\ item \in [DOMAIN item -> ItemRecs] /\ DOMAIN item \subseteq ItemIds
    /\ listing \in [Homes -> [items : ItemLists, run : Int]]

\* The objects there are stay, under their names; some are found listed in this run.
ItemsStay ==
    \A k \in DOMAIN item :
        k \in DOMAIN item' /\ item'[k].name = item[k].name /\ (item'[k].run = item[k].run \/ item'[k].run = state.run)

\* What a home lists: at each position the object kept there, or one that is new.
LEMMA ListedAre ==
    ASSUME Shape, Lists, NEW home \in Homes, listing[home].run # state.run
    PROVE  /\ DOMAIN Listed(home) = DOMAIN lib.names /\ Listed(home) \in ItemLists
           /\ \A i \in DOMAIN lib.names :
                 LET k == Listed(home)[i]
                 IN  /\ k \in ItemIds /\ k.home = home /\ k.index = i /\ k.run <= state.run
                     /\ k \in DOMAIN item => item[k].name = lib.names[i]
<1>1. state.run \in Nat /\ lib.names \in Databases \cup {<<>>}
    BY DEF Shape, NamesListed
<1>2. DOMAIN lib.names \subseteq Indexes(Databases)
    BY <1>1 DEF Indexes
<1>3. ASSUME NEW i \in DOMAIN lib.names
      PROVE  LET k == Listed(home)[i]
             IN  /\ k \in ItemIds /\ k.home = home /\ k.index = i /\ k.run <= state.run
                 /\ k \in DOMAIN item => item[k].name = lib.names[i]
  <2>1. CASE Kept(home, i)
    <3>1. i \in DOMAIN listing[home].items /\ item[listing[home].items[i]].name = lib.names[i]
        BY <2>1 DEF Kept
    <3>2. /\ listing[home].items[i] \in DOMAIN item /\ listing[home].items[i].home = home
          /\ listing[home].items[i].index = i
        BY <3>1 DEF Lists
    <3>3. Listed(home)[i] = listing[home].items[i]
        BY <2>1 DEF Listed
    <3> QED BY <3>1, <3>2, <3>3 DEF Lists, Shape
  <2>2. CASE ~Kept(home, i)
    <3> DEFINE k == [home |-> home, run |-> state.run, index |-> i]
    <3>1. Listed(home)[i] = k
        BY <2>2 DEF Listed
    <3>2. k \in ItemIds /\ k.home = home /\ k.index = i /\ k.run = state.run
        BY <1>1, <1>2 DEF ItemIds
    <3> HIDE DEF k
    <3>3. k \notin DOMAIN item
        BY <3>2 DEF Lists
    <3> QED BY <1>1, <3>1, <3>2, <3>3
  <2> QED BY <2>1, <2>2
<1>4. DOMAIN Listed(home) = DOMAIN lib.names
    BY DEF Listed
<1>5. Listed(home) \in [DOMAIN lib.names -> ItemIds]
    BY <1>3, <1>4 DEF Listed
<1>6. Listed(home) \in ItemLists
    BY <1>2, <1>5 DEF ItemLists
<1> QED BY <1>3, <1>4, <1>6

LEMMA RelistKeeps ==
    ASSUME Shape, Lists, NEW home, Made(home), Relist(home), UNCHANGED <<state, lib>>, DOMAIN chan \subseteq DOMAIN chan'
    PROVE  ItemTypes' /\ Lists' /\ ItemsStay
<1>1. CASE UNCHANGED <<item, listing>>
    BY <1>1 DEF Shape, ItemTypes, Lists, ItemsStay, IsMessage
<1>2. CASE listing[home].run # state.run
  <2> DEFINE listed == Range(Listed(home))
  <2>1. /\ DOMAIN item' = DOMAIN item \cup listed
        /\ item' = [k \in DOMAIN item \cup listed |->
                       [name |-> IF k \in DOMAIN item THEN item[k].name ELSE lib.names[k.index],
                        run  |-> IF k \in listed THEN state.run ELSE item[k].run]]
        /\ listing' = [listing EXCEPT ![home] = [items |-> Listed(home), run |-> state.run]]
      BY <1>2 DEF Relist
  <2>2. /\ home \in Homes /\ state.run \in Nat /\ lib.names \in Databases \cup {<<>>}
        /\ item \in [DOMAIN item -> ItemRecs] /\ DOMAIN item \subseteq ItemIds
        /\ listing \in [Homes -> [items : ItemLists, run : Int]]
        /\ home[1] = "messages" => home[2] \in DOMAIN chan
      BY DEF Made, Shape, NamesListed
  <2>3. DOMAIN Listed(home) = DOMAIN lib.names /\ Listed(home) \in ItemLists
      BY <1>2, <2>2, ListedAre
  <2>4. \A k \in listed :
            /\ k \in ItemIds /\ k.home = home /\ k.index \in DOMAIN lib.names /\ k.run <= state.run
            /\ Listed(home)[k.index] = k
            /\ k \in DOMAIN item => item[k].name = lib.names[k.index]
    <3> SUFFICES ASSUME NEW i \in DOMAIN lib.names
                 PROVE  LET k == Listed(home)[i]
                        IN  /\ k \in ItemIds /\ k.home = home /\ k.index \in DOMAIN lib.names /\ k.run <= state.run
                            /\ Listed(home)[k.index] = k
                            /\ k \in DOMAIN item => item[k].name = lib.names[k.index]
        BY <2>3 DEF Range
    <3> QED BY <1>2, <2>2, ListedAre
  <2>5. \A i \in DOMAIN lib.names : Listed(home)[i] \in listed /\ Listed(home)[i].home = home /\ Listed(home)[i].index = i
      BY <1>2, <2>2, <2>3, ListedAre DEF Range
  <2> HIDE DEF listed
  <2>6. ASSUME NEW k \in DOMAIN item'
        PROVE  /\ item'[k] \in ItemRecs
               /\ item'[k].name = IF k \in DOMAIN item THEN item[k].name ELSE lib.names[k.index]
               /\ item'[k].run = IF k \in listed THEN state.run ELSE item[k].run
    <3>1. k \notin DOMAIN item => lib.names[k.index] \in ItemNames
        BY <2>1, <2>2, <2>4 DEF ItemNames, Names, Range
    <3>2. k \in DOMAIN item => item[k].name \in ItemNames /\ item[k].run \in Nat
        BY <2>2 DEF ItemRecs
    <3>3. item'[k] = [name |-> IF k \in DOMAIN item THEN item[k].name ELSE lib.names[k.index],
                      run  |-> IF k \in listed THEN state.run ELSE item[k].run]
        BY <2>1
    <3> QED BY <2>1, <2>2, <3>1, <3>2, <3>3 DEF ItemRecs
  <2>7. item' \in [DOMAIN item' -> ItemRecs] /\ DOMAIN item' \subseteq ItemIds
      BY <2>1, <2>2, <2>4, <2>6
  <2>8. [items |-> Listed(home), run |-> state.run] \in [items : ItemLists, run : Int]
      BY <2>2, <2>3
  <2>9. /\ listing' \in [Homes -> [items : ItemLists, run : Int]]
        /\ listing'[home].items = Listed(home) /\ listing'[home].run = state.run
        /\ \A other \in Homes \ {home} : listing'[other] = listing[other]
      BY <2>1, <2>2, <2>8
  <2>10. ItemsStay
      BY <2>1, <2>6 DEF ItemsStay
  <2>11. ASSUME NEW k \in DOMAIN item'
         PROVE  /\ k.run <= state.run /\ item'[k].run <= state.run
                /\ k.run = state.run => listing'[k.home].run = state.run
                /\ item'[k].run = state.run => k.index \in DOMAIN lib.names /\ lib.names[k.index] = item'[k].name
                /\ IsMessage(k) => k.home[2] \in DOMAIN chan'
    <3>1. CASE k \in listed
        BY <2>2, <2>4, <2>6, <2>9, <3>1 DEF IsMessage
    <3>2. CASE k \notin listed
      <4>1. k \in DOMAIN item /\ k.home \in Homes
          BY <2>1, <2>2, <3>2 DEF ItemIds
      <4>2. item'[k].name = item[k].name /\ item'[k].run = item[k].run
          BY <2>6, <3>2, <4>1
      <4> QED BY <2>9, <4>1, <4>2 DEF Lists
    <3> QED BY <3>1, <3>2
  <2>12. ASSUME NEW other \in Homes, NEW i \in DOMAIN listing'[other].items
         PROVE  LET k == listing'[other].items[i] IN k \in DOMAIN item' /\ k.home = other /\ k.index = i
    <3>1. CASE other = home
        BY <2>1, <2>3, <2>5, <2>9, <3>1
    <3>2. CASE other # home
        BY <2>1, <2>9, <3>2 DEF Lists
    <3> QED BY <3>1, <3>2
  <2>13. Lists'
      BY <2>11, <2>12 DEF Lists, IsMessage
  <2> QED BY <2>7, <2>9, <2>10, <2>13 DEF ItemTypes
<1> QED BY <1>1, <1>2 DEF Relist

-------------------------------------------------------------------------------
(* Channels and handles *)

RowTypes ==
    /\ chan \in [DOMAIN chan -> ChanRecs] /\ DOMAIN chan \subseteq Channels
    /\ proj \in [Projects -> [gen : Nat, started : BOOLEAN, channels : ChanLists]]
    /\ handle \in Seq(Handles)

\* The channels there are stay what they are; while a run goes on they stay of its load.
ChannelsStay ==
    \A c \in DOMAIN chan :
        /\ c \in DOMAIN chan' /\ chan'[c].name = chan[c].name /\ chan'[c].project = chan[c].project
        /\ lib.running => chan'[c].gen = chan[c].gen

\* A handle is of the row and the run it was opened in until it is closed, which waits for the reads
\* in it; an open one stays its channel's.
HandlesStay ==
    \A h \in DOMAIN handle :
        /\ h \in DOMAIN handle'
        /\ handle'[h].is = "closed" => handle[h].is = "closed" \/ Readers(h) = {}
        /\ handle'[h].is # "closed" =>
              handle[h].is # "closed" /\ handle'[h].row = handle[h].row /\ handle'[h].run = handle[h].run
        /\ handle'[h].is = "open" => /\ handle[h].is = "open"
                                     /\ \A c \in DOMAIN chan : chan[c].h = h => chan'[c].h = h

RowsGoOn == RowTypes' /\ Rows' /\ ChannelsStay /\ HandlesStay

LEMMA RowsSame ==
    ASSUME Shape, Rows, UNCHANGED <<chan, handle>>, proj' \in [Projects -> [gen : Nat, started : BOOLEAN, channels : ChanLists]],
           \A p \in Projects : proj'[p].channels = proj[p].channels,
           state'.owner = state.owner, state'.gen = state.gen, lib'.rows = lib.rows,
           (lib'.running /\ lib'.run = lib.run) \/ (\A c \in DOMAIN chan : chan[c].h = 0) \/ UNCHANGED lib
    PROVE  RowsGoOn
<1>1. \A c \in DOMAIN chan : Current(c) <=> Current(c)'
    BY DEF Current
<1>2. RowTypes'
    BY DEF Shape, RowTypes
<1>3. ChannelsStay /\ HandlesStay
    BY DEF ChannelsStay, HandlesStay
<1>4. \A c \in DOMAIN chan : Current(c) => state.owner \in Projects
    BY DEF Current, Shape, ChanRecs
<1>5. \A c \in DOMAIN chan' : Current(c)' =>
          /\ c.index \in DOMAIN lib'.rows /\ lib'.rows[c.index] = chan'[c].name
          /\ c \in Range(proj'[state'.owner].channels)
    BY <1>1, <1>4 DEF Rows
<1>6. \A c \in DOMAIN chan' : chan'[c].h # 0 =>
          /\ lib'.running /\ Current(c)' /\ chan'[c].h \in DOMAIN handle'
          /\ handle'[chan'[c].h] = [is |-> "open", row |-> chan'[c].name, run |-> lib'.run]
          /\ \A d \in DOMAIN chan' : chan'[d].h = chan'[c].h => d = c
    BY <1>1 DEF Rows
<1>7. /\ \A c \in DOMAIN chan' : c.load <= state'.gen /\ chan'[c].gen <= state'.gen
      /\ \A p \in Projects : \A i \in DOMAIN proj'[p].channels :
             LET c == proj'[p].channels[i] IN c \in DOMAIN chan' /\ c.index = i /\ chan'[c].project = p
      /\ \A h \in DOMAIN handle' : handle'[h].is = "open" => \E c \in DOMAIN chan' : chan'[c].h = h
    BY DEF Rows
<1>8. Rows'
    BY <1>5, <1>6, <1>7 DEF Rows
<1> QED BY <1>2, <1>3, <1>8 DEF RowsGoOn

\* Bus.close takes the handle from its channel.
LEMMA TakeHandleKeeps ==
    ASSUME Shape, Rows, NEW c \in DOMAIN chan, TakeHandle(c), UNCHANGED <<state, lib, proj>>
    PROVE  /\ RowsGoOn /\ chan[c].h \in DOMAIN handle /\ handle'[chan[c].h].is = "closing"
           /\ \A h \in DOMAIN handle : handle[h].is = "closing" => handle'[h] = handle[h]
<1> DEFINE x == chan[c].h
<1>1. /\ x # 0 /\ chan' = [chan EXCEPT ![c].h = 0] /\ handle' = [handle EXCEPT ![x].is = "closing"]
      /\ state' = state /\ lib' = lib /\ proj' = proj
    BY DEF TakeHandle
<1>2. /\ chan \in [DOMAIN chan -> ChanRecs] /\ DOMAIN chan \subseteq Channels /\ handle \in Seq(Handles)
      /\ proj \in [Projects -> [gen : Nat, started : BOOLEAN, channels : ChanLists]]
    BY DEF Shape
<1>3. x \in DOMAIN handle /\ handle[x].is = "open" /\ chan[c].h = x /\ \A d \in DOMAIN chan : chan[d].h = x => d = c
  <2>1. /\ x \in DOMAIN handle /\ handle[x] = [is |-> "open", row |-> chan[c].name, run |-> lib.run]
        /\ \A d \in DOMAIN chan : chan[d].h = chan[c].h => d = c
      BY <1>1 DEF Rows
  <2> QED BY <2>1
<1>4. chan[c] \in ChanRecs /\ handle[x] \in Handles
    BY <1>2, <1>3
<1> HIDE DEF x
<1>5. /\ chan'[c].h = 0 /\ chan'[c].name = chan[c].name /\ chan'[c].project = chan[c].project /\ chan'[c].gen = chan[c].gen
      /\ chan'[c] \in ChanRecs /\ DOMAIN chan' = DOMAIN chan
      /\ \A d \in DOMAIN chan : d # c => chan'[d] = chan[d]
    BY <1>1, <1>2, <1>4 DEF ChanRecs
<1>6. [handle[x] EXCEPT !.is = "closing"] \in Handles
    BY <1>4 DEF Handles
<1>7. /\ handle'[x] = [handle[x] EXCEPT !.is = "closing"] /\ DOMAIN handle' = DOMAIN handle
      /\ \A h \in DOMAIN handle : h # x => handle'[h] = handle[h]
    BY <1>1, <1>2, <1>3
<1>8. handle' \in Seq(Handles)
    BY <1>1, <1>2, <1>3, <1>6
<1>9. handle'[x].is = "closing" /\ handle'[x].row = handle[x].row /\ handle'[x].run = handle[x].run
    BY <1>4, <1>7 DEF Handles
<1>10. chan' \in [DOMAIN chan' -> ChanRecs]
    BY <1>1, <1>2, <1>5
<1>11. RowTypes'
    BY <1>1, <1>2, <1>5, <1>8, <1>10 DEF RowTypes
<1>12. ChannelsStay
    BY <1>5 DEF ChannelsStay
<1>13. HandlesStay
  <2> SUFFICES ASSUME NEW h \in DOMAIN handle
               PROVE  /\ h \in DOMAIN handle'
                      /\ handle'[h].is = "closed" => handle[h].is = "closed"
                      /\ handle'[h].is # "closed" =>
                            handle[h].is # "closed" /\ handle'[h].row = handle[h].row /\ handle'[h].run = handle[h].run
                      /\ handle'[h].is = "open" => /\ handle[h].is = "open"
                                                   /\ \A d \in DOMAIN chan : chan[d].h = h => chan'[d].h = h
      BY DEF HandlesStay
  <2>1. CASE h = x
      BY <1>3, <1>7, <1>9, <2>1
  <2>2. CASE h # x
      BY <1>3, <1>5, <1>7, <2>2
  <2> QED BY <2>1, <2>2
<1>14. \A d \in DOMAIN chan : Current(d) <=> Current(d)'
    BY <1>1, <1>5 DEF Current
<1>15. \A d \in DOMAIN chan' : chan'[d].h # 0 => d # c /\ chan'[d] = chan[d] /\ chan[d].h # x
    BY <1>3, <1>5
<1>16. \A d \in DOMAIN chan' : chan'[d].h # 0 =>
          /\ lib'.running /\ Current(d)' /\ chan'[d].h \in DOMAIN handle'
          /\ handle'[chan'[d].h] = [is |-> "open", row |-> chan'[d].name, run |-> lib'.run]
          /\ \A e \in DOMAIN chan' : chan'[e].h = chan'[d].h => e = d
    BY <1>1, <1>5, <1>7, <1>14, <1>15 DEF Rows
<1>17. \A h \in DOMAIN handle' : handle'[h].is = "open" => \E d \in DOMAIN chan' : chan'[d].h = h
  <2> SUFFICES ASSUME NEW h \in DOMAIN handle', handle'[h].is = "open" PROVE \E d \in DOMAIN chan' : chan'[d].h = h
      OBVIOUS
  <2>1. h # x /\ handle[h].is = "open" /\ h \in DOMAIN handle
      BY <1>7, <1>9
  <2>2. PICK d \in DOMAIN chan : chan[d].h = h
      BY <2>1 DEF Rows
  <2>3. d # c
      BY <2>1, <2>2 DEF x
  <2> QED BY <1>5, <2>2, <2>3
<1>18. /\ \A d \in DOMAIN chan' : d.load <= state'.gen /\ chan'[d].gen <= state'.gen
       /\ \A d \in DOMAIN chan' : Current(d)' =>
              /\ d.index \in DOMAIN lib'.rows /\ lib'.rows[d.index] = chan'[d].name
              /\ d \in Range(proj'[state'.owner].channels)
       /\ \A p \in Projects : \A i \in DOMAIN proj'[p].channels :
             LET d == proj'[p].channels[i] IN d \in DOMAIN chan' /\ d.index = i /\ chan'[d].project = p
  <2>1. \A d \in DOMAIN chan : chan'[d].name = chan[d].name /\ chan'[d].project = chan[d].project /\ chan'[d].gen = chan[d].gen
      BY <1>5
  <2> QED BY <1>1, <1>5, <1>14, <2>1 DEF Rows
<1>19. Rows'
    BY <1>16, <1>17, <1>18 DEF Rows
<1> QED BY <1>3, <1>7, <1>9, <1>11, <1>12, <1>13, <1>19 DEF RowsGoOn, x

\* Channel._handle: the channel's own handle, of its row and of the run that is on.
LEMMA HandleOfKeeps ==
    ASSUME Shape, Runs, Rows, NEW c \in DOMAIN chan, NEW h, HandleOf(c, h), UNCHANGED <<state, lib, proj>>
    PROVE  /\ RowsGoOn /\ lib.running /\ Current(c) /\ chan'[c].h = h /\ h \in DOMAIN handle'
           /\ handle'[h] = [is |-> "open", row |-> chan[c].name, run |-> lib.run]
           /\ \A g \in DOMAIN handle : handle'[g] = handle[g]
<1>1. CASE chan[c].h # 0
  <2>1. h = chan[c].h /\ UNCHANGED <<chan, handle>>
      BY <1>1 DEF HandleOf
  <2>2. RowsGoOn
      BY <2>1, RowsSame DEF Shape
  <2>3. /\ lib.running /\ Current(c) /\ chan[c].h \in DOMAIN handle
        /\ handle[chan[c].h] = [is |-> "open", row |-> chan[c].name, run |-> lib.run]
      BY <1>1 DEF Rows
  <2> QED BY <2>1, <2>2, <2>3
<1>2. CASE chan[c].h = 0
  <2> DEFINE r == [is |-> "open", row |-> chan[c].name, run |-> lib.run]
  <2>1. /\ chan \in [DOMAIN chan -> ChanRecs] /\ DOMAIN chan \subseteq Channels /\ handle \in Seq(Handles)
        /\ proj \in [Projects -> [gen : Nat, started : BOOLEAN, channels : ChanLists]] /\ lib.run \in Nat
        /\ state' = state /\ lib' = lib /\ proj' = proj
      BY DEF Shape
  <2>2. MayOpen(c) /\ handle' = Append(handle, NewHandle(c)) /\ h = Len(handle) + 1 /\ chan' = [chan EXCEPT ![c].h = h]
      BY <1>2 DEF HandleOf
  <2>3. chan[c] \in ChanRecs
      BY <2>1
  <2>4. Current(c) /\ lib.running
      BY <2>2, <2>3 DEF MayOpen, Runs, ChanRecs
  <2>5. RowAt(c.index) = chan[c].name
      BY <2>4 DEF Rows, RowAt
  <2>6. NewHandle(c) = r /\ r \in Handles /\ r.is = "open"
      BY <2>1, <2>3, <2>5 DEF NewHandle, Handles, ChanRecs
  <2> HIDE DEF r
  <2>7. /\ handle' \in Seq(Handles) /\ Len(handle) \in Nat /\ h \in Nat /\ h # 0 /\ h \notin DOMAIN handle
        /\ DOMAIN handle' = DOMAIN handle \cup {h} /\ handle'[h] = r
        /\ \A g \in DOMAIN handle : handle'[g] = handle[g]
      BY <2>1, <2>2, <2>6
  <2>8. /\ chan'[c].h = h /\ chan'[c].name = chan[c].name /\ chan'[c].project = chan[c].project /\ chan'[c].gen = chan[c].gen
        /\ chan'[c] \in ChanRecs /\ DOMAIN chan' = DOMAIN chan
        /\ \A d \in DOMAIN chan : d # c => chan'[d] = chan[d]
      BY <2>1, <2>2, <2>3, <2>7 DEF ChanRecs
  <2>9. chan' \in [DOMAIN chan' -> ChanRecs]
      BY <2>1, <2>2, <2>8
  <2>10. RowTypes'
      BY <2>1, <2>7, <2>8, <2>9 DEF RowTypes
  <2>11. ChannelsStay
      BY <2>8 DEF ChannelsStay
  <2>12. HandlesStay
    <3> SUFFICES ASSUME NEW g \in DOMAIN handle
                 PROVE  /\ g \in DOMAIN handle' /\ handle'[g] = handle[g]
                        /\ \A d \in DOMAIN chan : chan[d].h = g => chan'[d].h = g
        BY DEF HandlesStay
    <3>1. g # 0 /\ g \in DOMAIN handle' /\ handle'[g] = handle[g]
        BY <2>1, <2>7
    <3> QED BY <1>2, <2>8, <3>1
  <2>13. \A d \in DOMAIN chan : Current(d) <=> Current(d)'
      BY <2>1, <2>8 DEF Current
  <2>14. \A d \in DOMAIN chan : d # c /\ chan[d].h # 0 => chan[d].h \in DOMAIN handle /\ chan[d].h # h
    <3>1. ASSUME NEW d \in DOMAIN chan, chan[d].h # 0 PROVE chan[d].h \in DOMAIN handle
        BY <3>1 DEF Rows
    <3> QED BY <2>7, <3>1
  <2>15. ASSUME NEW d \in DOMAIN chan', chan'[d].h # 0
         PROVE  /\ lib'.running /\ Current(d)' /\ chan'[d].h \in DOMAIN handle'
                /\ handle'[chan'[d].h] = [is |-> "open", row |-> chan'[d].name, run |-> lib'.run]
                /\ \A e \in DOMAIN chan' : chan'[e].h = chan'[d].h => e = d
    <3>1. CASE d = c
      <4>1. \A e \in DOMAIN chan' : chan'[e].h = h => e = c
          BY <2>7, <2>8, <2>14
      <4>2. handle'[chan'[d].h] = [is |-> "open", row |-> chan'[d].name, run |-> lib'.run]
          BY <2>1, <2>7, <2>8, <3>1 DEF r
      <4> QED BY <2>1, <2>4, <2>7, <2>8, <2>13, <3>1, <4>1, <4>2
    <3>2. CASE d # c
      <4>1. chan'[d] = chan[d] /\ chan[d].h # 0 /\ d \in DOMAIN chan
          BY <2>8, <2>15, <3>2
      <4>2. /\ chan[d].h \in DOMAIN handle /\ chan[d].h # h
            /\ handle[chan[d].h] = [is |-> "open", row |-> chan[d].name, run |-> lib.run]
            /\ \A e \in DOMAIN chan : chan[e].h = chan[d].h => e = d
          BY <2>14, <3>2, <4>1 DEF Rows
      <4>3. \A e \in DOMAIN chan' : chan'[e].h = chan'[d].h => e = d
          BY <2>8, <4>1, <4>2
      <4> QED BY <2>1, <2>4, <2>7, <2>13, <4>1, <4>2, <4>3 DEF Rows
    <3> QED BY <3>1, <3>2
  <2>16. \A g \in DOMAIN handle' : handle'[g].is = "open" => \E d \in DOMAIN chan' : chan'[d].h = g
    <3> SUFFICES ASSUME NEW g \in DOMAIN handle', handle'[g].is = "open" PROVE \E d \in DOMAIN chan' : chan'[d].h = g
        OBVIOUS
    <3>1. CASE g = h
        BY <2>8, <3>1
    <3>2. CASE g # h
      <4>1. g \in DOMAIN handle /\ handle[g].is = "open" /\ g # 0
          BY <2>1, <2>7, <3>2
      <4>2. PICK d \in DOMAIN chan : chan[d].h = g
          BY <4>1 DEF Rows
      <4> QED BY <1>2, <2>8, <4>1, <4>2
    <3> QED BY <3>1, <3>2
  <2>17. /\ \A d \in DOMAIN chan' : d.load <= state'.gen /\ chan'[d].gen <= state'.gen
         /\ \A d \in DOMAIN chan' : Current(d)' =>
                /\ d.index \in DOMAIN lib'.rows /\ lib'.rows[d.index] = chan'[d].name
                /\ d \in Range(proj'[state'.owner].channels)
         /\ \A p \in Projects : \A i \in DOMAIN proj'[p].channels :
               LET d == proj'[p].channels[i] IN d \in DOMAIN chan' /\ d.index = i /\ chan'[d].project = p
    <3>1. \A d \in DOMAIN chan : chan'[d].name = chan[d].name /\ chan'[d].project = chan[d].project /\ chan'[d].gen = chan[d].gen
        BY <2>8
    <3> QED BY <2>1, <2>8, <2>13, <3>1 DEF Rows
  <2>18. Rows'
      BY <2>15, <2>16, <2>17 DEF Rows
  <2> QED BY <2>4, <2>7, <2>8, <2>10, <2>11, <2>12, <2>18 DEF RowsGoOn, r
<1> QED BY <1>1, <1>2

\* A handle whose close has seen the last read in it out.
LEMMA ClosedKeeps ==
    ASSUME Shape, Rows, NEW x \in DOMAIN handle, handle[x].is = "closing", Readers(x) = {},
           handle' = [handle EXCEPT ![x] = Gone], UNCHANGED <<state, lib, proj, chan>>
    PROVE  RowsGoOn /\ \A h \in DOMAIN handle : h # x => handle'[h] = handle[h]
<1>1. /\ chan \in [DOMAIN chan -> ChanRecs] /\ DOMAIN chan \subseteq Channels /\ handle \in Seq(Handles)
      /\ proj \in [Projects -> [gen : Nat, started : BOOLEAN, channels : ChanLists]]
      /\ state' = state /\ lib' = lib /\ proj' = proj /\ chan' = chan
    BY DEF Shape
<1>2. Gone \in Handles /\ Gone.is = "closed"
    BY DEF Gone, Handles
<1> HIDE DEF Gone
<1>3. /\ handle' \in Seq(Handles) /\ DOMAIN handle' = DOMAIN handle /\ handle'[x] = Gone
      /\ \A h \in DOMAIN handle : h # x => handle'[h] = handle[h]
    BY <1>1, <1>2
<1>4. RowTypes'
    BY <1>1, <1>3 DEF RowTypes
<1>5. ChannelsStay
    BY <1>1 DEF ChannelsStay
<1>6. HandlesStay
  <2> SUFFICES ASSUME NEW h \in DOMAIN handle
               PROVE  /\ h \in DOMAIN handle'
                      /\ handle'[h].is = "closed" => handle[h].is = "closed" \/ Readers(h) = {}
                      /\ handle'[h].is # "closed" =>
                            handle[h].is # "closed" /\ handle'[h].row = handle[h].row /\ handle'[h].run = handle[h].run
                      /\ handle'[h].is = "open" => handle[h].is = "open"
      BY <1>1 DEF HandlesStay
  <2>1. CASE h = x
      BY <1>2, <1>3, <2>1
  <2>2. CASE h # x
      BY <1>3, <2>2
  <2> QED BY <2>1, <2>2
<1>7. \A c \in DOMAIN chan : Current(c) <=> Current(c)'
    BY <1>1 DEF Current
<1>8. \A c \in DOMAIN chan : chan[c].h # 0 => chan[c].h # x
  <2> SUFFICES ASSUME NEW c \in DOMAIN chan, chan[c].h # 0 PROVE chan[c].h # x
      OBVIOUS
  <2>1. handle[chan[c].h] = [is |-> "open", row |-> chan[c].name, run |-> lib.run]
      BY DEF Rows
  <2> QED BY <2>1
<1>9. \A c \in DOMAIN chan' : chan'[c].h # 0 =>
          /\ lib'.running /\ Current(c)' /\ chan'[c].h \in DOMAIN handle'
          /\ handle'[chan'[c].h] = [is |-> "open", row |-> chan'[c].name, run |-> lib'.run]
          /\ \A d \in DOMAIN chan' : chan'[d].h = chan'[c].h => d = c
    BY <1>1, <1>3, <1>7, <1>8 DEF Rows
<1>10. \A h \in DOMAIN handle' : handle'[h].is = "open" => \E c \in DOMAIN chan' : chan'[c].h = h
    BY <1>1, <1>2, <1>3 DEF Rows
<1>11. Rows'
    BY <1>1, <1>7, <1>9, <1>10 DEF Rows
<1> QED BY <1>3, <1>4, <1>5, <1>6, <1>11 DEF RowsGoOn

\* Without a run no channel has a handle.
LEMMA NoneHeld == ASSUME Rows, ~lib.running PROVE \A c \in DOMAIN chan : chan[c].h = 0
BY DEF Rows

\* A project is read again: what is still at its position under its name is current again.
LEMMA LoadKeeps ==
    ASSUME Shape, Runs, Rows, NEW p \in Projects, NEW rows \in Layouts, LoadInto(p, rows),
           lib' = [lib EXCEPT !.rows = rows], state' = [state EXCEPT !.owner = p, !.gen = @ + 1]
    PROVE  RowsGoOn /\ Runs' /\ handle' = handle
<1> DEFINE old == Range(proj[p].channels)
           new == Range(NewChannels(p, rows))
<1>1. /\ chan \in [DOMAIN chan -> ChanRecs] /\ DOMAIN chan \subseteq Channels /\ handle \in Seq(Handles)
      /\ proj \in [Projects -> [gen : Nat, started : BOOLEAN, channels : ChanLists]] /\ state.gen \in Nat
    BY DEF Shape
<1>2. /\ ~lib.running /\ state.gen < MaxLoads /\ MaxLoads \in Nat
      /\ chan' = [c \in DOMAIN chan \cup new |->
                    [project |-> IF c \in DOMAIN chan THEN chan[c].project ELSE p,
                     name    |-> IF c \in DOMAIN chan THEN chan[c].name ELSE rows[c.index],
                     gen     |-> IF c \in new THEN state.gen + 1 ELSE chan[c].gen,
                     h       |-> IF c \in DOMAIN chan \ old THEN chan[c].h ELSE 0]]
      /\ handle' = [h \in DOMAIN handle |-> IF \E c \in old : chan[c].h = h THEN Gone ELSE handle[h]]
      /\ proj' = [proj EXCEPT ![p].gen = state.gen + 1, ![p].channels = NewChannels(p, rows)]
    BY ProjectAssumption DEF LoadInto
<1>3. state'.owner = p /\ state'.gen = state.gen + 1 /\ lib'.rows = rows /\ lib'.running = lib.running /\ lib'.run = lib.run
    BY DEF Shape
<1>4. \A i \in DOMAIN proj[p].channels :
          /\ proj[p].channels[i] \in DOMAIN chan /\ proj[p].channels[i].index = i
          /\ chan[proj[p].channels[i]].project = p
    BY DEF Rows
<1>5. \A c \in DOMAIN chan : chan[c].h = 0
    BY <1>2, NoneHeld
<1>6. DOMAIN NewChannels(p, rows) = DOMAIN rows /\ DOMAIN rows \subseteq Indexes(Layouts)
    BY DEF NewChannels, Indexes
<1>7. ASSUME NEW i \in DOMAIN rows
      PROVE  LET c == NewChannels(p, rows)[i]
             IN  /\ c \in Channels /\ c.index = i /\ c.load <= state.gen + 1
                 /\ c \in DOMAIN chan => chan[c].project = p /\ chan[c].name = rows[i]
  <2>1. CASE KeepsRow(p, rows, i)
    <3> DEFINE c == proj[p].channels[i]
    <3>1. i \in DOMAIN proj[p].channels /\ chan[c].name = rows[i]
        BY <2>1 DEF KeepsRow
    <3>2. c \in DOMAIN chan /\ c.index = i /\ chan[c].project = p
        BY <1>4, <3>1
    <3>3. NewChannels(p, rows)[i] = c
        BY <2>1 DEF NewChannels
    <3> HIDE DEF c
    <3>4. c \in Channels /\ c.load <= state.gen /\ c.load \in Nat
        BY <1>1, <1>2, <3>2 DEF Rows, Channels
    <3>5. c.load <= state.gen + 1
        BY <1>1, <3>4
    <3> QED BY <3>1, <3>2, <3>3, <3>4, <3>5
  <2>2. CASE ~KeepsRow(p, rows, i)
    <3> DEFINE c == [load |-> state.gen + 1, index |-> i]
    <3>1. NewChannels(p, rows)[i] = c
        BY <2>2 DEF NewChannels
    <3>2. c \in Channels /\ c.index = i /\ c.load = state.gen + 1
        BY <1>1, <1>2, <1>6 DEF Channels
    <3> HIDE DEF c
    <3>3. c \notin DOMAIN chan
        BY <1>1, <3>2 DEF Rows
    <3> QED BY <1>1, <3>1, <3>2, <3>3
  <2> QED BY <2>1, <2>2
<1>8. \A c \in new : /\ c \in Channels /\ c.index \in DOMAIN rows /\ c.load <= state.gen + 1
                     /\ NewChannels(p, rows)[c.index] = c
                     /\ c \in DOMAIN chan => chan[c].project = p /\ chan[c].name = rows[c.index]
    BY <1>6, <1>7 DEF Range
<1>9. \A i \in DOMAIN rows : NewChannels(p, rows)[i] \in new
    BY <1>6 DEF Range
<1>10. NewChannels(p, rows) \in ChanLists
  <2>1. NewChannels(p, rows) \in [DOMAIN rows -> Channels]
      BY <1>7 DEF NewChannels
  <2> QED BY <1>6, <2>1 DEF ChanLists
<1>11. old \subseteq DOMAIN chan
    BY <1>4 DEF Range
<1> HIDE DEF old, new
<1>12. ASSUME NEW c \in DOMAIN chan'
       PROVE  /\ chan'[c] \in ChanRecs /\ c \in Channels /\ c.load <= state.gen + 1 /\ chan'[c].h = 0
              /\ c \in DOMAIN chan => chan'[c].project = chan[c].project /\ chan'[c].name = chan[c].name
              /\ c \in new => /\ chan'[c].gen = state.gen + 1 /\ chan'[c].project = p /\ chan'[c].name = rows[c.index]
                              /\ c.index \in DOMAIN rows
              /\ c \notin new => chan'[c].gen <= state.gen
  <2>1. c \in DOMAIN chan \/ c \in new
      BY <1>2
  <2>2. chan'[c] = [project |-> IF c \in DOMAIN chan THEN chan[c].project ELSE p,
                    name    |-> IF c \in DOMAIN chan THEN chan[c].name ELSE rows[c.index],
                    gen     |-> IF c \in new THEN state.gen + 1 ELSE chan[c].gen,
                    h       |-> IF c \in DOMAIN chan \ old THEN chan[c].h ELSE 0]
      BY <1>2
  <2>3. c \in DOMAIN chan => chan[c].project \in Projects /\ chan[c].name \in RowNames /\ chan[c].gen \in Nat /\ c \in Channels
      BY <1>1 DEF ChanRecs
  <2>4. c \in new => rows[c.index] \in RowNames
      BY <1>8 DEF RowNames, Names, Range
  <2>5. c \in DOMAIN chan => c.load <= state.gen /\ chan[c].gen <= state.gen /\ c.load \in Nat
      BY <1>1, <1>2 DEF Rows, Channels
  <2>6. c.load <= state.gen + 1
      BY <1>1, <1>8, <2>1, <2>5
  <2>7. chan'[c] \in ChanRecs
      BY <1>1, <1>5, <2>1, <2>2, <2>3, <2>4 DEF ChanRecs
  <2> QED BY <1>5, <1>8, <2>1, <2>2, <2>3, <2>5, <2>6, <2>7
<1>13. chan' \in [DOMAIN chan' -> ChanRecs] /\ DOMAIN chan' \subseteq Channels /\ DOMAIN chan' = DOMAIN chan \cup new
    BY <1>2, <1>12
<1>14. handle' = handle
  <2>1. \A h \in DOMAIN handle : h # 0
      BY <1>1
  <2>2. \A h \in DOMAIN handle : handle'[h] = handle[h]
      BY <1>2, <1>5, <1>11, <2>1
  <2> QED BY <1>1, <1>2, <2>2
<1>15. /\ proj' \in [Projects -> [gen : Nat, started : BOOLEAN, channels : ChanLists]]
       /\ proj'[p].channels = NewChannels(p, rows) /\ (proj'[p].started <=> proj[p].started)
       /\ \A q \in Projects \ {p} : proj'[q] = proj[q]
  <2> DEFINE L == NewChannels(p, rows)
             g == state.gen + 1
             r == [proj[p] EXCEPT !.gen = g, !.channels = L]
  <2>1. proj[p] \in [gen : Nat, started : BOOLEAN, channels : ChanLists] /\ L \in ChanLists /\ g \in Nat
      BY <1>1, <1>10
  <2>2. proj' = [proj EXCEPT ![p] = r]
      BY <1>1, <1>2
  <2> HIDE DEF L, g
  <2>3. r \in [gen : Nat, started : BOOLEAN, channels : ChanLists]
      BY <2>1
  <2>4. r.channels = L /\ (r.started <=> proj[p].started)
      BY <2>1
  <2> HIDE DEF r
  <2> QED BY <1>1, <2>2, <2>3, <2>4 DEF L
<1>16. Runs'
    BY <1>2, <1>3, <1>15 DEF Runs
<1>17. RowTypes'
    BY <1>1, <1>13, <1>14, <1>15 DEF RowTypes
<1>18. ChannelsStay
    BY <1>2, <1>12, <1>13 DEF ChannelsStay
<1>19. HandlesStay
    BY <1>5, <1>14, <1>12, <1>13 DEF HandlesStay
<1>20. \A c \in DOMAIN chan' : c.load <= state'.gen /\ chan'[c].gen <= state'.gen
  <2> SUFFICES ASSUME NEW c \in DOMAIN chan' PROVE c.load <= state'.gen /\ chan'[c].gen <= state'.gen
      OBVIOUS
  <2>1. chan'[c].gen \in Nat /\ c.load <= state.gen + 1 /\ (chan'[c].gen = state.gen + 1 \/ chan'[c].gen <= state.gen)
      BY <1>12 DEF ChanRecs
  <2> QED BY <1>1, <1>3, <2>1
<1>21. \A c \in DOMAIN chan' : Current(c)' =>
          /\ c.index \in DOMAIN lib'.rows /\ lib'.rows[c.index] = chan'[c].name
          /\ c \in Range(proj'[state'.owner].channels)
  <2> SUFFICES ASSUME NEW c \in DOMAIN chan', chan'[c].gen = state'.gen
               PROVE  /\ c.index \in DOMAIN lib'.rows /\ lib'.rows[c.index] = chan'[c].name
                      /\ c \in Range(proj'[state'.owner].channels)
      BY DEF Current
  <2>1. c \in new
      BY <1>1, <1>3, <1>12
  <2>2. c \in Range(NewChannels(p, rows))
      BY <2>1 DEF new
  <2> QED BY <1>3, <1>12, <1>15, <2>1, <2>2
<1>22. ASSUME NEW q \in Projects, NEW i \in DOMAIN proj'[q].channels
       PROVE  LET c == proj'[q].channels[i] IN c \in DOMAIN chan' /\ c.index = i /\ chan'[c].project = q
  <2>1. CASE q = p
    <3>1. i \in DOMAIN rows /\ proj'[q].channels[i] = NewChannels(p, rows)[i]
        BY <1>6, <1>15, <1>22, <2>1
    <3>2. NewChannels(p, rows)[i] \in new /\ NewChannels(p, rows)[i].index = i
        BY <1>7, <1>9, <3>1
    <3> QED BY <1>12, <1>13, <2>1, <3>1, <3>2
  <2>2. CASE q # p
    <3>1. i \in DOMAIN proj[q].channels /\ proj'[q].channels[i] = proj[q].channels[i]
        BY <1>15, <1>22, <2>2
    <3>2. /\ proj[q].channels[i] \in DOMAIN chan /\ proj[q].channels[i].index = i
          /\ chan[proj[q].channels[i]].project = q
        BY <3>1 DEF Rows
    <3> QED BY <1>12, <1>13, <3>1, <3>2
  <2> QED BY <2>1, <2>2
<1>23. \A h \in DOMAIN handle' : handle'[h].is # "open"
  <2> SUFFICES ASSUME NEW h \in DOMAIN handle, handle[h].is = "open" PROVE FALSE
      BY <1>14
  <2>1. \E c \in DOMAIN chan : chan[c].h = h
      BY DEF Rows
  <2>2. h # 0
      BY <1>1
  <2> QED BY <1>5, <2>1, <2>2
<1>24. Rows'
    BY <1>12, <1>20, <1>21, <1>22, <1>23 DEF Rows
<1> QED BY <1>14, <1>16, <1>17, <1>18, <1>19, <1>24 DEF RowsGoOn

-------------------------------------------------------------------------------
(* The tables from one step to the next *)

\* The numbers of the runs only grow; with the number, the run is the same.
RunsStay ==
    /\ lib.run <= lib'.run /\ state.run <= state'.run
    /\ lib'.running /\ lib'.run = lib.run =>
          lib.running /\ state'.owner = state.owner /\ lib'.names = lib.names
    /\ lib.running /\ state'.run = state.run =>
          lib'.running /\ lib'.run = lib.run /\ state'.owner = state.owner /\ state'.gen = state.gen

LoadTypes ==
    /\ state \in [owner : Projects \cup {Nobody}, gen : Nat, run : Nat]
    /\ lib \in [rows : RowsLoaded, running : BOOLEAN, releasing : BOOLEAN, run : Nat,
                names : NamesListed, lists : Listings]

Stays == ItemsStay /\ ChannelsStay /\ HandlesStay /\ RunsStay

TablesGoOn == /\ LoadTypes' /\ RowTypes' /\ ItemTypes'
              /\ Runs' /\ Rows' /\ Lists'
              /\ Stays

\* What was listed goes on with the run, and is of another once its number has moved.
LEMMA ListsGoOn ==
    ASSUME Shape, Lists, UNCHANGED <<item, listing>>, DOMAIN chan \subseteq DOMAIN chan',
           (state'.run = state.run /\ lib'.names = lib.names) \/ state'.run = state.run + 1
    PROVE  ItemTypes' /\ Lists' /\ ItemsStay
<1>1. ItemTypes' /\ ItemsStay
    BY DEF Shape, ItemTypes, ItemsStay
<1>2. \A k \in DOMAIN item : k.run \in Nat /\ item[k].run \in Nat /\ state.run \in Nat
    BY DEF Shape, ItemIds, ItemRecs
<1>3. CASE state'.run = state.run /\ lib'.names = lib.names
    BY <1>1, <1>3 DEF Lists, IsMessage
<1>4. CASE state'.run = state.run + 1
  <2>1. \A k \in DOMAIN item : /\ k.run < state'.run /\ item[k].run < state'.run
                               /\ k.run <= state'.run /\ item[k].run <= state'.run
                               /\ k.run # state'.run /\ item[k].run # state'.run
    <3> SUFFICES ASSUME NEW k \in DOMAIN item
                 PROVE  k.run < state.run + 1 /\ item[k].run < state.run + 1
        BY <1>2, <1>4
    <3>1. k.run <= state.run /\ item[k].run <= state.run
        BY DEF Lists
    <3> QED BY <1>2, <3>1
  <2>2. \A k \in DOMAIN item : IsMessage(k) => k.home[2] \in DOMAIN chan'
      BY DEF Lists
  <2>3. \A home \in Homes : \A i \in DOMAIN listing[home].items :
            LET k == listing[home].items[i] IN k \in DOMAIN item /\ k.home = home /\ k.index = i
      BY DEF Lists
  <2> QED BY <1>1, <2>1, <2>2, <2>3 DEF Lists, IsMessage
<1> QED BY <1>3, <1>4

\* A step that loads, starts and stops nothing.
LEMMA RunGoesOn ==
    ASSUME Shape, Runs, Lists, UNCHANGED <<state, lib, proj>>, RowsGoOn,
           UNCHANGED <<item, listing>> \/ \E home : Made(home) /\ Relist(home)
    PROVE  TablesGoOn
<1>1. DOMAIN chan \subseteq DOMAIN chan'
    BY DEF RowsGoOn, ChannelsStay
<1>2. ItemTypes' /\ Lists' /\ ItemsStay
  <2>1. CASE UNCHANGED <<item, listing>>
      BY <1>1, <2>1, ListsGoOn
  <2>2. ASSUME NEW home, Made(home), Relist(home)
        PROVE  ItemTypes' /\ Lists' /\ ItemsStay
      BY <1>1, <2>2, RelistKeeps
  <2> QED BY <2>1, <2>2
<1>3. LoadTypes' /\ RunsStay
    BY DEF Shape, LoadTypes, RunsStay
<1>4. Runs'
    BY DEF Runs
<1> QED BY <1>2, <1>3, <1>4 DEF TablesGoOn, RowsGoOn, Stays

LEMMA RunLetsGo ==
    ASSUME Shape, Runs, Rows, Lists, Released
    PROVE  TablesGoOn
<1>1. /\ lib'.rows = lib.rows /\ (lib'.running <=> lib.running) /\ lib'.run = lib.run /\ lib'.names = lib.names
      /\ LoadTypes'
    BY DEF Released, Shape, LoadTypes
<1>2. /\ state' = state /\ proj' = proj /\ chan' = chan /\ item' = item /\ listing' = listing /\ handle' = handle
    BY DEF Released
<1>3. lib'.running \/ \A c \in DOMAIN chan : chan[c].h = 0
    BY <1>1, NoneHeld
<1>4. proj' \in [Projects -> [gen : Nat, started : BOOLEAN, channels : ChanLists]]
    BY <1>2 DEF Shape
<1>5. RowsGoOn
    BY <1>1, <1>2, <1>3, <1>4, RowsSame
<1>6. ItemTypes' /\ Lists' /\ ItemsStay
    BY <1>1, <1>2, ListsGoOn
<1>7. RunsStay
    BY <1>1, <1>2 DEF RunsStay, Shape
<1>8. Runs'
    BY <1>1, <1>2 DEF Runs
<1> QED BY <1>1, <1>5, <1>6, <1>7, <1>8 DEF TablesGoOn, RowsGoOn, Stays

LEMMA LoadGoes ==
    ASSUME Shape, Runs, Rows, Lists, NEW t \in Threads, NEW p \in Projects, Load(t, p)
    PROVE  TablesGoOn /\ handle' = handle /\ \A q \in Projects : proj[q].started => proj'[q].started
<1>1. PICK rows \in Layouts : /\ LoadInto(p, rows) /\ lib' = [lib EXCEPT !.rows = rows]
                              /\ state' = [state EXCEPT !.owner = p, !.gen = @ + 1]
    BY DEF Load
<1>2. RowsGoOn /\ Runs' /\ handle' = handle
    BY <1>1, LoadKeeps
<1>3. /\ ~lib.running /\ (lib'.running <=> lib.running) /\ lib'.run = lib.run /\ lib'.names = lib.names
      /\ state'.run = state.run /\ item' = item /\ listing' = listing
    BY <1>1 DEF Load, LoadInto, Shape
<1>4. LoadTypes'
  <2>1. rows \in RowsLoaded
      BY DEF RowsLoaded
  <2>2. lib' \in [rows : RowsLoaded, running : BOOLEAN, releasing : BOOLEAN, run : Nat,
                 names : NamesListed, lists : Listings]
      BY <1>1, <2>1 DEF Shape
  <2>3. state' \in [owner : Projects \cup {Nobody}, gen : Nat, run : Nat]
    <3>1. /\ state \in [owner : Projects \cup {Nobody}, gen : Nat, run : Nat]
          /\ p \in Projects \cup {Nobody} /\ state.gen + 1 \in Nat
        BY DEF Shape
    <3>2. state' = [state EXCEPT !.owner = p, !.gen = state.gen + 1]
        BY <1>1
    <3> QED BY <3>1, <3>2
  <2> QED BY <2>2, <2>3 DEF LoadTypes
<1>5. DOMAIN chan \subseteq DOMAIN chan'
    BY <1>2 DEF RowsGoOn, ChannelsStay
<1>6. ItemTypes' /\ Lists' /\ ItemsStay
    BY <1>3, <1>5, ListsGoOn
<1>7. RunsStay
    BY <1>3 DEF RunsStay, Shape
<1>8. \A q \in Projects : ~proj[q].started
    BY <1>3 DEF Runs
<1> QED BY <1>2, <1>4, <1>6, <1>7, <1>8 DEF TablesGoOn, RowsGoOn, Stays

LEMMA StartGoes ==
    ASSUME Shape, Runs, Rows, Lists, NEW t \in Threads, NEW p \in Projects, Start(t, p)
    PROVE  TablesGoOn /\ handle' = handle /\ \A q \in Projects : proj[q].started => proj'[q].started
<1>1. /\ lib \in [rows : RowsLoaded, running : BOOLEAN, releasing : BOOLEAN, run : Nat,
                  names : NamesListed, lists : Listings]
      /\ state \in [owner : Projects \cup {Nobody}, gen : Nat, run : Nat]
      /\ proj \in [Projects -> [gen : Nat, started : BOOLEAN, channels : ChanLists]]
    BY DEF Shape
<1>2. /\ state.owner = p /\ state.gen = proj[p].gen /\ ~lib.running
      /\ state' = [state EXCEPT !.run = @ + 1] /\ proj' = [proj EXCEPT ![p].started = TRUE]
      /\ chan' = chan /\ item' = item /\ listing' = listing /\ handle' = handle
    BY DEF Start
<1>3. PICK names \in Databases : lib' = [lib EXCEPT !.running = TRUE, !.run = @ + 1, !.names = names]
    BY DEF Start
<1>4. /\ lib'.running /\ lib'.run = lib.run + 1 /\ lib'.rows = lib.rows
      /\ state'.owner = p /\ state'.gen = state.gen /\ state'.run = state.run + 1
      /\ LoadTypes'
  <2>1. names \in NamesListed /\ lib.run + 1 \in Nat /\ state.run + 1 \in Nat
      BY <1>1 DEF NamesListed
  <2>2. /\ lib' \in [rows : RowsLoaded, running : BOOLEAN, releasing : BOOLEAN, run : Nat,
                    names : NamesListed, lists : Listings]
        /\ lib'.running /\ lib'.run = lib.run + 1 /\ lib'.rows = lib.rows
      BY <1>1, <1>3, <2>1
  <2>3. state' \in [owner : Projects \cup {Nobody}, gen : Nat, run : Nat]
      BY <1>1, <1>2, <2>1
  <2>4. state'.owner = state.owner /\ state'.gen = state.gen /\ state'.run = state.run + 1
      BY <1>1, <1>2
  <2> QED BY <1>2, <2>2, <2>3, <2>4 DEF LoadTypes
<1>5. /\ proj' \in [Projects -> [gen : Nat, started : BOOLEAN, channels : ChanLists]]
      /\ \A q \in Projects : proj'[q].gen = proj[q].gen /\ proj'[q].channels = proj[q].channels
      /\ proj'[p].started /\ \A q \in Projects : proj[q].started => proj'[q].started
      /\ \A q \in Projects \ {p} : proj'[q] = proj[q]
    BY <1>1, <1>2
<1>6. \A c \in DOMAIN chan : chan[c].h = 0
    BY <1>2, NoneHeld
<1>7. RowsGoOn
    BY <1>2, <1>4, <1>5, <1>6, RowsSame
<1>8. ItemTypes' /\ Lists' /\ ItemsStay
    BY <1>2, <1>4, ListsGoOn
<1>9. RunsStay
    BY <1>1, <1>2, <1>4 DEF RunsStay
<1>10. Runs'
    BY <1>2, <1>4, <1>5 DEF Runs
<1> QED BY <1>2, <1>4, <1>5, <1>7, <1>8, <1>9, <1>10 DEF TablesGoOn, RowsGoOn, Stays

\* A stop ends with no handle left: the channels it closed are all that were current.
LEMMA StopGoes ==
    ASSUME Shape, Runs, Rows, Lists, Locked, NEW t \in Threads, StopEnds(t)
    PROVE  TablesGoOn
<1> DEFINE p == thread[t].project
<1>1. /\ lib \in [rows : RowsLoaded, running : BOOLEAN, releasing : BOOLEAN, run : Nat,
                  names : NamesListed, lists : Listings]
      /\ state \in [owner : Projects \cup {Nobody}, gen : Nat, run : Nat]
      /\ proj \in [Projects -> [gen : Nat, started : BOOLEAN, channels : ChanLists]]
    BY DEF Shape
<1>2. /\ thread[t].pc = "stopping" /\ \A c \in Range(proj[p].channels) : chan[c].h = 0
      /\ state' = [state EXCEPT !.run = @ + 1] /\ proj' = [proj EXCEPT ![p].started = FALSE]
      /\ chan' = chan /\ item' = item /\ listing' = listing /\ handle' = handle
    BY DEF StopEnds
<1>3. PICK releasing \in BOOLEAN : lib' = [lib EXCEPT !.running = FALSE, !.names = <<>>, !.releasing = releasing]
    BY DEF StopEnds
<1>4. /\ ~lib'.running /\ lib'.run = lib.run /\ lib'.rows = lib.rows
      /\ state'.owner = state.owner /\ state'.gen = state.gen /\ state'.run = state.run + 1
      /\ LoadTypes'
  <2>1. <<>> \in NamesListed /\ state.run + 1 \in Nat
      BY <1>1 DEF NamesListed
  <2>2. /\ lib' \in [rows : RowsLoaded, running : BOOLEAN, releasing : BOOLEAN, run : Nat,
                    names : NamesListed, lists : Listings]
        /\ ~lib'.running /\ lib'.run = lib.run /\ lib'.rows = lib.rows
      BY <1>1, <1>3, <2>1
  <2>3. state' \in [owner : Projects \cup {Nobody}, gen : Nat, run : Nat]
      BY <1>1, <1>2, <2>1
  <2>4. state'.owner = state.owner /\ state'.gen = state.gen /\ state'.run = state.run + 1
      BY <1>1, <1>2
  <2> QED BY <2>2, <2>3, <2>4 DEF LoadTypes
<1>5. p \in Projects /\ proj[p].started
    BY <1>2 DEF Locked, Holds
<1>6. state.owner = p
    BY <1>5 DEF Runs
<1> HIDE DEF p
<1>7. /\ proj' \in [Projects -> [gen : Nat, started : BOOLEAN, channels : ChanLists]]
      /\ \A q \in Projects : proj'[q].gen = proj[q].gen /\ proj'[q].channels = proj[q].channels
      /\ ~proj'[p].started /\ \A q \in Projects \ {p} : proj'[q] = proj[q]
    BY <1>1, <1>2, <1>5
<1>8. \A c \in DOMAIN chan : chan[c].h = 0
  <2> SUFFICES ASSUME NEW c \in DOMAIN chan, chan[c].h # 0 PROVE FALSE
      OBVIOUS
  <2>1. Current(c)
      BY DEF Rows
  <2>2. c \in Range(proj[state.owner].channels)
      BY <2>1 DEF Rows
  <2> QED BY <1>2, <1>6, <2>2
<1>9. RowsGoOn
    BY <1>2, <1>4, <1>7, <1>8, RowsSame
<1>10. ItemTypes' /\ Lists' /\ ItemsStay
    BY <1>2, <1>4, ListsGoOn
<1>11. RunsStay
    BY <1>1, <1>2, <1>4 DEF RunsStay
<1>12. \A q \in Projects : ~proj'[q].started
    BY <1>6, <1>7 DEF Runs
<1>13. Runs'
    BY <1>4, <1>12 DEF Runs
<1> QED BY <1>4, <1>9, <1>10, <1>11, <1>13 DEF TablesGoOn, RowsGoOn, Stays

-------------------------------------------------------------------------------
(* The threads from one step to the next *)

LEMMA IdleIs == Idle \in Calls /\ Idle.pc = "idle"
BY DEF Idle, Calls, Pcs

\* A thread that does not step keeps what it holds to.
LEMMA KeepsOn ==
    ASSUME Shape, Rows, Lists, TablesGoOn, NEW u \in Threads, Keeps(u), thread'[u] = thread[u]
    PROVE  Keeps(u)'
<1> DEFINE w == thread[u]
<1>1. /\ lib.run \in Nat /\ lib'.run \in Nat /\ state.run \in Nat /\ state'.run \in Nat /\ w.run \in Nat
      /\ handle \in Seq(Handles) /\ thread'[u] = w
  <2>1. w \in Calls /\ handle \in Seq(Handles)
      BY DEF Shape
  <2> QED BY <2>1 DEF Shape, TablesGoOn, LoadTypes, Calls
<1>2. ItemsStay /\ ChannelsStay /\ HandlesStay /\ RunsStay /\ Rows'
    BY DEF TablesGoOn, Stays
<1>3. \A k \in DOMAIN item : k \in DOMAIN item' /\ item'[k].name = item[k].name
    BY <1>2 DEF ItemsStay
<1>4. Sends(u)'
  <2> SUFFICES ASSUME w.pc = "sending"
               PROVE  /\ w.item \in DOMAIN item' /\ IsMessage(w.item) /\ w.h \in DOMAIN handle'
                      /\ handle'[w.h].is = "open" => w.run = lib'.run /\ chan'[w.item.home[2]].h = w.h
      BY <1>1 DEF Sends, IsMessage
  <2>1. /\ w.item \in DOMAIN item /\ IsMessage(w.item) /\ w.h \in DOMAIN handle
        /\ handle[w.h].is = "open" => w.run = lib.run /\ chan[w.item.home[2]].h = w.h
      BY DEF Keeps, Sends
  <2>2. w.h \in DOMAIN handle' /\ w.item.home[2] \in DOMAIN chan /\ w.h # 0
      BY <1>1, <1>2, <2>1 DEF HandlesStay, Lists
  <2>3. ASSUME handle'[w.h].is = "open"
        PROVE  w.run = lib'.run /\ chan'[w.item.home[2]].h = w.h
    <3> DEFINE c == w.item.home[2]
    <3>1. c \in DOMAIN chan /\ c \in DOMAIN chan' /\ handle'[w.h].is # "closed"
        BY <1>2, <2>2, <2>3 DEF ChannelsStay
    <3>2. handle[w.h].is = "open" /\ chan[c].h = w.h /\ chan'[c].h = w.h /\ handle'[w.h].run = handle[w.h].run
        BY <1>2, <2>1, <2>3, <3>1 DEF HandlesStay
    <3>3. handle[w.h] = [is |-> "open", row |-> chan[c].name, run |-> lib.run]
      <4>1. c \in DOMAIN chan /\ chan[c].h # 0
          BY <2>2, <3>1, <3>2
      <4> HIDE DEF c
      <4>2. handle[chan[c].h] = [is |-> "open", row |-> chan[c].name, run |-> lib.run]
          BY <4>1 DEF Rows
      <4> QED BY <3>2, <4>2
    <3>4. handle'[w.h] = [is |-> "open", row |-> chan'[c].name, run |-> lib'.run]
      <4>1. c \in DOMAIN chan' /\ chan'[c].h # 0 /\ Rows'
          BY <1>2, <2>2, <3>1, <3>2
      <4> HIDE DEF c
      <4>2. handle'[chan'[c].h] = [is |-> "open", row |-> chan'[c].name, run |-> lib'.run]
          BY <4>1 DEF Rows
      <4> QED BY <3>2, <4>2
    <3> QED BY <2>1, <3>2, <3>3, <3>4
  <2> QED BY <1>3, <2>1, <2>2, <2>3
<1>5. Fires(u)'
  <2> SUFFICES ASSUME w.pc = "firing"
               PROVE  /\ w.item \in DOMAIN item' /\ IsGenerator(w.item) /\ w.run <= lib'.run
                      /\ lib'.running /\ w.run = lib'.run =>
                            /\ state'.owner = w.item.home[2] /\ w.item.index \in DOMAIN lib'.names
                            /\ lib'.names[w.item.index] = item'[w.item].name
      BY <1>1 DEF Fires, IsGenerator
  <2>1. /\ w.item \in DOMAIN item /\ IsGenerator(w.item) /\ w.run <= lib.run
        /\ lib.running /\ w.run = lib.run =>
              /\ state.owner = w.item.home[2] /\ w.item.index \in DOMAIN lib.names
              /\ lib.names[w.item.index] = item[w.item].name
      BY DEF Keeps, Fires
  <2>2. lib.run <= lib'.run /\ w.run <= lib'.run
      BY <1>1, <1>2, <2>1 DEF RunsStay
  <2>3. ASSUME lib'.running, w.run = lib'.run
        PROVE  lib.running /\ w.run = lib.run /\ state'.owner = state.owner /\ lib'.names = lib.names
    <3>1. lib'.run = lib.run
        BY <1>1, <2>1, <2>2, <2>3
    <3> QED BY <1>2, <2>3, <3>1 DEF RunsStay
  <2> QED BY <1>3, <2>1, <2>2, <2>3
<1>6. Awaits(u)'
  <2> SUFFICES ASSUME w.pc \in {"waiting", "looping", "reading", "decoding"}
               PROVE  /\ w.chan \in DOMAIN chan' /\ w.run <= state'.run
                      /\ w.item # Nothing =>
                            /\ w.item \in DOMAIN item' /\ IsMessage(w.item) /\ w.chan = w.item.home[2]
                            /\ w.run = state'.run => item'[w.item].run = state'.run
                      /\ w.pc = "decoding" => w.item # Nothing
      BY <1>1 DEF Awaits, IsMessage
  <2>1. /\ w.chan \in DOMAIN chan /\ w.run <= state.run
        /\ w.item # Nothing =>
              /\ w.item \in DOMAIN item /\ IsMessage(w.item) /\ w.chan = w.item.home[2]
              /\ w.run = state.run => item[w.item].run = state.run
        /\ w.pc = "decoding" => w.item # Nothing
      BY DEF Keeps, Awaits
  <2>2. w.run <= state'.run /\ (w.run = state'.run => state'.run = state.run)
      BY <1>1, <1>2, <2>1 DEF RunsStay
  <2>3. w.item # Nothing /\ w.run = state'.run => item'[w.item].run = state'.run
      BY <1>2, <2>1, <2>2 DEF ItemsStay
  <2> QED BY <1>2, <1>3, <2>1, <2>2, <2>3 DEF ChannelsStay
<1>7. Reads(u)'
  <2> SUFFICES ASSUME w.pc \in {"looping", "reading", "decoding"}
               PROVE  /\ w.h \in DOMAIN handle'
                      /\ w.pc = "reading" => handle'[w.h].is # "closed"
                      /\ w.run = state'.run =>
                            /\ lib'.running /\ Current(w.chan)'
                            /\ handle'[w.h].is # "closed" =>
                                  handle'[w.h].row = chan'[w.chan].name /\ handle'[w.h].run = lib'.run
      BY <1>1 DEF Reads, Current
  <2>1. /\ w.h \in DOMAIN handle
        /\ w.pc = "reading" => handle[w.h].is # "closed"
        /\ w.run = state.run =>
              /\ lib.running /\ Current(w.chan)
              /\ handle[w.h].is # "closed" =>
                    handle[w.h].row = chan[w.chan].name /\ handle[w.h].run = lib.run
      BY DEF Keeps, Reads
  <2>2. w.chan \in DOMAIN chan /\ w.run <= state.run
      BY DEF Keeps, Awaits
  <2>3. w.pc = "reading" => Readers(w.h) # {}
      BY DEF Readers
  <2>4. /\ w.h \in DOMAIN handle' /\ (w.pc = "reading" => handle'[w.h].is # "closed")
        /\ handle'[w.h].is # "closed" =>
              handle[w.h].is # "closed" /\ handle'[w.h].row = handle[w.h].row /\ handle'[w.h].run = handle[w.h].run
      BY <1>2, <2>1, <2>3 DEF HandlesStay
  <2>5. ASSUME w.run = state'.run
        PROVE  /\ lib'.running /\ Current(w.chan)' /\ lib'.run = lib.run /\ chan'[w.chan].name = chan[w.chan].name
               /\ w.run = state.run
    <3>1. state'.run = state.run /\ w.run = state.run
        BY <1>1, <1>2, <2>2, <2>5 DEF RunsStay
    <3>2. lib.running /\ Current(w.chan)
        BY <2>1, <3>1
    <3>3. lib'.running /\ lib'.run = lib.run /\ state'.owner = state.owner /\ state'.gen = state.gen
        BY <1>2, <3>1, <3>2 DEF RunsStay
    <3>4. chan'[w.chan].name = chan[w.chan].name /\ chan'[w.chan].project = chan[w.chan].project
          /\ chan'[w.chan].gen = chan[w.chan].gen
        BY <1>2, <2>2, <3>2 DEF ChannelsStay
    <3> QED BY <3>1, <3>2, <3>3, <3>4 DEF Current
  <2> QED BY <2>1, <2>4, <2>5
<1> QED BY <1>4, <1>5, <1>6, <1>7 DEF Keeps

\* Nor does it lose the lock, or what it has done under it.
LEMMA HoldsOn ==
    ASSUME Shape, Locked, NEW u \in Threads, thread'[u] = thread[u], NEW t, t # u,
           \/ {lock, lock'} \subseteq {Nobody, t}
           \/ UNCHANGED <<lock, proj, handle>>
    PROVE  Holds(u)'
<1>1. Holds(u) /\ u # Nobody
    BY ProjectAssumption DEF Locked
<1>2. CASE {lock, lock'} \subseteq {Nobody, t}
  <2>1. lock # u /\ lock' # u
      BY <1>1, <1>2
  <2>2. thread[u].pc \notin {"stopping", "closing"}
      BY <1>1, <2>1 DEF Holds
  <2> QED BY <2>1, <2>2 DEF Holds
<1>3. CASE UNCHANGED <<lock, proj, handle>>
    BY <1>1, <1>3 DEF Holds
<1> QED BY <1>2, <1>3

\* A step of t: only what it takes out of the step, and what it serves, is left to see.
LEMMA StepKeeps ==
    ASSUME IInv, TablesGoOn, NEW t, lock' \in Threads \cup {Nobody}, thread' \in [Threads -> Calls],
           \A u \in Threads \ {t} : thread'[u] = thread[u],
           \/ {lock, lock'} \subseteq {Nobody, t}
           \/ UNCHANGED <<lock, proj, handle>>,
           t \in Threads => (Holds(t) /\ Keeps(t))',
           ReachesItsOwn'
    PROVE  IInv'
<1>1. Shape'
    BY DEF TablesGoOn, LoadTypes, RowTypes, ItemTypes, Shape
<1>2. Shape /\ Locked /\ Rows /\ Lists /\ \A u \in Threads : Keeps(u)
    BY DEF IInv
<1>3. ASSUME NEW u \in Threads PROVE Holds(u)' /\ Keeps(u)'
  <2>1. CASE u = t
      BY <2>1
  <2>2. CASE u # t
    <3>1. thread'[u] = thread[u]
        BY <2>2
    <3>2. Keeps(u)'
        BY <1>2, <3>1, KeepsOn
    <3>3. Holds(u)'
        BY <1>2, <2>2, <3>1, HoldsOn
    <3> QED BY <3>2, <3>3
  <2> QED BY <2>1, <2>2
<1>4. Locked' /\ (\A u \in Threads : Keeps(u))'
    BY <1>3 DEF Locked
<1>5. Runs' /\ Rows' /\ Lists'
    BY DEF TablesGoOn
<1> QED BY <1>1, <1>4, <1>5 DEF IInv

-------------------------------------------------------------------------------
(* The steps that carry no call out *)

LEMMA TablesSame ==
    ASSUME IInv, UNCHANGED <<state, lib, proj, chan, item, listing, handle>>
    PROVE  TablesGoOn
<1>1. Shape /\ Runs /\ Rows /\ Lists
    BY DEF IInv
<1>2. RowsGoOn
    BY <1>1, RowsSame DEF Shape
<1> QED BY <1>1, <1>2, RunGoesOn

LEMMA ThreadMoves ==
    ASSUME Shape, NEW t \in Threads, NEW r \in Calls, thread' = [thread EXCEPT ![t] = r]
    PROVE  /\ thread' \in [Threads -> Calls] /\ thread'[t] = r
           /\ \A u \in Threads \ {t} : thread'[u] = thread[u]
BY DEF Shape

\* A thread between two calls holds to nothing.
LEMMA IdleHolds ==
    ASSUME NEW t \in Threads, thread'[t] = Idle, lock' # t
    PROVE  (Holds(t) /\ Keeps(t))'
BY DEF Idle, Holds, Keeps, Sends, Fires, Awaits, Reads

\* A call under one hold of the lock ends where it began.
LEMMA HoldEnds ==
    ASSUME IInv, NEW t \in Threads, Holding(t), UNCHANGED <<lock, thread>>, TablesGoOn, ReachesItsOwn'
    PROVE  IInv'
<1>1. Shape /\ lock = Nobody /\ lock' = Nobody /\ thread[t] = Idle /\ thread' = thread /\ t # Nobody
    BY ProjectAssumption DEF IInv, Holding
<1>2. lock' \in Threads \cup {Nobody} /\ thread' \in [Threads -> Calls]
    BY <1>1 DEF Shape
<1>3. (Holds(t) /\ Keeps(t))'
    BY <1>1, IdleHolds
<1> QED BY <1>1, <1>2, <1>3, StepKeeps

\* A call that is over, its thread between two calls again; if it had the lock it lets it go.
LEMMA CallEnds ==
    ASSUME IInv, NEW t \in Threads, thread' = [thread EXCEPT ![t] = Idle], TablesGoOn, ReachesItsOwn',
           \/ lock = t /\ lock' = Nobody
           \/ lock = Nobody /\ lock' = lock
           \/ lock # t /\ UNCHANGED <<lock, proj, handle>>
    PROVE  IInv'
<1>1. Shape /\ t # Nobody /\ lock \in Threads \cup {Nobody}
    BY ProjectAssumption DEF IInv, Shape
<1>2. thread' \in [Threads -> Calls] /\ thread'[t] = Idle /\ \A u \in Threads \ {t} : thread'[u] = thread[u]
    BY <1>1, IdleIs, ThreadMoves
<1>3. lock' \in Threads \cup {Nobody} /\ lock' # t /\ ({lock, lock'} \subseteq {Nobody, t} \/ UNCHANGED <<lock, proj, handle>>)
    BY <1>1
<1>4. (Holds(t) /\ Keeps(t))'
    BY <1>2, <1>3, IdleHolds
<1> QED BY <1>2, <1>3, <1>4, StepKeeps

LEMMA ReleasedStep == ASSUME IInv, Released PROVE IInv'
<1>1. Shape /\ Runs /\ Rows /\ Lists
    BY DEF IInv
<1>2. TablesGoOn
    BY <1>1, RunLetsGo
<1>3. UNCHANGED <<lock, proj, handle, thread>> /\ ReachesItsOwn'
    BY DEF Released, Quiet, ReachesItsOwn
<1>4. Nobody \notin Threads /\ lock' \in Threads \cup {Nobody} /\ thread' \in [Threads -> Calls]
    BY <1>1, <1>3, ProjectAssumption DEF Shape
<1> QED BY <1>2, <1>3, <1>4, StepKeeps

LEMMA LoadStep == ASSUME IInv, NEW t \in Threads, NEW p \in Projects, Load(t, p) PROVE IInv'
<1>1. Shape /\ Runs /\ Rows /\ Lists
    BY DEF IInv
<1>2. TablesGoOn
    BY <1>1, LoadGoes
<1>3. Holding(t) /\ UNCHANGED <<lock, thread>> /\ ReachesItsOwn'
    BY DEF Load, Quiet, ReachesItsOwn
<1> QED BY <1>2, <1>3, HoldEnds

LEMMA StartStep == ASSUME IInv, NEW t \in Threads, NEW p \in Projects, Start(t, p) PROVE IInv'
<1>1. Shape /\ Runs /\ Rows /\ Lists
    BY DEF IInv
<1>2. TablesGoOn
    BY <1>1, StartGoes
<1>3. Holding(t) /\ UNCHANGED <<lock, thread>> /\ ReachesItsOwn'
    BY DEF Start, Quiet, ReachesItsOwn
<1> QED BY <1>2, <1>3, HoldEnds

LEMMA StopBeginsStep == ASSUME IInv, NEW t \in Threads, NEW p \in Projects, StopBegins(t, p) PROVE IInv'
<1> DEFINE r == [Idle EXCEPT !.pc = "stopping", !.project = p]
<1>1. /\ lock = Nobody /\ lock' = t /\ proj[p].started /\ thread' = [thread EXCEPT ![t] = r]
      /\ UNCHANGED <<state, lib, proj, chan, item, listing, handle>> /\ ReachesItsOwn'
    BY DEF StopBegins, Holding, Quiet, ReachesItsOwn
<1>2. r \in Calls /\ r.pc = "stopping" /\ r.project = p /\ r.h = 0
    BY DEF Idle, Calls, Pcs
<1> HIDE DEF r
<1>3. Shape /\ TablesGoOn
    BY <1>1, TablesSame DEF IInv
<1>4. thread' \in [Threads -> Calls] /\ thread'[t] = r /\ \A u \in Threads \ {t} : thread'[u] = thread[u]
    BY <1>1, <1>2, <1>3, ThreadMoves
<1>5. Holds(t)' /\ Keeps(t)'
    BY <1>1, <1>2, <1>4 DEF Holds, Keeps, Sends, Fires, Awaits, Reads
<1> QED BY <1>1, <1>3, <1>4, <1>5, StepKeeps

LEMMA StopClosesStep == ASSUME IInv, NEW t \in Threads, StopCloses(t) PROVE IInv'
<1>1. Shape /\ Runs /\ Rows /\ Lists /\ Locked
    BY DEF IInv
<1>2. PICK c \in Range(proj[thread[t].project].channels) :
          TakeHandle(c) /\ thread' = [thread EXCEPT ![t].h = chan[c].h]
    BY DEF StopCloses
<1>3. /\ thread[t].pc = "stopping" /\ UNCHANGED <<lock, state, lib, proj, item, listing>> /\ ReachesItsOwn'
    BY DEF StopCloses, Quiet, ReachesItsOwn
<1>4. lock = t /\ thread[t].project \in Projects /\ proj[thread[t].project].started
    BY <1>1, <1>3 DEF Locked, Holds
<1>5. c \in DOMAIN chan
    BY <1>1, <1>2, <1>4 DEF Rows, Range
<1>6. /\ RowsGoOn /\ chan[c].h \in DOMAIN handle /\ handle'[chan[c].h].is = "closing" /\ chan[c].h \in Nat
    BY <1>1, <1>2, <1>3, <1>5, TakeHandleKeeps DEF Shape
<1>7. TablesGoOn
    BY <1>1, <1>3, <1>6, RunGoesOn
<1> DEFINE x == chan[c].h
           r == [thread[t] EXCEPT !.h = x]
<1>8. x \in DOMAIN handle' /\ handle'[x].is = "closing"
    BY <1>6 DEF RowsGoOn, HandlesStay
<1>9. x \in Nat /\ thread[t] \in Calls /\ thread' = [thread EXCEPT ![t] = r]
    BY <1>1, <1>2, <1>6 DEF Shape
<1> HIDE DEF x
<1>10. r \in Calls /\ r.pc = "stopping" /\ r.project = thread[t].project /\ r.h = x
    BY <1>3, <1>9 DEF Calls
<1> HIDE DEF r
<1>11. thread' \in [Threads -> Calls] /\ thread'[t] = r /\ \A u \in Threads \ {t} : thread'[u] = thread[u]
    BY <1>1, <1>9, <1>10, ThreadMoves
<1>12. Holds(t)' /\ Keeps(t)'
    BY <1>3, <1>4, <1>8, <1>10, <1>11 DEF Holds, Keeps, Sends, Fires, Awaits, Reads
<1> QED BY <1>3, <1>4, <1>7, <1>11, <1>12, StepKeeps

LEMMA ClosedStep == ASSUME IInv, NEW t \in Threads, Closed(t) PROVE IInv'
<1> DEFINE x == thread[t].h
<1>1. Shape /\ Runs /\ Rows /\ Lists /\ Locked
    BY DEF IInv
<1>2. /\ thread[t].pc \in {"stopping", "closing"} /\ x # 0 /\ Readers(x) = {} /\ handle' = [handle EXCEPT ![x] = Gone]
      /\ UNCHANGED <<state, lib, proj, chan, item, listing>> /\ ReachesItsOwn'
    BY DEF Closed, Quiet, ReachesItsOwn
<1>3. /\ lock = t /\ x \in DOMAIN handle /\ handle[x].is = "closing"
      /\ thread[t].pc = "stopping" => thread[t].project \in Projects /\ proj[thread[t].project].started
    BY <1>1, <1>2 DEF Locked, Holds
<1>4. RowsGoOn
    BY <1>1, <1>2, <1>3, ClosedKeeps
<1>5. TablesGoOn
    BY <1>1, <1>2, <1>4, RunGoesOn
<1>6. CASE thread[t].pc = "closing"
  <2>1. lock' = Nobody /\ thread' = [thread EXCEPT ![t] = Idle]
      BY <1>6 DEF Closed
  <2> QED BY <1>2, <1>3, <1>5, <2>1, CallEnds
<1>7. CASE thread[t].pc = "stopping"
  <2> DEFINE r == [thread[t] EXCEPT !.h = 0]
  <2>1. lock' = lock /\ thread' = [thread EXCEPT ![t] = r] /\ thread[t] \in Calls
      BY <1>1, <1>7 DEF Closed, Shape
  <2>2. r \in Calls /\ r.pc = "stopping" /\ r.project = thread[t].project /\ r.h = 0
      BY <1>7, <2>1 DEF Calls
  <2> HIDE DEF r
  <2>3. thread' \in [Threads -> Calls] /\ thread'[t] = r /\ \A u \in Threads \ {t} : thread'[u] = thread[u]
      BY <1>1, <2>1, <2>2, ThreadMoves
  <2>4. Holds(t)' /\ Keeps(t)'
      BY <1>2, <1>3, <1>7, <2>1, <2>2, <2>3 DEF Holds, Keeps, Sends, Fires, Awaits, Reads
  <2> QED BY <1>2, <1>3, <1>5, <2>1, <2>3, <2>4, StepKeeps
<1> QED BY <1>2, <1>6, <1>7

LEMMA StopEndsStep == ASSUME IInv, NEW t \in Threads, StopEnds(t) PROVE IInv'
<1>1. Shape /\ Runs /\ Rows /\ Lists /\ Locked
    BY DEF IInv
<1>2. TablesGoOn
    BY <1>1, StopGoes
<1>3. /\ thread[t].pc = "stopping" /\ lock' = Nobody /\ thread' = [thread EXCEPT ![t] = Idle] /\ ReachesItsOwn'
    BY DEF StopEnds, Quiet, ReachesItsOwn
<1>4. lock = t
    BY <1>1, <1>3 DEF Locked, Holds
<1> QED BY <1>2, <1>3, <1>4, CallEnds

LEMMA CloseChannelStep == ASSUME IInv, NEW t \in Threads, NEW c \in DOMAIN chan, CloseChannel(t, c) PROVE IInv'
<1> DEFINE x == chan[c].h
           r == [Idle EXCEPT !.pc = "closing", !.h = x]
<1>1. Shape /\ Runs /\ Rows /\ Lists
    BY DEF IInv
<1>2. /\ lock = Nobody /\ lock' = t /\ TakeHandle(c) /\ thread' = [thread EXCEPT ![t] = r]
      /\ UNCHANGED <<state, lib, proj, item, listing>> /\ ReachesItsOwn'
    BY DEF CloseChannel, Holding, Quiet, ReachesItsOwn
<1>3. RowsGoOn /\ x \in DOMAIN handle /\ handle'[x].is = "closing"
    BY <1>1, <1>2, TakeHandleKeeps
<1>4. TablesGoOn
    BY <1>1, <1>2, <1>3, RunGoesOn
<1>5. x \in DOMAIN handle' /\ x \in Nat
    BY <1>1, <1>3 DEF RowsGoOn, HandlesStay, Shape
<1> HIDE DEF x
<1>6. r \in Calls /\ r.pc = "closing" /\ r.h = x
    BY <1>5 DEF Idle, Calls, Pcs
<1> HIDE DEF r
<1>7. thread' \in [Threads -> Calls] /\ thread'[t] = r /\ \A u \in Threads \ {t} : thread'[u] = thread[u]
    BY <1>1, <1>2, <1>6, ThreadMoves
<1>8. Holds(t)' /\ Keeps(t)'
    BY <1>2, <1>3, <1>5, <1>6, <1>7 DEF Holds, Keeps, Sends, Fires, Awaits, Reads
<1> QED BY <1>2, <1>4, <1>7, <1>8, StepKeeps

\* The objects of a home whose channel, if it is one's, was made.
LEMMA HomeMade == ASSUME IInv, NEW k \in DOMAIN item PROVE Made(k.home)
<1>1. k.home \in Homes
    BY DEF IInv, Shape, ItemIds
<1>2. k.home[1] = "messages" => k.home[2] \in DOMAIN chan
    BY DEF IInv, Lists, IsMessage
<1> QED BY <1>1, <1>2 DEF Made

\* Listing anew moves nothing else.
LEMMA RelistGoes ==
    ASSUME IInv, NEW home, Made(home), Relist(home), UNCHANGED <<state, lib, proj, chan, handle>>
    PROVE  TablesGoOn
<1>1. Shape /\ Runs /\ Rows /\ Lists
    BY DEF IInv
<1>2. RowsGoOn
    BY <1>1, RowsSame DEF Shape
<1> QED BY <1>1, <1>2, RunGoesOn

LEMMA TakeStep == ASSUME IInv, NEW t \in Threads, NEW home, Made(home), Take(t, home) PROVE IInv'
<1>1. /\ Holding(t) /\ Relist(home) /\ UNCHANGED <<lock, state, lib, proj, chan, handle, thread>> /\ ReachesItsOwn'
    BY DEF Take, Quiet, ReachesItsOwn
<1>2. TablesGoOn
    BY <1>1, RelistGoes
<1> QED BY <1>1, <1>2, HoldEnds

-------------------------------------------------------------------------------
(* The calls carried out *)

\* A call carried out in the run that is on, on what it means there.
ServesOne ==
    /\ lib.running /\ UNCHANGED <<state, lib>>
    /\ \E what \in Things :
          served' = [meant |-> [project |-> state.owner, number |-> lib.run, what |-> what],
                     got   |-> [project |-> state.owner, number |-> lib.run, what |-> what]]

LEMMA ServedReaches == ASSUME ServesOne PROVE ReachesItsOwn'
BY DEF ServesOne, ReachesItsOwn

LEMMA QuietReaches == ASSUME Quiet PROVE ReachesItsOwn'
BY DEF Quiet, ReachesItsOwn

\* An object that is listed in this run, asked of the project it was listed by.
Listable(k) ==
    /\ k \in DOMAIN item /\ lib.running
    /\ k.index \in DOMAIN lib.names /\ lib.names[k.index] = item[k].name
    /\ IsMessage(k) => k.home[2] \in DOMAIN chan /\ Current(k.home[2])
    /\ ~IsMessage(k) => state.owner = k.home[2]

\* Its index then reaches what its name means.
LEMMA MeantIsGot ==
    ASSUME IInv, NEW k, Listable(k)
    PROVE  \E what \in Things :
              /\ Meant(k) = [project |-> state.owner, number |-> lib.run, what |-> what]
              /\ Got(k) = [project |-> state.owner, number |-> lib.run, what |-> what]
<1>1. k \in DOMAIN item /\ item[k].name \in ItemNames /\ NameAt(k.index) = item[k].name
    BY DEF Listable, IInv, Shape, ItemRecs, NameAt
<1>2. CASE IsMessage(k)
  <2> DEFINE c == k.home[2]
  <2>1. c \in DOMAIN chan /\ Current(c) /\ HomeProject(k.home) = chan[c].project
      BY <1>2 DEF Listable, HomeProject, IsMessage
  <2>2. chan[c].name \in RowNames /\ chan[c].project = state.owner
      BY <2>1 DEF IInv, Shape, ChanRecs, Current
  <2>3. RowAt(c.index) = chan[c].name
      BY <2>1 DEF IInv, Rows, RowAt
  <2>4. <<chan[c].name, item[k].name>> \in Things
      BY <1>1, <2>2 DEF Things
  <2>5. /\ Meant(k) = [project |-> state.owner, number |-> lib.run, what |-> <<chan[c].name, item[k].name>>]
        /\ Got(k) = [project |-> state.owner, number |-> lib.run, what |-> <<chan[c].name, item[k].name>>]
      BY <1>1, <1>2, <2>1, <2>2, <2>3 DEF Meant, Got
  <2> QED BY <2>4, <2>5
<1>3. CASE ~IsMessage(k)
  <2>1. HomeProject(k.home) = state.owner
      BY <1>3 DEF Listable, HomeProject, IsMessage
  <2>2. <<Nothing, item[k].name>> \in Things
      BY <1>1 DEF Things
  <2>3. /\ Meant(k) = [project |-> state.owner, number |-> lib.run, what |-> <<Nothing, item[k].name>>]
        /\ Got(k) = [project |-> state.owner, number |-> lib.run, what |-> <<Nothing, item[k].name>>]
      BY <1>1, <1>3, <2>1 DEF Meant, Got
  <2> QED BY <2>2, <2>3
<1> QED BY <1>2, <1>3

\* What Message._live, Generator._live and Node._live make sure of.
LEMMA LiveIs ==
    ASSUME IInv, NEW k \in DOMAIN item, Live(k), UNCHANGED <<state, lib>>, DOMAIN chan \subseteq DOMAIN chan'
    PROVE  Listable(k) /\ k \in DOMAIN item' /\ item'[k].run = state.run /\ item'[k].name = item[k].name
<1>1. Shape /\ Lists /\ Made(k.home) /\ Relist(k.home)
    BY HomeMade DEF IInv, Live
<1>2. Lists' /\ ItemsStay
    BY <1>1, RelistKeeps
<1>3. k \in DOMAIN item' /\ item'[k].name = item[k].name /\ item'[k].run = state'.run
    BY <1>2 DEF ItemsStay, Live
<1>4. k.index \in DOMAIN lib'.names /\ lib'.names[k.index] = item'[k].name
    BY <1>2, <1>3 DEF Lists
<1>5. MayList(k.home) /\ k.home \in Homes
    BY <1>1 DEF Relist, Made
<1>6. IsMessage(k) => k.home[2] \in DOMAIN chan /\ Current(k.home[2])
    BY <1>1, <1>5 DEF MayList, Made, IsMessage
<1>7. ~IsMessage(k) => state.owner = k.home[2]
  <2> SUFFICES ASSUME ~IsMessage(k) PROVE state.owner = k.home[2]
      OBVIOUS
  <2>1. k.home[2] \in Projects /\ proj[k.home[2]].started
      BY <1>5, HomesAre DEF MayList, IsMessage
  <2> QED BY <2>1 DEF IInv, Runs
<1>8. lib.running
    BY <1>5 DEF MayList
<1> QED BY <1>3, <1>4, <1>6, <1>7, <1>8 DEF Listable

\* A read by index, in one hold of the lock.
LEMMA LiveServes ==
    ASSUME IInv, NEW k \in DOMAIN item, Live(k), Serve(Meant(k), Got(k)), UNCHANGED <<state, lib>>,
           DOMAIN chan \subseteq DOMAIN chan'
    PROVE  ServesOne
<1>1. Listable(k)
    BY LiveIs
<1>2. PICK what \in Things :
          /\ Meant(k) = [project |-> state.owner, number |-> lib.run, what |-> what]
          /\ Got(k) = [project |-> state.owner, number |-> lib.run, what |-> what]
    BY <1>1, MeantIsGot
<1>3. served' = [meant |-> Meant(k), got |-> Got(k)]
    BY DEF Serve
<1> QED BY <1>1, <1>2, <1>3 DEF ServesOne, Listable

ReadCall(t, k) == Encoded(t, k) \/ GeneratorCall(t, k) \/ NodeRead(t, k)

LEMMA ReadCallIs ==
    ASSUME NEW t, NEW k, ReadCall(t, k)
    PROVE  /\ Holding(t) /\ Live(k) /\ Serve(Meant(k), Got(k))
           /\ UNCHANGED <<lock, state, lib, proj, chan, handle, thread>>
<1>1. ASSUME Encoded(t, k)
      PROVE  /\ Holding(t) /\ Live(k) /\ Serve(Meant(k), Got(k))
             /\ UNCHANGED <<lock, state, lib, proj, chan, handle, thread>>
    BY <1>1 DEF Encoded
<1>2. ASSUME GeneratorCall(t, k)
      PROVE  /\ Holding(t) /\ Live(k) /\ Serve(Meant(k), Got(k))
             /\ UNCHANGED <<lock, state, lib, proj, chan, handle, thread>>
    BY <1>2 DEF GeneratorCall
<1>3. ASSUME NodeRead(t, k)
      PROVE  /\ Holding(t) /\ Live(k) /\ Serve(Meant(k), Got(k))
             /\ UNCHANGED <<lock, state, lib, proj, chan, handle, thread>>
    BY <1>3 DEF NodeRead
<1> QED BY <1>1, <1>2, <1>3 DEF ReadCall

LEMMA ReadCallStep ==
    ASSUME IInv, NEW t \in Threads, NEW k \in DOMAIN item, ReadCall(t, k)
    PROVE  IInv' /\ ServesOne
<1>1. /\ Holding(t) /\ Live(k) /\ Serve(Meant(k), Got(k))
      /\ UNCHANGED <<lock, state, lib, proj, chan, handle, thread>>
    BY ReadCallIs
<1>2. ServesOne
    BY <1>1, LiveServes
<1>3. Made(k.home) /\ Relist(k.home)
    BY <1>1, HomeMade DEF Live
<1>4. TablesGoOn
    BY <1>1, <1>3, RelistGoes
<1>5. ReachesItsOwn'
    BY <1>2, ServedReaches
<1> QED BY <1>1, <1>2, <1>4, <1>5, HoldEnds

\* A call that goes on, holding to something of the run.
LEMMA CallGoesOn ==
    ASSUME IInv, NEW t \in Threads, NEW r \in Calls, thread' = [thread EXCEPT ![t] = r],
           r.pc \notin {"stopping", "closing"}, TablesGoOn, ReachesItsOwn', lock' = lock,
           \/ lock = Nobody
           \/ lock # t /\ UNCHANGED <<proj, handle>>,
           thread'[t] = r => Keeps(t)'
    PROVE  IInv'
<1>1. Shape /\ t # Nobody /\ lock \in Threads \cup {Nobody}
    BY ProjectAssumption DEF IInv, Shape
<1>2. thread' \in [Threads -> Calls] /\ thread'[t] = r /\ \A u \in Threads \ {t} : thread'[u] = thread[u]
    BY <1>1, ThreadMoves
<1>3. lock' \in Threads \cup {Nobody} /\ lock' # t /\ ({lock, lock'} \subseteq {Nobody, t} \/ UNCHANGED <<lock, proj, handle>>)
    BY <1>1
<1>4. Holds(t)'
    BY <1>2, <1>3 DEF Holds
<1> QED BY <1>2, <1>3, <1>4, StepKeeps

LEMMA SendEncodesStep ==
    ASSUME IInv, NEW t \in Threads, NEW k \in DOMAIN item, SendEncodes(t, k)
    PROVE  IInv' /\ ServesOne
<1> DEFINE c == k.home[2]
<1>1. PICK h \in 1 .. MaxHandles :
          /\ HandleOf(c, h)
          /\ thread' = [thread EXCEPT ![t] = [Idle EXCEPT !.pc = "sending", !.item = k, !.h = h, !.run = lib.run]]
    BY DEF SendEncodes
<1>2. /\ lock = Nobody /\ IsMessage(k) /\ Live(k) /\ Serve(Meant(k), Got(k)) /\ UNCHANGED <<lock, state, lib, proj>>
    BY DEF SendEncodes, Holding
<1>3. Shape /\ Runs /\ Rows /\ Lists /\ Made(k.home) /\ c \in DOMAIN chan
    BY <1>2, HomeMade DEF IInv, Made, IsMessage
<1>4. /\ RowsGoOn /\ chan'[c].h = h /\ h \in DOMAIN handle' /\ DOMAIN chan \subseteq DOMAIN chan'
    BY <1>1, <1>2, <1>3, HandleOfKeeps DEF RowsGoOn, ChannelsStay
<1>5. ServesOne
    BY <1>2, <1>4, LiveServes
<1>6. TablesGoOn
    BY <1>2, <1>3, <1>4, RunGoesOn DEF Live
<1>7. k \in DOMAIN item' /\ k \in ItemIds /\ lib.run \in Nat /\ h \in Nat
  <2>1. k \in DOMAIN item'
      BY <1>2, <1>4, LiveIs
  <2>2. handle' \in Seq(Handles)
      BY <1>4 DEF RowsGoOn, RowTypes
  <2>3. h \in Nat
      BY <1>4, <2>2
  <2> QED BY <1>3, <2>1, <2>3 DEF Shape
<1> DEFINE r == [Idle EXCEPT !.pc = "sending", !.item = k, !.h = h, !.run = lib.run]
<1>8. r \in Calls /\ r.pc = "sending" /\ r.item = k /\ r.h = h /\ r.run = lib.run
    BY <1>7 DEF Idle, Calls, Pcs
<1> HIDE DEF r
<1>9. thread'[t] = r => Keeps(t)'
  <2> SUFFICES ASSUME thread'[t] = r PROVE Keeps(t)'
      OBVIOUS
  <2>1. Sends(t)'
      BY <1>2, <1>4, <1>7, <1>8 DEF Sends, IsMessage
  <2>2. Fires(t)' /\ Awaits(t)' /\ Reads(t)'
      BY <1>8 DEF Fires, Awaits, Reads
  <2> QED BY <2>1, <2>2 DEF Keeps
<1>10. IInv'
  <2>1. thread' = [thread EXCEPT ![t] = r] /\ ReachesItsOwn'
      BY <1>1, <1>5, ServedReaches DEF r
  <2> QED BY <1>2, <1>6, <1>8, <1>9, <2>1, CallGoesOn
<1> QED BY <1>5, <1>10

\* What Message.send took in its hold is still its channel's, or closed.
LEMMA SendOnStep ==
    ASSUME IInv, NEW t \in Threads, SendOn(t)
    PROVE  IInv' /\ (ServesOne \/ Quiet)
<1> DEFINE k == thread[t].item
           h == handle[thread[t].h]
<1>1. /\ thread[t].pc = "sending" /\ thread' = [thread EXCEPT ![t] = Idle]
      /\ UNCHANGED <<lock, state, lib, proj, chan, item, listing, handle>>
    BY DEF SendOn
<1>2. ASSUME h.is = "open" PROVE ServesOne
  <2> DEFINE c == k.home[2]
             call == [project |-> state.owner, number |-> lib.run, what |-> <<chan[c].name, item[k].name>>]
  <2>1. /\ k \in DOMAIN item /\ IsMessage(k) /\ thread[t].h \in DOMAIN handle
        /\ thread[t].run = lib.run /\ chan[c].h = thread[t].h
      BY <1>1, <1>2 DEF IInv, Keeps, Sends
  <2>2. c \in DOMAIN chan /\ thread[t].h # 0
      BY <2>1 DEF IInv, Lists, Shape
  <2>3. lib.running /\ Current(c) /\ h = [is |-> "open", row |-> chan[c].name, run |-> lib.run]
      BY <2>1, <2>2 DEF IInv, Rows
  <2>4. chan[c].name \in RowNames /\ item[k].name \in ItemNames /\ chan[c].project = state.owner
      BY <2>1, <2>2, <2>3 DEF IInv, Shape, ChanRecs, ItemRecs, Current
  <2>5. <<chan[c].name, item[k].name>> \in Things
      BY <2>4 DEF Things
  <2>6. served' = [meant |-> [Meant(k) EXCEPT !.number = thread[t].run],
                   got |-> [project |-> state.owner, number |-> h.run, what |-> <<h.row, item[k].name>>]]
      BY <1>2 DEF SendOn, Serve
  <2>7. HomeProject(k.home) = state.owner /\ Meant(k).what = <<chan[c].name, item[k].name>>
      BY <2>1, <2>4 DEF HomeProject, IsMessage, Meant
  <2>8. [Meant(k) EXCEPT !.number = thread[t].run] = call
      BY <2>1, <2>7 DEF Meant
  <2>9. [project |-> state.owner, number |-> h.run, what |-> <<h.row, item[k].name>>] = call
      BY <2>3
  <2> HIDE DEF call
  <2>10. served' = [meant |-> call, got |-> call]
      BY <2>6, <2>8, <2>9
  <2> QED BY <1>1, <2>3, <2>5, <2>10 DEF ServesOne, call
<1>3. ASSUME h.is # "open" PROVE Quiet
    BY <1>3 DEF SendOn
<1>4. ServesOne \/ Quiet
    BY <1>2, <1>3
<1>5. lock # t
    BY <1>1 DEF IInv, Locked, Holds
<1>6. TablesGoOn /\ ReachesItsOwn'
    BY <1>1, <1>4, TablesSame, ServedReaches, QuietReaches
<1> QED BY <1>1, <1>4, <1>5, <1>6, CallEnds

LEMMA FireAimsStep ==
    ASSUME IInv, NEW t \in Threads, NEW k \in DOMAIN item, FireAims(t, k)
    PROVE  IInv'
<1> DEFINE r == [Idle EXCEPT !.pc = "firing", !.item = k, !.run = lib.run]
<1>1. /\ lock = Nobody /\ IsGenerator(k) /\ Live(k) /\ thread' = [thread EXCEPT ![t] = r]
      /\ UNCHANGED <<lock, state, lib, proj, chan, handle>> /\ Quiet
    BY DEF FireAims, Holding
<1>2. Listable(k) /\ k \in DOMAIN item' /\ item'[k].name = item[k].name
    BY <1>1, LiveIs
<1>3. k \in ItemIds /\ lib.run \in Nat
    BY DEF IInv, Shape
<1>4. r \in Calls /\ r.pc = "firing" /\ r.item = k /\ r.run = lib.run
    BY <1>3 DEF Idle, Calls, Pcs
<1> HIDE DEF r
<1>5. TablesGoOn
    BY <1>1, HomeMade, RelistGoes DEF Live
<1>6. thread'[t] = r => Keeps(t)'
  <2> SUFFICES ASSUME thread'[t] = r PROVE Keeps(t)'
      OBVIOUS
  <2>1. state.owner = k.home[2]
      BY <1>1, <1>2 DEF Listable, IsGenerator, IsMessage
  <2>2. Fires(t)'
      BY <1>1, <1>2, <1>3, <1>4, <2>1 DEF Fires, IsGenerator, Listable
  <2>3. Sends(t)' /\ Awaits(t)' /\ Reads(t)'
      BY <1>4 DEF Sends, Awaits, Reads
  <2> QED BY <2>2, <2>3 DEF Keeps
<1>7. ReachesItsOwn'
    BY <1>1, QuietReaches
<1> QED BY <1>1, <1>4, <1>5, <1>6, <1>7, CallGoesOn

\* bb_gen_fire takes the run it aimed at, and no other.
LEMMA FireStep ==
    ASSUME IInv, NEW t \in Threads, Fire(t)
    PROVE  IInv' /\ (ServesOne \/ Quiet)
<1> DEFINE k == thread[t].item
<1>1. /\ thread[t].pc = "firing" /\ thread' = [thread EXCEPT ![t] = Idle]
      /\ UNCHANGED <<lock, state, lib, proj, chan, item, listing, handle>>
    BY DEF Fire
<1>2. ASSUME FireTaken(t) PROVE ServesOne
  <2>1. lib.running /\ lib.run = thread[t].run
      BY <1>2 DEF FireTaken
  <2>2. /\ k \in DOMAIN item /\ IsGenerator(k) /\ state.owner = k.home[2] /\ k.index \in DOMAIN lib.names
        /\ lib.names[k.index] = item[k].name
      BY <1>1, <2>1 DEF IInv, Keeps, Fires
  <2>3. Listable(k)
      BY <2>1, <2>2 DEF Listable, IsGenerator, IsMessage
  <2>4. served' = [meant |-> [Meant(k) EXCEPT !.number = lib.run], got |-> Got(k)]
      BY <1>2, <2>1 DEF Fire, Serve
  <2> HIDE DEF k
  <2>5. PICK what \in Things :
            /\ Meant(k) = [project |-> state.owner, number |-> lib.run, what |-> what]
            /\ Got(k) = [project |-> state.owner, number |-> lib.run, what |-> what]
      BY <2>3, MeantIsGot
  <2>6. [Meant(k) EXCEPT !.number = lib.run] = [project |-> state.owner, number |-> lib.run, what |-> what]
      BY <2>5
  <2>7. served' = [meant |-> [project |-> state.owner, number |-> lib.run, what |-> what],
                   got   |-> [project |-> state.owner, number |-> lib.run, what |-> what]]
      BY <2>4, <2>5, <2>6
  <2> QED BY <1>1, <2>1, <2>7 DEF ServesOne
<1>3. ASSUME ~FireTaken(t) PROVE Quiet
    BY <1>3 DEF Fire
<1>4. ServesOne \/ Quiet
    BY <1>2, <1>3
<1>5. lock # t
    BY <1>1 DEF IInv, Locked, Holds
<1>6. TablesGoOn /\ ReachesItsOwn'
    BY <1>1, <1>4, TablesSame, ServedReaches, QuietReaches
<1> QED BY <1>1, <1>4, <1>5, <1>6, CallEnds

-------------------------------------------------------------------------------
(* The waits *)

LEMMA ExpectStep == ASSUME IInv, NEW t \in Threads, NEW c \in DOMAIN chan, Expect(t, c) PROVE IInv'
<1> DEFINE r == [Idle EXCEPT !.pc = "waiting", !.chan = c, !.run = state.run]
<1>1. /\ lock = Nobody /\ thread' = [thread EXCEPT ![t] = r]
      /\ UNCHANGED <<lock, state, lib, proj, chan, item, listing, handle>> /\ Quiet
    BY DEF Expect, Holding
<1>2. c \in Channels /\ state.run \in Nat
    BY DEF IInv, Shape
<1>3. r \in Calls /\ r.pc = "waiting" /\ r.chan = c /\ r.item = Nothing /\ r.run = state.run
    BY <1>2 DEF Idle, Calls, Pcs
<1> HIDE DEF r
<1>4. TablesGoOn /\ ReachesItsOwn'
    BY <1>1, TablesSame, QuietReaches
<1>5. thread'[t] = r => Keeps(t)'
    BY <1>1, <1>2, <1>3 DEF Keeps, Sends, Fires, Awaits, Reads
<1> QED BY <1>1, <1>3, <1>4, <1>5, CallGoesOn

LEMMA ExpectSignalStep == ASSUME IInv, NEW t \in Threads, NEW k \in DOMAIN item, ExpectSignal(t, k) PROVE IInv'
<1> DEFINE c == k.home[2]
           r == [Idle EXCEPT !.pc = "waiting", !.chan = c, !.item = k, !.run = state.run]
<1>1. /\ lock = Nobody /\ IsMessage(k) /\ Live(k) /\ thread' = [thread EXCEPT ![t] = r]
      /\ UNCHANGED <<lock, state, lib, proj, chan, handle>> /\ Quiet
    BY DEF ExpectSignal, Holding
<1>2. k \in DOMAIN item' /\ item'[k].run = state.run /\ c \in DOMAIN chan
    BY <1>1, LiveIs DEF Listable
<1>3. c \in Channels /\ k \in ItemIds /\ state.run \in Nat
    BY <1>2 DEF IInv, Shape
<1> HIDE DEF c
<1>4. r \in Calls /\ r.pc = "waiting" /\ r.chan = c /\ r.item = k /\ r.run = state.run
    BY <1>3 DEF Idle, Calls, Pcs
<1> HIDE DEF r
<1>5. TablesGoOn /\ ReachesItsOwn'
    BY <1>1, HomeMade, RelistGoes, QuietReaches DEF Live
<1>6. thread'[t] = r => Keeps(t)'
  <2> SUFFICES ASSUME thread'[t] = r PROVE Keeps(t)'
      OBVIOUS
  <2>1. Awaits(t)'
      BY <1>1, <1>2, <1>3, <1>4 DEF Awaits, IsMessage, c
  <2>2. Sends(t)' /\ Fires(t)' /\ Reads(t)'
      BY <1>4 DEF Sends, Fires, Reads
  <2> QED BY <2>1, <2>2 DEF Keeps
<1> QED BY <1>1, <1>4, <1>5, <1>6, CallGoesOn

LEMMA WaitOpensStep == ASSUME IInv, NEW t \in Threads, WaitOpens(t) PROVE IInv'
<1> DEFINE w == thread[t]
           c == w.chan
<1>1. /\ w.pc = "waiting" /\ lock = Nobody /\ UNCHANGED <<lock, state, lib, proj, item, listing>> /\ Quiet
    BY DEF WaitOpens
<1>2. Shape /\ Runs /\ Rows /\ Lists /\ w \in Calls
    BY DEF IInv, Shape
<1>3. /\ c \in DOMAIN chan /\ w.run <= state.run
      /\ w.item # Nothing =>
            /\ w.item \in DOMAIN item /\ IsMessage(w.item) /\ c = w.item.home[2]
            /\ w.run = state.run => item[w.item].run = state.run
    BY <1>1 DEF IInv, Keeps, Awaits
<1>4. ASSUME NEW h, HandleOf(c, h), thread' = [thread EXCEPT ![t].pc = "looping", ![t].h = h]
      PROVE  IInv'
  <2>1. /\ RowsGoOn /\ lib.running /\ Current(c) /\ h \in DOMAIN handle' /\ c \in DOMAIN chan'
        /\ handle'[h] = [is |-> "open", row |-> chan[c].name, run |-> lib.run]
        /\ chan'[c].name = chan[c].name /\ chan'[c].project = chan[c].project /\ chan'[c].gen = chan[c].gen
      BY <1>1, <1>2, <1>3, <1>4, HandleOfKeeps DEF RowsGoOn, ChannelsStay
  <2>2. TablesGoOn
      BY <1>1, <1>2, <2>1, RunGoesOn
  <2>3. h \in Nat
    <3>1. handle' \in Seq(Handles)
        BY <2>1 DEF RowsGoOn, RowTypes
    <3> QED BY <2>1, <3>1
  <2> DEFINE r == [w EXCEPT !.pc = "looping", !.h = h]
  <2>4. thread' = [thread EXCEPT ![t] = r]
      BY <1>2, <1>4 DEF Shape
  <2> HIDE DEF w
  <2>5. r \in Calls /\ r.pc = "looping" /\ r.h = h /\ r.chan = w.chan /\ r.item = w.item /\ r.run = w.run
      BY <1>2, <2>3 DEF Calls, Pcs
  <2> HIDE DEF r
  <2>6. state'.owner = chan'[c].project /\ state'.gen = chan'[c].gen
      BY <1>1, <2>1 DEF Current
  <2>7. thread'[t] = r => Keeps(t)'
    <3> SUFFICES ASSUME thread'[t] = r PROVE Keeps(t)'
        OBVIOUS
    <3>1. Awaits(t)'
        BY <1>1, <1>3, <2>1, <2>5 DEF Awaits, IsMessage
    <3>2. Reads(t)'
        BY <1>1, <2>1, <2>5, <2>6 DEF Reads, Current
    <3>3. Sends(t)' /\ Fires(t)'
        BY <2>5 DEF Sends, Fires
    <3> QED BY <3>1, <3>2, <3>3 DEF Keeps
  <2>8. ReachesItsOwn'
      BY <1>1, QuietReaches
  <2> QED BY <1>1, <2>2, <2>4, <2>5, <2>7, <2>8, CallGoesOn
<1>5. ASSUME thread' = [thread EXCEPT ![t] = Idle], UNCHANGED <<chan, handle>>
      PROVE  IInv'
  <2>1. TablesGoOn /\ ReachesItsOwn'
      BY <1>1, <1>5, TablesSame, QuietReaches
  <2> QED BY <1>1, <1>5, <2>1, CallEnds
<1> QED BY <1>4, <1>5 DEF WaitOpens

\* A wait goes from one of its steps to the next with what it took.
LEMMA WaitGoesOn ==
    ASSUME IInv, NEW t \in Threads, NEW pc \in {"looping", "reading", "decoding", "failed"},
           thread[t].pc \in {"looping", "reading", "decoding"},
           thread' = [thread EXCEPT ![t].pc = pc],
           pc = "reading" => handle[thread[t].h].is = "open",
           pc = "decoding" => thread[t].item # Nothing,
           UNCHANGED <<lock, state, lib, proj, chan, item, listing, handle>>, Quiet
    PROVE  IInv'
<1> DEFINE w == thread[t]
           r == [w EXCEPT !.pc = pc]
<1>1. /\ w \in Calls /\ thread' = [thread EXCEPT ![t] = r]
    BY DEF IInv, Shape
<1>2. r \in Calls /\ r.pc = pc /\ r.h = w.h /\ r.chan = w.chan /\ r.item = w.item /\ r.run = w.run
    BY <1>1 DEF Calls, Pcs
<1>3. Awaits(t) /\ Reads(t) /\ Holds(t)
    BY DEF IInv, Locked, Keeps
<1>4. lock # t
    BY <1>3 DEF Holds
<1> HIDE DEF r
<1>5. TablesGoOn /\ ReachesItsOwn'
    BY TablesSame, QuietReaches
<1>6. thread'[t] = r => Keeps(t)'
  <2> SUFFICES ASSUME thread'[t] = r PROVE Keeps(t)'
      OBVIOUS
  <2>1. Awaits(t)'
      BY <1>2, <1>3 DEF Awaits, IsMessage
  <2>2. Reads(t)'
      BY <1>2, <1>3 DEF Reads, Current
  <2>3. Sends(t)' /\ Fires(t)'
      BY <1>2 DEF Sends, Fires
  <2> QED BY <2>1, <2>2, <2>3 DEF Keeps
<1> QED BY <1>1, <1>2, <1>4, <1>5, <1>6, CallGoesOn

\* A wait that is over without an answer.
LEMMA WaitGivesUp ==
    ASSUME IInv, NEW t \in Threads, thread[t].pc \in {"looping", "reading", "decoding", "failed"},
           thread' = [thread EXCEPT ![t] = Idle],
           UNCHANGED <<lock, state, lib, proj, chan, item, listing, handle>>, Quiet
    PROVE  IInv'
<1>1. lock # t
    BY DEF IInv, Locked, Holds
<1>2. TablesGoOn /\ ReachesItsOwn'
    BY TablesSame, QuietReaches
<1> QED BY <1>1, <1>2, CallEnds

LEMMA WaitReadsStep == ASSUME IInv, NEW t \in Threads, WaitReads(t) PROVE IInv'
<1>1. thread[t].pc = "looping" /\ UNCHANGED <<lock, state, lib, proj, chan, item, listing, handle>> /\ Quiet
    BY DEF WaitReads
<1>2. CASE thread' = [thread EXCEPT ![t].pc = IF handle[thread[t].h].is = "open" THEN "reading" ELSE "failed"]
    BY <1>1, <1>2, WaitGoesOn
<1>3. CASE thread' = [thread EXCEPT ![t] = Idle]
    BY <1>1, <1>3, WaitGivesUp
<1> QED BY <1>2, <1>3 DEF WaitReads

LEMMA ReadEmptyStep == ASSUME IInv, NEW t \in Threads, ReadEmpty(t) PROVE IInv'
<1>1. /\ thread[t].pc = "reading" /\ UNCHANGED <<lock, state, lib, proj, chan, item, listing, handle>> /\ Quiet
      /\ thread' = [thread EXCEPT ![t].pc = IF handle[thread[t].h].is = "open" THEN "looping" ELSE "failed"]
    BY DEF ReadEmpty
<1> QED BY <1>1, WaitGoesOn

LEMMA ReadFailedStep == ASSUME IInv, NEW t \in Threads, ReadFailed(t) PROVE IInv'
BY WaitGivesUp DEF ReadFailed

\* A frame that is returned is the awaited channel's own, in the run the wait holds to.
LEMMA ReadFrameStep ==
    ASSUME IInv, NEW t \in Threads, ReadFrame(t)
    PROVE  IInv' /\ (ServesOne \/ Quiet)
<1> DEFINE w == thread[t]
           h == handle[w.h]
           c == w.chan
<1>1. w.pc = "reading" /\ UNCHANGED <<lock, state, lib, proj, chan, item, listing, handle>>
    BY DEF ReadFrame
<1>2. CASE w.item # Nothing /\ SameRun(w.run)
  <2>1. thread' = [thread EXCEPT ![t].pc = "decoding"] /\ Quiet
      BY <1>2 DEF ReadFrame
  <2> QED BY <1>1, <1>2, <2>1, WaitGoesOn
<1>3. CASE ~(w.item # Nothing /\ SameRun(w.run))
  <2>1. thread' = [thread EXCEPT ![t] = Idle]
      BY <1>3 DEF ReadFrame
  <2>2. ASSUME ~SameRun(w.run) PROVE Quiet
      BY <2>2 DEF ReadFrame
  <2>3. ASSUME SameRun(w.run) PROVE ServesOne
    <3> DEFINE call == [project |-> state.owner, number |-> lib.run, what |-> <<chan[c].name, Nothing>>]
    <3>1. served' = [meant |-> [project |-> chan[c].project, number |-> lib.run, what |-> <<chan[c].name, Nothing>>],
                     got |-> [project |-> state.owner, number |-> h.run, what |-> <<h.row, Nothing>>]]
        BY <1>3, <2>3 DEF ReadFrame, Serve
    <3>2. w.run = state.run /\ Awaits(t) /\ Reads(t)
        BY <2>3 DEF SameRun, IInv, Keeps
    <3>3. /\ c \in DOMAIN chan /\ lib.running /\ Current(c) /\ h.row = chan[c].name /\ h.run = lib.run
        BY <1>1, <3>2 DEF Awaits, Reads
    <3>4. chan[c].project = state.owner /\ chan[c].name \in RowNames
        BY <3>3 DEF Current, IInv, Shape, ChanRecs
    <3>5. <<chan[c].name, Nothing>> \in Things
        BY <3>4 DEF Things
    <3>6. served' = [meant |-> call, got |-> call]
        BY <3>1, <3>3, <3>4
    <3> QED BY <1>1, <3>3, <3>5, <3>6 DEF ServesOne
  <2>4. ServesOne \/ Quiet
      BY <2>2, <2>3
  <2>5. lock # t
      BY <1>1 DEF IInv, Locked, Holds
  <2>6. TablesGoOn /\ ReachesItsOwn'
      BY <1>1, <2>4, TablesSame, ServedReaches, QuietReaches
  <2> QED BY <1>1, <2>1, <2>4, <2>5, <2>6, CallEnds
<1> QED BY <1>2, <1>3

\* A frame is decoded as the awaited message of the run the wait holds to.
LEMMA DecodeStep ==
    ASSUME IInv, NEW t \in Threads, Decode(t)
    PROVE  IInv' /\ (ServesOne \/ Quiet)
<1> DEFINE w == thread[t]
           k == w.item
<1>1. w.pc = "decoding" /\ lock = Nobody /\ UNCHANGED <<lock, state, lib, proj, chan, handle>>
    BY DEF Decode
<1>2. w \in Calls /\ Awaits(t) /\ Reads(t)
    BY DEF IInv, Shape, Keeps
<1>3. k # Nothing /\ k \in DOMAIN item /\ IsMessage(k) /\ w.chan = k.home[2] /\ w.chan \in DOMAIN chan
    BY <1>1, <1>2 DEF Awaits
<1>4. CASE SameRun(w.run) /\ MayList(k.home)
  <2>1. /\ Relist(k.home) /\ Serve(Meant(k), Got(k))
        /\ \E next \in {Idle, [w EXCEPT !.pc = "looping"]} : thread' = [thread EXCEPT ![t] = next]
      BY <1>4 DEF Decode
  <2>2. w.run = state.run /\ item[k].run = state.run /\ lib.running /\ Current(w.chan)
      BY <1>1, <1>2, <1>3, <1>4 DEF SameRun, Awaits, Reads
  <2>3. k.index \in DOMAIN lib.names /\ lib.names[k.index] = item[k].name
      BY <1>3, <2>2 DEF IInv, Lists
  <2>4. Listable(k)
      BY <1>3, <2>2, <2>3 DEF Listable
  <2>5. ServesOne
    <3> HIDE DEF k
    <3>1. PICK what \in Things :
              /\ Meant(k) = [project |-> state.owner, number |-> lib.run, what |-> what]
              /\ Got(k) = [project |-> state.owner, number |-> lib.run, what |-> what]
        BY <2>4, MeantIsGot
    <3>2. served' = [meant |-> Meant(k), got |-> Got(k)]
        BY <2>1 DEF Serve
    <3> QED BY <1>1, <2>2, <3>1, <3>2 DEF ServesOne
  <2>6. Made(k.home)
      BY <1>3, HomeMade
  <2>7. TablesGoOn /\ ReachesItsOwn'
      BY <1>1, <2>1, <2>5, <2>6, RelistGoes, ServedReaches
  <2>8. CASE thread' = [thread EXCEPT ![t] = Idle]
      BY <1>1, <2>5, <2>7, <2>8, CallEnds
  <2>9. CASE thread' = [thread EXCEPT ![t] = [w EXCEPT !.pc = "looping"]]
    <3> DEFINE r == [w EXCEPT !.pc = "looping"]
    <3>1. r \in Calls /\ r.pc = "looping" /\ r.h = w.h /\ r.chan = w.chan /\ r.item = w.item /\ r.run = w.run
        BY <1>2 DEF Calls, Pcs
    <3>2. ItemsStay
        BY <2>7 DEF TablesGoOn, Stays
    <3>3. k \in DOMAIN item' /\ item'[k].run = state'.run
        BY <1>1, <1>3, <2>2, <3>2 DEF ItemsStay
    <3>4. thread' = [thread EXCEPT ![t] = r]
        BY <2>9
    <3> HIDE DEF r
    <3>5. thread'[t] = r => Keeps(t)'
      <4> SUFFICES ASSUME thread'[t] = r PROVE Keeps(t)'
          OBVIOUS
      <4>1. Awaits(t)'
          BY <1>1, <1>2, <1>3, <3>1, <3>3 DEF Awaits, IsMessage
      <4>2. Reads(t)'
          BY <1>1, <1>2, <3>1 DEF Reads, Current
      <4>3. Sends(t)' /\ Fires(t)'
          BY <3>1 DEF Sends, Fires
      <4> QED BY <4>1, <4>2, <4>3 DEF Keeps
    <3>6. IInv'
        BY <1>1, <2>7, <3>1, <3>4, <3>5, CallGoesOn
    <3> QED BY <2>5, <3>6
  <2> QED BY <2>1, <2>8, <2>9
<1>5. CASE ~(SameRun(w.run) /\ MayList(k.home))
  <2>1. thread' = [thread EXCEPT ![t] = Idle] /\ UNCHANGED <<item, listing>> /\ Quiet
      BY <1>5 DEF Decode
  <2>2. TablesGoOn /\ ReachesItsOwn'
      BY <1>1, <2>1, TablesSame, QuietReaches
  <2> QED BY <1>1, <2>1, <2>2, CallEnds
<1> QED BY <1>4, <1>5

-------------------------------------------------------------------------------
(* The theorems *)

LEMMA InitKeeps == Init => IInv
<1> SUFFICES ASSUME Init PROVE IInv
    OBVIOUS
<1>1. /\ lock = Nobody /\ state = [owner |-> Nobody, gen |-> 0, run |-> 0]
      /\ lib \in [rows : {<<>>}, running : {FALSE}, releasing : {FALSE}, run : {0}, names : {<<>>}, lists : Listings]
      /\ proj = [p \in Projects |-> [gen |-> 0, started |-> FALSE, channels |-> <<>>]]
      /\ chan = <<>> /\ item = <<>> /\ handle = <<>>
      /\ listing = [home \in Homes |-> [items |-> <<>>, run |-> NoRun]]
      /\ thread = [t \in Threads |-> Idle] /\ served = Nothing
    BY DEF Init
<1>2. <<>> \in ChanLists /\ <<>> \in ItemLists
  <2>1. <<>> \in [{} -> Channels] /\ <<>> \in [{} -> ItemIds]
      OBVIOUS
  <2> QED BY <2>1 DEF ChanLists, ItemLists
<1>3. DOMAIN chan = {} /\ DOMAIN item = {} /\ DOMAIN handle = {} /\ handle \in Seq(Handles)
    BY <1>1
<1>4. chan \in [DOMAIN chan -> ChanRecs] /\ item \in [DOMAIN item -> ItemRecs]
    BY <1>1
<1>5. proj \in [Projects -> [gen : Nat, started : BOOLEAN, channels : ChanLists]]
    BY <1>1, <1>2
<1>6. listing \in [Homes -> [items : ItemLists, run : Int]]
    BY <1>1, <1>2 DEF NoRun
<1>7. /\ lib \in [rows : RowsLoaded, running : BOOLEAN, releasing : BOOLEAN, run : Nat,
                  names : NamesListed, lists : Listings]
      /\ ~lib.running
  <2>1. <<>> \in RowsLoaded /\ <<>> \in NamesListed
      BY DEF RowsLoaded, NamesListed
  <2>2. PICK lists \in Listings :
            lib = [rows |-> <<>>, running |-> FALSE, releasing |-> FALSE, run |-> 0, names |-> <<>>, lists |-> lists]
      BY <1>1
  <2>3. lib \in [rows : RowsLoaded, running : BOOLEAN, releasing : BOOLEAN, run : Nat,
                names : NamesListed, lists : Listings]
      BY <2>1, <2>2
  <2> QED BY <2>2, <2>3
<1>8. state \in [owner : Projects \cup {Nobody}, gen : Nat, run : Nat]
    BY <1>1
<1>9. Shape
    BY <1>1, <1>3, <1>4, <1>5, <1>6, <1>7, <1>8, IdleIs DEF Shape
<1>10. Runs
    BY <1>1, <1>7 DEF Runs
<1>11. Rows
  <2>1. \A p \in Projects : DOMAIN proj[p].channels = {}
      BY <1>1
  <2> QED BY <1>3, <2>1 DEF Rows
<1>12. Lists
  <2>1. \A home \in Homes : DOMAIN listing[home].items = {}
      BY <1>1
  <2> QED BY <1>3, <2>1 DEF Lists
<1>13. ASSUME NEW t \in Threads PROVE Holds(t) /\ Keeps(t)
    BY <1>1, ProjectAssumption DEF Holds, Keeps, Sends, Fires, Awaits, Reads, Idle
<1>14. ReachesItsOwn
    BY <1>1 DEF ReachesItsOwn
<1> QED BY <1>9, <1>10, <1>11, <1>12, <1>13, <1>14 DEF IInv, Locked

\* A home a caller may name.
LEMMA HomesMade ==
    ASSUME IInv
    PROVE  /\ \A p \in Projects : Made(GeneratorsOf(p)) /\ Made(NodesOf(p))
           /\ \A c \in DOMAIN chan : Made(MessagesOf(c))
<1>1. DOMAIN chan \subseteq Channels
    BY DEF IInv, Shape
<1>2. \A p \in Projects : /\ GeneratorsOf(p) \in Homes /\ NodesOf(p) \in Homes
                          /\ GeneratorsOf(p)[1] = "generators" /\ NodesOf(p)[1] = "nodes"
    BY DEF Homes, GeneratorsOf, NodesOf
<1>3. \A c \in DOMAIN chan : MessagesOf(c) \in Homes /\ MessagesOf(c)[2] = c
    BY <1>1 DEF Homes, MessagesOf
<1> QED BY <1>2, <1>3 DEF Made

\* What a step is for the runs: a start, the end of a stop, a call carried out, or nothing.
Passes == /\ Quiet /\ lib'.run = lib.run /\ (lib'.running <=> lib.running)
          /\ lib.running => state'.owner = state.owner
          /\ state'.run = state.run /\ (state'.gen = state.gen \/ state'.gen <= MaxLoads)

Moves ==
    \/ \E t \in Threads, p \in Projects : Start(t, p)
    \/ \E t \in Threads : StopEnds(t)
    \/ ServesOne
    \/ Passes

LEMMA Passing == ASSUME Quiet, UNCHANGED <<state, lib>> PROVE Moves
BY DEF Moves, Passes

LEMMA CallStep == ASSUME IInv, NEW t \in Threads, Step(t) PROVE IInv' /\ Moves
<1>1. CASE StopCloses(t)
    BY <1>1, StopClosesStep, Passing DEF StopCloses
<1>2. CASE Closed(t)
    BY <1>2, ClosedStep, Passing DEF Closed
<1>3. CASE StopEnds(t)
    BY <1>3, StopEndsStep DEF Moves
<1>4. CASE SendOn(t)
  <2>1. UNCHANGED <<state, lib>>
      BY <1>4 DEF SendOn
  <2> QED BY <1>4, <2>1, SendOnStep, Passing DEF Moves
<1>5. CASE Fire(t)
  <2>1. UNCHANGED <<state, lib>>
      BY <1>5 DEF Fire
  <2> QED BY <1>5, <2>1, FireStep, Passing DEF Moves
<1>6. CASE WaitOpens(t)
    BY <1>6, WaitOpensStep, Passing DEF WaitOpens
<1>7. CASE WaitReads(t)
    BY <1>7, WaitReadsStep, Passing DEF WaitReads
<1>8. CASE ReadEmpty(t)
    BY <1>8, ReadEmptyStep, Passing DEF ReadEmpty
<1>9. CASE ReadFailed(t)
    BY <1>9, ReadFailedStep, Passing DEF ReadFailed
<1>10. CASE Decode(t)
  <2>1. UNCHANGED <<state, lib>>
      BY <1>10 DEF Decode
  <2> QED BY <1>10, <2>1, DecodeStep, Passing DEF Moves
<1> QED BY <1>1, <1>2, <1>3, <1>4, <1>5, <1>6, <1>7, <1>8, <1>9, <1>10 DEF Step

LEMMA FrameStep == ASSUME IInv, NEW t \in Threads, ReadFrame(t) PROVE IInv' /\ Moves
<1>1. UNCHANGED <<state, lib>>
    BY DEF ReadFrame
<1> QED BY <1>1, ReadFrameStep, Passing DEF Moves

LEMMA ManageStep == ASSUME IInv, NEW t \in Threads, Manage(t) PROVE IInv' /\ Moves
<1>1. PICK p \in Projects : Load(t, p) \/ Start(t, p) \/ StopBegins(t, p)
    BY DEF Manage
<1>2. CASE Load(t, p)
  <2>1. Passes
    <3>1. state.gen \in Nat /\ state.gen < MaxLoads /\ MaxLoads \in Nat /\ ~lib.running /\ Quiet
        BY <1>2, ProjectAssumption DEF Load, LoadInto, IInv, Shape
    <3>2. PICK rows : lib' = [lib EXCEPT !.rows = rows] /\ state' = [state EXCEPT !.owner = p, !.gen = @ + 1]
        BY <1>2 DEF Load
    <3>3. lib'.run = lib.run /\ (lib'.running <=> lib.running) /\ state'.run = state.run /\ state'.gen = state.gen + 1
        BY <3>2 DEF IInv, Shape
    <3> QED BY <3>1, <3>3 DEF Passes
  <2> QED BY <1>2, <2>1, LoadStep DEF Moves
<1>3. CASE Start(t, p)
    BY <1>3, StartStep DEF Moves
<1>4. CASE StopBegins(t, p)
    BY <1>4, StopBeginsStep, Passing DEF StopBegins
<1> QED BY <1>1, <1>2, <1>3, <1>4

LEMMA TakePasses == ASSUME NEW t, NEW home, Take(t, home) PROVE Moves
BY Passing DEF Take

LEMMA UseStep == ASSUME IInv, NEW t \in Threads, Use(t) PROVE IInv' /\ Moves
<1>1. ASSUME NEW p \in Projects, Take(t, GeneratorsOf(p)) \/ Take(t, NodesOf(p))
      PROVE  IInv' /\ Moves
    BY <1>1, HomesMade, TakeStep, TakePasses
<1>2. ASSUME NEW c \in DOMAIN chan, Take(t, MessagesOf(c)) \/ CloseChannel(t, c) \/ Expect(t, c)
      PROVE  IInv' /\ Moves
  <2>1. CASE Take(t, MessagesOf(c))
      BY <2>1, HomesMade, TakeStep, TakePasses
  <2>2. CASE CloseChannel(t, c)
      BY <2>2, CloseChannelStep, Passing DEF CloseChannel
  <2>3. CASE Expect(t, c)
      BY <2>3, ExpectStep, Passing DEF Expect
  <2> QED BY <1>2, <2>1, <2>2, <2>3
<1>3. ASSUME NEW k \in DOMAIN item,
             Encoded(t, k) \/ GeneratorCall(t, k) \/ NodeRead(t, k) \/ SendEncodes(t, k) \/ FireAims(t, k) \/ ExpectSignal(t, k)
      PROVE  IInv' /\ Moves
  <2>1. CASE ReadCall(t, k)
      BY <2>1, ReadCallStep DEF Moves
  <2>2. CASE SendEncodes(t, k)
      BY <2>2, SendEncodesStep DEF Moves
  <2>3. CASE FireAims(t, k)
      BY <2>3, FireAimsStep, Passing DEF FireAims
  <2>4. CASE ExpectSignal(t, k)
      BY <2>4, ExpectSignalStep, Passing DEF ExpectSignal
  <2> QED BY <1>3, <2>1, <2>2, <2>3, <2>4 DEF ReadCall
<1> QED BY <1>1, <1>2, <1>3 DEF Use

LEMMA NextKeeps == ASSUME IInv, Next PROVE IInv' /\ Moves
<1>1. Managers \subseteq Threads /\ Users \subseteq Threads
    BY ProjectAssumption
<1>2. CASE Released
  <2>1. Passes
      BY <1>2 DEF Released, Passes, IInv, Shape
  <2> QED BY <1>2, <2>1, ReleasedStep DEF Moves
<1>3. ASSUME NEW t \in Threads, Step(t) \/ ReadFrame(t) PROVE IInv' /\ Moves
    BY <1>3, CallStep, FrameStep
<1>4. ASSUME NEW t \in Managers, Manage(t) PROVE IInv' /\ Moves
    BY <1>1, <1>4, ManageStep
<1>5. ASSUME NEW t \in Users, Use(t) PROVE IInv' /\ Moves
    BY <1>1, <1>5, UseStep
<1> QED BY <1>2, <1>3, <1>4, <1>5 DEF Next

LEMMA StutterKeeps == ASSUME IInv, UNCHANGED vars PROVE IInv'
<1>1. UNCHANGED <<state, lib, proj, chan, item, listing, handle, lock, thread, served>>
    BY DEF vars
<1>2. TablesGoOn
    BY <1>1, TablesSame
<1>3. Nobody \notin Threads /\ lock' \in Threads \cup {Nobody} /\ thread' \in [Threads -> Calls] /\ ReachesItsOwn'
    BY <1>1, ProjectAssumption DEF IInv, Shape, ReachesItsOwn
<1> QED BY <1>1, <1>2, <1>3, StepKeeps

\* Every state the package can be in has the invariant: the tables agree with the load and the run
\* they are of, and what a thread keeps between two holds of the lock is true or of another run.
THEOREM ProjectInductive == Spec => []IInv
<1>1. IInv /\ [Next]_vars => IInv'
    BY NextKeeps, StutterKeeps
<1> QED BY InitKeeps, <1>1, PTL DEF Spec

\* What an object was listed as is what its index reaches in every call the library carries out
\* (Channel._current, Message._live, _same_run, bb_gen_fire's run).
THEOREM AlwaysReachesItsOwn == Spec => []ReachesItsOwn
<1>1. IInv => ReachesItsOwn
    BY DEF IInv
<1> QED BY <1>1, ProjectInductive, PTL

\* A handle that is open is a channel's of the load that runs (Project.stop, Project._load): with
\* what every channel holds, none is left when the run is over.
THEOREM StoppedAlwaysHoldsNothing == Spec => []StoppedHoldsNothing
<1>1. IInv => StoppedHoldsNothing
  <2> SUFFICES ASSUME IInv, NEW h \in DOMAIN handle, handle[h].is = "open"
               PROVE  \E c \in DOMAIN chan : chan[c].h = h /\ proj[chan[c].project].started /\ Current(c)
      BY DEF StoppedHoldsNothing
  <2>1. PICK c \in DOMAIN chan : chan[c].h = h
      BY DEF IInv, Rows
  <2>2. h # 0
      BY DEF IInv, Shape
  <2>3. lib.running /\ Current(c)
      BY <2>1, <2>2 DEF IInv, Rows
  <2>4. proj[state.owner].started /\ chan[c].project = state.owner
      BY <2>3 DEF IInv, Runs, Current
  <2> QED BY <2>1, <2>3, <2>4
<1> QED BY <1>1, ProjectInductive, PTL

\* The bounds of the loads and the runs, and how the two numbers of a run go together: the
\* package's moves at each start and each stop, the engine's at each start.
Counts ==
    /\ state.gen <= MaxLoads /\ lib.run <= MaxRuns
    /\ lib.running => state.run + 1 = 2 * lib.run
    /\ ~lib.running => state.run = 2 * lib.run

LEMMA CountsKeep == ASSUME IInv, Counts, Next PROVE Counts'
<1>1. state.gen \in Nat /\ state.run \in Nat /\ lib.run \in Nat /\ MaxLoads \in Nat /\ MaxRuns \in Nat
    BY ProjectAssumption DEF IInv, Shape
<1>2. CASE \E t \in Threads, p \in Projects : Start(t, p)
  <2>1. PICK t \in Threads, p \in Projects : Start(t, p)
      BY <1>2
  <2>2. /\ ~lib.running /\ lib.run < MaxRuns /\ lib'.running /\ lib'.run = lib.run + 1
        /\ state'.run = state.run + 1 /\ state'.gen = state.gen
      BY <2>1 DEF Start, IInv, Shape
  <2> QED BY <1>1, <2>2 DEF Counts
<1>3. CASE \E t \in Threads : StopEnds(t)
  <2>1. PICK t \in Threads : StopEnds(t)
      BY <1>3
  <2>2. /\ thread[t].pc = "stopping" /\ ~lib'.running /\ lib'.run = lib.run
        /\ state'.run = state.run + 1 /\ state'.gen = state.gen
      BY <2>1 DEF StopEnds, IInv, Shape
  <2>3. lib.running
      BY <2>2 DEF IInv, Locked, Holds, Runs
  <2> QED BY <1>1, <2>2, <2>3 DEF Counts
<1>4. CASE ServesOne
    BY <1>4 DEF ServesOne, Counts
<1>5. CASE Passes
    BY <1>1, <1>5 DEF Passes, Counts
<1> QED BY <1>2, <1>3, <1>4, <1>5, NextKeeps DEF Moves

\* The types of the specification, with its bounds.
THEOREM ProjectTypes == Spec => []TypeOK
<1>1. ASSUME IInv, Counts PROVE TypeOK
  <2>1. \A p \in Projects : Range(proj[p].channels) \subseteq DOMAIN chan
      BY <1>1 DEF IInv, Rows, Range
  <2>2. \A c \in DOMAIN chan : chan[c].h \in 0 .. Len(handle)
    <3> SUFFICES ASSUME NEW c \in DOMAIN chan PROVE chan[c].h \in 0 .. Len(handle)
        OBVIOUS
    <3>1. handle \in Seq(Handles) /\ chan[c].h \in Nat
        BY <1>1 DEF IInv, Shape, ChanRecs
    <3>2. chan[c].h # 0 => chan[c].h \in DOMAIN handle
        BY <1>1 DEF IInv, Rows
    <3> QED BY <3>1, <3>2
  <2>3. \A home \in Homes : Range(listing[home].items) \subseteq DOMAIN item
      BY <1>1 DEF IInv, Lists, Range
  <2>4. /\ lock \in Threads \cup {Nobody} /\ state.owner \in Projects \cup {Nobody}
        /\ state.gen \in 0 .. MaxLoads /\ state.run \in 0 .. 2 * MaxRuns
    <3>1. state.gen \in Nat /\ state.run \in Nat /\ lib.run \in Nat /\ MaxLoads \in Nat /\ MaxRuns \in Nat
        BY <1>1, ProjectAssumption DEF IInv, Shape
    <3> QED BY <1>1, <3>1 DEF Counts, IInv, Shape
  <2> QED BY <2>1, <2>2, <2>3, <2>4 DEF TypeOK
<1>2. Init => Counts
  <2> SUFFICES ASSUME Init PROVE Counts
      OBVIOUS
  <2>1. state.gen = 0 /\ state.run = 0 /\ lib.run = 0 /\ ~lib.running
      BY DEF Init
  <2>2. MaxLoads \in Nat /\ MaxRuns \in Nat
      BY ProjectAssumption
  <2> QED BY <2>1, <2>2 DEF Counts
<1>3. IInv /\ Counts /\ [Next]_vars => Counts'
    BY CountsKeep DEF Counts, vars
<1> QED BY <1>1, <1>2, <1>3, ProjectInductive, PTL DEF Spec

\* The package implements RunScope: one run at a time, each with its number, and every call carried
\* out in the run it was made for.
THEOREM ImplementsRunScope == Spec => OneRunAtATime
<1>1. Init => Scope!Init
    BY DEF Init, Scope!Init
<1>2. IInv /\ [Next]_vars => [Scope!Next]_<<[project |-> IF lib.running THEN state.owner ELSE Nobody, number |-> lib.run], served>>
  <2> SUFFICES ASSUME IInv, Next
               PROVE  Scope!Next
      BY DEF vars
  <2>1. Nobody \notin Projects
      BY ProjectAssumption
  <2>2. CASE \E t \in Threads, p \in Projects : Start(t, p)
    <3>1. PICK p \in Projects : \E t \in Threads : Start(t, p)
        BY <2>2
    <3>2. /\ ~lib.running /\ lib'.running /\ lib'.run = lib.run + 1 /\ state'.owner = p /\ served' = Nothing
        BY <3>1 DEF Start, Quiet, IInv, Shape
    <3>3. Scope!Begin(p)
        BY <3>2 DEF Scope!Begin
    <3> QED BY <3>3 DEF Scope!Next
  <2>3. CASE \E t \in Threads : StopEnds(t)
    <3>1. PICK t \in Threads : StopEnds(t)
        BY <2>3
    <3>2. ~lib'.running /\ lib'.run = lib.run /\ served' = Nothing /\ thread[t].pc = "stopping"
        BY <3>1 DEF StopEnds, Quiet, IInv, Shape
    <3>3. lib.running /\ state.owner \in Projects
        BY <3>2 DEF IInv, Locked, Holds, Runs
    <3>4. Scope!End
        BY <2>1, <3>2, <3>3 DEF Scope!End
    <3> QED BY <3>4 DEF Scope!Next
  <2>4. CASE ServesOne
    <3>1. PICK what \in Things :
              served' = [meant |-> [project |-> state.owner, number |-> lib.run, what |-> what],
                         got   |-> [project |-> state.owner, number |-> lib.run, what |-> what]]
        BY <2>4 DEF ServesOne
    <3>2. lib.running /\ state.owner \in Projects /\ state' = state /\ lib' = lib
        BY <2>4 DEF ServesOne, IInv, Runs
    <3>3. Scope!Serve(what)
        BY <2>1, <3>1, <3>2 DEF Scope!Serve, Scope!InRun
    <3>4. \E any \in (Names(Layouts) \cup {Nothing}) \X (Names(Databases) \cup {Nothing}) : Scope!Serve(any)
        BY <3>3 DEF Things, RowNames, ItemNames
    <3> QED BY <3>4 DEF Scope!Next
  <2>5. CASE Passes
    <3>1. Scope!Quiet
        BY <2>5 DEF Passes, Quiet, Scope!Quiet
    <3> QED BY <3>1 DEF Scope!Next
  <2> QED BY <2>2, <2>3, <2>4, <2>5, NextKeeps DEF Moves
<1> QED BY <1>1, <1>2, ProjectInductive, PTL DEF Spec, OneRunAtATime, Scope!Spec
===============================================================================
