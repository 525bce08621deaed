--------------------------- MODULE BackgroundProofs ---------------------------
(***************************************************************************)
(* What a run leaves behind, and what a test finds, for any number of      *)
(* projects, runs, tests, senders, recordings, replays, frames and faults. *)
(*                                                                         *)
(* The argument: a sender or a recording that its project let go of, or    *)
(* whose handle is gone, was asked to end; what belongs to the run that    *)
(* is on belongs to its project; so the stop of that project, which asks   *)
(* whatever it still holds, leaves nothing of the run that was not asked.  *)
(* A run comes up only with every loop, reader and worker out, and what is *)
(* out stays so. A sender is read by the look its project's start takes    *)
(* with all of them out; the handles that go unread beside it are those    *)
(* the model calls skipped.                                                *)
(*                                                                         *)
(* And what is read beside a channel's frames, for any number of handles,  *)
(* runs, buses and taps: a listener has what it pulled from the handle it  *)
(* listens to, the reading of a handle is missing that alone, and a tap    *)
(* stays one of the bus and run it was opened for.                         *)
(***************************************************************************)
EXTENDS Background, Readings, SequenceTheorems, TLAPS

Frame == 0 .. MaxFrames

\* Every sender there can be: one that has its final status, or whose handle is gone, was asked to end.
Sender ==
    {x \in [project : Projects, run : 0 .. MaxRuns, test : 1 .. MaxTests, known : BOOLEAN,
            loop : {"idle", "sending", "out"}, asked : BOOLEAN, sent : Frame, seen : Frame,
            final : {None} \cup Frame, skipped : BOOLEAN] :
        /\ x.final # None \/ ~x.known => x.asked
        /\ x.loop = "sending" => x.sent < MaxFrames}

\* Every recording: one that is not held was asked to end, one whose handle is gone has its counts.
Recording ==
    {x \in [project : Projects, run : 0 .. MaxRuns, held : BOOLEAN, h : BOOLEAN, last : {None} \cup Frame,
            reader : {"on", "busy", "out"}, writer : {"on", "busy", "out"}, asked : BOOLEAN,
            frames : Frame, failed : BOOLEAN] :
        /\ ~x.held \/ ~x.h => x.asked
        /\ ~x.h => x.writer = "out" /\ x.last = x.frames
        /\ x.writer = "busy" => x.frames < MaxFrames}

Replay == [run : 0 .. MaxRuns, is : {"playing", "paused", "finished"},
           cmd : {"none", "playing", "paused"}, worker : {"on", "busy", "out"}, asked : BOOLEAN]

Typed ==
    /\ run \in [project : Projects \cup {Nobody}, number : 0 .. MaxRuns]
    /\ starting \in [by : Projects \cup {Nobody}, read : BOOLEAN]
    /\ starting # Still => starting.by \in Projects /\ run.project = Nobody /\ run.number < MaxRuns
    /\ sender \in Seq(Sender) /\ rec \in Seq(Recording) /\ replay \in Seq(Replay)
    /\ fault \in [Names -> [ms : Int, test : 0 .. MaxTests]]
    /\ handlers \subseteq 1 .. MaxTests
    /\ heard \in [open : BOOLEAN, of : SUBSET (1 .. MaxTests)]
    /\ test \in [on : BOOLEAN, number : 0 .. MaxTests]
    /\ test.on \/ heard.open => test.number \in 1 .. MaxTests

-------------------------------------------------------------------------------
(* One sender, one recording, and the sequences of them *)

\* A sequence changed at each of its places is a sequence.
LEMMA ChangedSeq ==
    ASSUME NEW S, NEW q \in Seq(S), NEW t \in [DOMAIN q -> S]
    PROVE  t \in Seq(S)
BY LenProperties, SeqDef

\* A place of a sequence holds one of its elements.
LEMMA Element == ASSUME NEW S, NEW q \in Seq(S), NEW i \in DOMAIN q PROVE q[i] \in S
BY LenProperties, ElementOfSeq

\* An element put in place of another; one put at the end.
LEMMA Replaced ==
    ASSUME NEW S, NEW q \in Seq(S), NEW i \in DOMAIN q, NEW e \in S
    PROVE  /\ [q EXCEPT ![i] = e] \in Seq(S)
           /\ DOMAIN [q EXCEPT ![i] = e] = DOMAIN q
           /\ \A j \in DOMAIN q : [q EXCEPT ![i] = e][j] = IF j = i THEN e ELSE q[j]
<1>1. DOMAIN q = 1 .. Len(q)
    BY LenProperties
<1> QED BY <1>1, ExceptSeq

LEMMA Appended ==
    ASSUME NEW S, NEW q \in Seq(S), NEW e \in S
    PROVE  /\ Append(q, e) \in Seq(S)
           /\ \A j \in DOMAIN Append(q, e) : \/ j \in DOMAIN q /\ Append(q, e)[j] = q[j]
                                             \/ Append(q, e)[j] = e
<1> DEFINE A == Append(q, e)
<1>1. /\ A \in Seq(S) /\ Len(A) = Len(q) + 1 /\ A[Len(q) + 1] = e
      /\ \A i \in 1 .. Len(q) : A[i] = q[i]
    BY AppendProperties
<1>2. DOMAIN q = 1 .. Len(q) /\ Len(q) \in Nat /\ DOMAIN A = 1 .. Len(A)
    BY <1>1, LenProperties
<1>3. ASSUME NEW j \in DOMAIN A PROVE (j \in DOMAIN q /\ A[j] = q[j]) \/ A[j] = e
  <2>1. j \in 1 .. Len(q) \/ j = Len(q) + 1
      BY <1>1, <1>2
  <2> QED BY <2>1, <1>1, <1>2
<1> QED BY <1>1, <1>3

\* A stop leaves a sender one, of the same project, run and test, and asked to end.
LEMMA StoppedSender ==
    ASSUME NEW x \in Sender
    PROVE  /\ Stopped(x) \in Sender /\ Stopped(x).asked
           /\ Stopped(x).project = x.project /\ Stopped(x).run = x.run /\ Stopped(x).test = x.test
BY BackgroundAssumption DEF BackgroundAssumption, Stopped, Ended, Sender, Frame, None

\* So does a status, which asks nothing of it.
LEMMA SeenSender ==
    ASSUME NEW x \in Sender
    PROVE  /\ Seen(x) \in Sender /\ Seen(x).asked = x.asked
           /\ Seen(x).project = x.project /\ Seen(x).run = x.run /\ Seen(x).test = x.test
BY BackgroundAssumption DEF BackgroundAssumption, Seen, Ended, Sender, Frame, None

\* A run that comes up lets go of the handles of senders that were asked to end.
LEMMA RetiredSender ==
    ASSUME NEW x \in Sender, x.asked
    PROVE  /\ Retired(x) \in Sender /\ Retired(x).asked /\ Retired(x).loop = x.loop
           /\ Retired(x).project = x.project /\ Retired(x).run = x.run /\ Retired(x).test = x.test
BY DEF Retired, Sender

\* What has ended stays so: a loop that is out is not begun again by a stop or a status.
LEMMA OutStaysOut ==
    ASSUME NEW x \in Sender, x.loop = "out"
    PROVE  Stopped(x).loop = "out" /\ Seen(x).loop = "out"
BY DEF Stopped, Seen, Ended, Sender

\* The library's stop leaves a recording one, of the same project and run, and asked to end.
LEMMA EndedOneRecorder ==
    ASSUME NEW x \in Recording
    PROVE  /\ EndedRecorder(x) \in Recording /\ EndedRecorder(x).asked
           /\ EndedRecorder(x).project = x.project /\ EndedRecorder(x).run = x.run
           /\ EndedRecorder(x).frames = x.frames
           /\ x.reader = "out" => EndedRecorder(x).reader = "out"
           /\ ~EndedRecorder(x).failed => EndedRecorder(x).writer = "out"
BY DEF EndedRecorder, Recording

\* So does the script's, which lets the handle go of one whose writer is out.
LEMMA StoppedOneRecording ==
    ASSUME NEW x \in Recording
    PROVE  /\ StoppedRecording(x) \in Recording /\ StoppedRecording(x).asked
           /\ StoppedRecording(x).project = x.project /\ StoppedRecording(x).run = x.run
           /\ x.reader = "out" => StoppedRecording(x).reader = "out"
<1>1. CASE ~x.h
    BY <1>1 DEF StoppedRecording, Recording
<1>2. CASE x.h
  <2> DEFINE e == EndedRecorder(x)
  <2>1. /\ e \in Recording /\ e.asked /\ e.project = x.project /\ e.run = x.run /\ e.frames = x.frames
        /\ x.reader = "out" => e.reader = "out"
        /\ ~e.failed => e.writer = "out"
      BY EndedOneRecorder
  <2>2. StoppedRecording(x) = [e EXCEPT !.last = x.frames, !.held = FALSE, !.h = e.failed]
      BY <1>2 DEF StoppedRecording
  <2> HIDE DEF e
  <2> QED BY <2>1, <2>2 DEF Recording
<1> QED BY <1>1, <1>2

\* A stop leaves a replay one, of the same run, and asked to end.
LEMMA EndedOneSession ==
    ASSUME NEW x \in Replay
    PROVE  /\ EndedSession(x) \in Replay /\ EndedSession(x).asked /\ EndedSession(x).run = x.run
           /\ x.worker = "out" => EndedSession(x).worker = "out"
BY DEF EndedSession, Replay

\* So does a turn of its worker, which asks nothing of it.
Controlled(x) == [x EXCEPT !.is = x.cmd, !.cmd = "none"]
Finished(x) == [x EXCEPT !.is = "finished"]

LEMMA TurnedOneSession ==
    ASSUME NEW x \in Replay
    PROVE  (x.cmd # "none" => Controlled(x) \in Replay) /\ Finished(x) \in Replay
BY DEF Replay, Controlled, Finished

\* The stop of a project, the end of a test, a start: each of its senders is one still.
LEMMA AllStopped ==
    ASSUME NEW q \in Seq(Sender), NEW P
    PROVE  [s \in DOMAIN q |-> IF s \in P THEN Stopped(q[s]) ELSE q[s]] \in Seq(Sender)
<1> DEFINE after == [s \in DOMAIN q |-> IF s \in P THEN Stopped(q[s]) ELSE q[s]]
<1>1. ASSUME NEW s \in DOMAIN q PROVE after[s] \in Sender
    BY Element, StoppedSender
<1> QED BY <1>1, ChangedSeq

-------------------------------------------------------------------------------
(* The types *)

\* At the start.
LEMMA InitTyped == Init => Typed
BY EmptySeq, BackgroundAssumption
   DEF BackgroundAssumption, Init, Typed, NoFault, None, Frames, Still

\* Of the second look of a start: the run comes up, or nothing begins.
LEMMA StartedOrNot ==
    ASSUME StartRuns
    PROVE  \/ run' = run /\ sender' = sender /\ fault' \in {fault, Cleared}
           \/ /\ Released /\ fault' = Cleared
              /\ run' = [project |-> starting.by, number |-> run.number + 1]
              /\ sender' = [s \in DOMAIN sender |-> Retired(sender[s])]
BY DEF StartRuns

LEMMA StartTyped ==
    ASSUME Typed, NothingOutlivesItsRun, StartRuns
    PROVE  /\ run' \in [project : Projects \cup {Nobody}, number : 0 .. MaxRuns]
           /\ sender' \in Seq(Sender)
           /\ fault' \in [Names -> [ms : Int, test : 0 .. MaxTests]]
<1>0. starting.by \in Projects /\ run.project = Nobody /\ run.number < MaxRuns
    BY DEF Typed, StartRuns
<1>1. ASSUME NEW s \in DOMAIN sender PROVE Retired(sender[s]) \in Sender
  <2>1. sender[s] \in Sender /\ sender[s].asked
      BY <1>0, Element DEF Typed, NothingOutlivesItsRun
  <2> QED BY <2>1, RetiredSender
<1>2. sender' \in Seq(Sender)
    BY <1>1, StartedOrNot, ChangedSeq DEF Typed
<1>3. run' \in [project : Projects \cup {Nobody}, number : 0 .. MaxRuns]
    BY <1>0, StartedOrNot, BackgroundAssumption DEF BackgroundAssumption, Typed
<1>4. fault' \in [Names -> [ms : Int, test : 0 .. MaxTests]]
    BY StartedOrNot, BackgroundAssumption DEF BackgroundAssumption, Typed, Cleared, NoFault, None
<1> QED BY <1>2, <1>3, <1>4

\* No step breaks the types.
LEMMA NextTyped == ASSUME Typed, NothingOutlivesItsRun, [Next]_vars PROVE Typed'
<1> USE DEF Typed
<1>0. /\ {MaxRuns, MaxTests, MaxStarted, MaxFrames} \subseteq Nat /\ Suite \in Projects
      /\ {None} \cup Frame \subseteq Int /\ 0 \in Frame
    BY BackgroundAssumption DEF BackgroundAssumption, None, Frame
<1>1. ASSUME NEW p \in Projects, SendCyclic(p) PROVE Typed'
  <2> DEFINE new == [project |-> p, run |-> run.number, test |-> test.number, known |-> TRUE, loop |-> "idle",
                     asked |-> FALSE, sent |-> 0, seen |-> 0, final |-> None, skipped |-> FALSE]
  <2>1. new \in Sender
      BY <1>0, <1>1 DEF SendCyclic, Acting, Sender, None
  <2> QED BY <1>1, <2>1, Appended DEF SendCyclic
<1>2. ASSUME NEW s \in DOMAIN sender, StopSender(s) PROVE Typed'
    BY <1>2, Element, StoppedSender, Replaced DEF StopSender
<1>3. ASSUME NEW s \in DOMAIN sender, Status(s) PROVE Typed'
    BY <1>3, Element, SeenSender, Replaced DEF Status
<1>4. ASSUME NEW s \in DOMAIN sender, LoopSends(s) PROVE Typed'
  <2> DEFINE new == [sender[s] EXCEPT !.loop = "sending"]
  <2>1. sender[s] \in Sender
      BY Element
  <2>2. new \in Sender
      BY <2>1, <1>0, <1>4 DEF LoopSends, Sender
  <2>3. sender' = [sender EXCEPT ![s] = new]
      BY <1>4 DEF LoopSends
  <2> QED BY <1>4, <2>2, <2>3, Replaced DEF LoopSends
<1>5. ASSUME NEW s \in DOMAIN sender, LoopSent(s) PROVE Typed'
  <2> DEFINE new == [sender[s] EXCEPT !.sent = @ + 1, !.loop = IF sender[s].asked THEN "out" ELSE "idle"]
  <2>1. sender[s] \in Sender
      BY Element
  <2>2. new \in Sender
    <3>1. sender[s].sent + 1 \in Frame
      <4>1. sender[s].sent \in Frame /\ sender[s].sent < MaxFrames /\ MaxFrames \in Nat
          BY <2>1, <1>0, <1>5 DEF LoopSent, Sender
      <4> QED BY <4>1 DEF Frame
    <3>2. CASE sender[s].asked
        BY <2>1, <3>1, <3>2 DEF Sender
    <3>3. CASE ~sender[s].asked
        BY <2>1, <3>1, <3>3 DEF Sender
    <3> QED BY <3>2, <3>3
  <2>3. sender' = [sender EXCEPT ![s] = new]
      BY <1>5 DEF LoopSent
  <2>4. sender' \in Seq(Sender)
      BY <2>2, <2>3, Replaced
  <2>5. heard' \in [open : BOOLEAN, of : SUBSET (1 .. MaxTests)] /\ heard'.open = heard.open
      BY <1>5 DEF LoopSent, Hears
  <2> QED BY <1>5, <2>4, <2>5 DEF LoopSent
<1>6. ASSUME NEW p \in Projects, Record(p) PROVE Typed'
  <2> DEFINE new == [project |-> p, run |-> run.number, held |-> TRUE, h |-> TRUE, last |-> None,
                     reader |-> "on", writer |-> "on", asked |-> FALSE, frames |-> 0, failed |-> FALSE]
  <2>1. new \in Recording
      BY <1>0, <1>6 DEF Record, Recording, None
  <2> QED BY <1>6, <2>1, Appended DEF Record
<1>7. ASSUME NEW r \in DOMAIN rec, NEW x \in Recording, rec' = [rec EXCEPT ![r] = x],
             UNCHANGED <<run, starting, sender, replay, fault, handlers, heard, test>>
      PROVE  Typed'
    BY <1>7, Replaced
<1>8. ASSUME NEW r \in DOMAIN rec, ReaderBegins(r) \/ ReaderRead(r) \/ WriterBegins(r) PROVE Typed'
  <2>1. rec[r] \in Recording
      BY Element
  <2>2. CASE ReaderBegins(r)
    <3> DEFINE new == [rec[r] EXCEPT !.reader = "busy"]
    <3>1. new \in Recording /\ rec' = [rec EXCEPT ![r] = new]
        BY <2>1, <2>2 DEF ReaderBegins, Recording
    <3> QED BY <2>2, <3>1, <1>7 DEF ReaderBegins
  <2>3. CASE ReaderRead(r)
    <3>1. PICK failed \in BOOLEAN, reader \in {"on", "out"} :
              rec' = [rec EXCEPT ![r].reader = reader, ![r].failed = @ \/ failed]
        BY <2>3 DEF ReaderRead
    <3> DEFINE new == [rec[r] EXCEPT !.reader = reader, !.failed = @ \/ failed]
    <3>2. rec[r].failed \/ failed \in BOOLEAN
        BY Zenon
    <3>3. new \in Recording /\ rec' = [rec EXCEPT ![r] = new]
        BY <2>1, <3>1, <3>2 DEF Recording
    <3> QED BY <2>3, <3>3, <1>7 DEF ReaderRead
  <2>4. CASE WriterBegins(r)
    <3> DEFINE new == [rec[r] EXCEPT !.writer = "busy"]
    <3>1. new \in Recording /\ rec' = [rec EXCEPT ![r] = new]
        BY <2>1, <2>4, <1>0 DEF WriterBegins, Recording
    <3> QED BY <2>4, <3>1, <1>7 DEF WriterBegins
  <2> QED BY <1>8, <2>2, <2>3, <2>4
<1>9. ASSUME NEW r \in DOMAIN rec, WriterWrote(r) PROVE Typed'
  <2>1. rec[r] \in Recording
      BY Element
  <2>2. PICK failed \in BOOLEAN, writer \in {"on"} \cup (IF rec[r].asked THEN {"out"} ELSE {}) :
            rec' = [rec EXCEPT ![r].frames = IF failed THEN @ ELSE @ + 1, ![r].failed = @ \/ failed,
                               ![r].writer = writer]
      BY <1>9 DEF WriterWrote
  <2> DEFINE new == [rec[r] EXCEPT !.frames = IF failed THEN @ ELSE @ + 1, !.failed = @ \/ failed,
                                   !.writer = writer]
  <2>3. new \in Recording
    <3>1. rec[r].writer = "busy" /\ rec[r].h
        BY <2>1, <1>9 DEF WriterWrote, Recording
    <3>2. CASE failed
        BY <2>1, <3>1, <3>2 DEF Recording
    <3>3. CASE ~failed
      <4>1. rec[r].frames \in Frame /\ rec[r].frames < MaxFrames
          BY <2>1, <3>1 DEF Recording
      <4>2. MaxFrames \in Nat
          BY <1>0
      <4>3. rec[r].frames + 1 \in Frame
          BY <4>1, <4>2 DEF Frame
      <4> QED BY <2>1, <3>1, <3>3, <4>3 DEF Recording
    <3> QED BY <3>2, <3>3
  <2>4. rec' = [rec EXCEPT ![r] = new]
      BY <2>2
  <2> HIDE DEF new
  <2> QED BY <1>7, <1>9, <2>3, <2>4 DEF WriterWrote
<1>10. ASSUME NEW r \in DOMAIN rec, StopRecording(r) PROVE Typed'
    BY <1>7, <1>10, Element, StoppedOneRecording DEF StopRecording
<1>11. ASSUME NEW p \in Projects, NEW paused \in BOOLEAN, StartReplay(p, paused) PROVE Typed'
  <2> DEFINE new == [run |-> run.number, is |-> IF paused THEN "paused" ELSE "playing", cmd |-> "none",
                     worker |-> "on", asked |-> FALSE]
  <2>1. new \in Replay
      BY DEF Replay
  <2> QED BY <1>11, <2>1, Appended DEF StartReplay
<1>12. ASSUME NEW r \in DOMAIN replay,
              \/ PlayerTurns(r) \/ PlayerSends(r) \/ PlayerSent(r) \/ StopReplay(r)
              \/ \E is \in {"playing", "paused"} : Control(r, is)
       PROVE  Typed'
  <2>0. replay[r] \in Replay
      BY Element
  <2>1. ASSUME NEW x \in Replay, replay' = [replay EXCEPT ![r] = x] PROVE replay' \in Seq(Replay)
      BY <2>1, Replaced
  <2>2. CASE PlayerTurns(r)
    <3>1. ASSUME replay[r].cmd # "none", replay' = [replay EXCEPT ![r].is = replay[r].cmd, ![r].cmd = "none"]
          PROVE  replay' \in Seq(Replay)
      <4>1. Controlled(replay[r]) \in Replay
          BY <2>0, <3>1, TurnedOneSession
      <4>2. replay' = [replay EXCEPT ![r] = Controlled(replay[r])]
          BY <3>1 DEF Controlled
      <4> QED BY <2>1, <4>1, <4>2
    <3>2. ASSUME replay' = [replay EXCEPT ![r].is = "finished"] PROVE replay' \in Seq(Replay)
      <4>1. Finished(replay[r]) \in Replay
          BY <2>0, TurnedOneSession
      <4>2. replay' = [replay EXCEPT ![r] = Finished(replay[r])]
          BY <3>2 DEF Finished
      <4> QED BY <2>1, <4>1, <4>2
    <3>3. replay' \in Seq(Replay)
        BY <2>2, <3>1, <3>2 DEF PlayerTurns
    <3> QED BY <2>2, <3>3 DEF PlayerTurns
  <2>3. CASE PlayerSends(r)
    <3> DEFINE new == [replay[r] EXCEPT !.worker = "busy"]
    <3>1. new \in Replay /\ replay' = [replay EXCEPT ![r] = new]
        BY <2>0, <2>3 DEF PlayerSends, Replay
    <3> QED BY <2>1, <2>3, <3>1 DEF PlayerSends
  <2>4. CASE PlayerSent(r)
    <3> DEFINE new == [replay[r] EXCEPT !.worker = IF replay[r].asked THEN "out" ELSE "on"]
    <3>1. new \in Replay /\ replay' = [replay EXCEPT ![r] = new]
        BY <2>0, <2>4 DEF PlayerSent, Replay
    <3>2. heard' \in [open : BOOLEAN, of : SUBSET (1 .. MaxTests)] /\ heard'.open = heard.open
        BY <2>4 DEF PlayerSent, Hears
    <3>3. replay' \in Seq(Replay)
        BY <2>1, <3>1
    <3> QED BY <2>4, <3>2, <3>3 DEF PlayerSent
  <2>5. CASE StopReplay(r)
    <3>1. EndedSession(replay[r]) \in Replay
        BY <2>0, EndedOneSession
    <3>2. replay' = [replay EXCEPT ![r] = EndedSession(replay[r])]
        BY <2>5 DEF StopReplay
    <3> QED BY <2>1, <2>5, <3>1, <3>2 DEF StopReplay
  <2>6. ASSUME NEW is \in {"playing", "paused"}, Control(r, is) PROVE Typed'
    <3> DEFINE new == IF replay[r].worker = "busy" THEN [replay[r] EXCEPT !.cmd = is]
                                                   ELSE [replay[r] EXCEPT !.is = is, !.cmd = "none"]
    <3>1. new \in Replay
        BY <2>0 DEF Replay
    <3>2. replay' = [replay EXCEPT ![r] = new]
        BY <2>6 DEF Control
    <3> HIDE DEF new
    <3> QED BY <2>1, <2>6, <3>1, <3>2 DEF Control
  <2> QED BY <1>12, <2>2, <2>3, <2>4, <2>5, <2>6
<1>13. ASSUME NEW m \in Names, NEW asked \in Durations \cup {None}, NEW by_message \in BOOLEAN,
              Arm(m, asked, by_message)
       PROVE  Typed'
  <2>1. Duration(asked) \in Int
    <3>1. CASE asked = None
        BY <3>1 DEF Duration
    <3>2. CASE asked \in Nat
        BY <3>2 DEF Duration
    <3> QED BY <3>1, <3>2, BackgroundAssumption DEF BackgroundAssumption
  <2> QED BY <1>13, <2>1 DEF Arm
<1>14. ASSUME NEW m \in Names, Lift(m) PROVE Typed'
    BY <1>0, <1>14 DEF Lift, NoFault, None
<1>15. ASSUME NEW p \in Projects, StartLooks(p) PROVE Typed'
  <2>1. sender' \in Seq(Sender)
    <3> DEFINE after == [s \in DOMAIN sender |->
                            IF Released /\ s \in Senders(p) THEN Stopped(sender[s]) ELSE sender[s]]
    <3>1. ASSUME NEW s \in DOMAIN sender PROVE after[s] \in Sender
        BY Element, StoppedSender
    <3>2. sender' = after
        BY <1>15 DEF StartLooks
    <3> QED BY <3>1, <3>2, ChangedSeq
  <2>2. starting' \in [by : Projects \cup {Nobody}, read : BOOLEAN] /\ starting'.by = p
      BY <1>15 DEF StartLooks, Released
  <2> QED BY <1>15, <2>1, <2>2 DEF StartLooks, Starting
<1>16. ASSUME NEW p \in Projects, Stop(p) PROVE Typed'
  <2>1. sender' \in Seq(Sender)
      BY <1>16, AllStopped DEF Stop
  <2>2. rec' \in Seq(Recording)
    <3> DEFINE after == [r \in DOMAIN rec |->
                EndedRecorder(IF rec[r].project = p /\ rec[r].held THEN StoppedRecording(rec[r]) ELSE rec[r])]
    <3>1. ASSUME NEW r \in DOMAIN rec PROVE after[r] \in Recording
        BY Element, StoppedOneRecording, EndedOneRecorder
    <3>2. rec' = after
        BY <1>16 DEF Stop
    <3> QED BY <3>1, <3>2, ChangedSeq
  <2>3. replay' \in Seq(Replay)
    <3> DEFINE after == [r \in DOMAIN replay |-> EndedSession(replay[r])]
    <3>1. ASSUME NEW r \in DOMAIN replay PROVE after[r] \in Replay
        BY Element, EndedOneSession
    <3>2. replay' = after
        BY <1>16 DEF Stop
    <3> QED BY <3>1, <3>2, ChangedSeq
  <2>4. starting' = Still
      BY <1>16 DEF Stop, Acting
  <2>5. run' \in [project : Projects \cup {Nobody}, number : 0 .. MaxRuns]
      BY <1>16 DEF Stop
  <2> QED BY <1>16, <2>1, <2>2, <2>3, <2>4, <2>5 DEF Stop, Frames, Acting
<1>17. CASE Register
    BY <1>17 DEF Register, Acting
<1>18. CASE TestBegins
  <2>1. heard' \in [open : BOOLEAN, of : SUBSET (1 .. MaxTests)]
      BY <1>0, <1>18 DEF TestBegins, Reopened
  <2>2. test' \in [on : BOOLEAN, number : 0 .. MaxTests] /\ test'.number \in 1 .. MaxTests
      BY <1>0, <1>18 DEF TestBegins
  <2> QED BY <1>18, <2>1, <2>2 DEF TestBegins
<1>19. CASE TestEnds
  <2>1. sender' \in Seq(Sender)
    <3>1. CASE Started(Suite)
      <4>1. sender' = [s \in DOMAIN sender |-> IF s \in Senders(Suite) THEN Stopped(sender[s]) ELSE sender[s]]
          BY <1>19, <3>1 DEF TestEnds
      <4> QED BY <4>1, AllStopped
    <3>2. CASE ~Started(Suite)
        BY <1>19, <3>2 DEF TestEnds
    <3> QED BY <3>1, <3>2
  <2>2. fault' \in [Names -> [ms : Int, test : 0 .. MaxTests]]
      BY <1>0, <1>19 DEF TestEnds, Cleared, NoFault, None
  <2> QED BY <1>19, <2>1, <2>2 DEF TestEnds
<1>20. CASE UNCHANGED vars
    BY <1>20 DEF vars
<1>21. CASE StartRuns
  <2>1. /\ run' \in [project : Projects \cup {Nobody}, number : 0 .. MaxRuns]
        /\ sender' \in Seq(Sender)
        /\ fault' \in [Names -> [ms : Int, test : 0 .. MaxTests]]
      BY <1>21, StartTyped
  <2> QED BY <1>21, <2>1 DEF StartRuns, Still
<1> HIDE DEF Typed
<1> QED
    BY <1>1, <1>2, <1>3, <1>4, <1>5, <1>6, <1>8, <1>9, <1>10, <1>11, <1>12, <1>13, <1>14, <1>15, <1>16,
       <1>17, <1>18, <1>19, <1>20, <1>21
    DEF Next

-------------------------------------------------------------------------------
(* What a step may do to what goes on *)

\* The steps of a recording, of a replay, of a fault, and what they leave alone.
RecordingSteps ==
    \E r \in DOMAIN rec :
        StopRecording(r) \/ ReaderBegins(r) \/ ReaderRead(r) \/ WriterBegins(r) \/ WriterWrote(r)
ReplaySteps ==
    \E r \in DOMAIN replay :
        \/ PlayerTurns(r) \/ PlayerSends(r) \/ PlayerSent(r) \/ StopReplay(r)
        \/ \E is \in {"playing", "paused"} : Control(r, is)
FaultSteps ==
    \E m \in Names : Lift(m) \/ \E asked \in Durations \cup {None}, by_message \in BOOLEAN : Arm(m, asked, by_message)

LEMMA RecordingKeeps == RecordingSteps => UNCHANGED <<run, starting, sender, replay, fault, handlers, heard, test>>
BY DEF RecordingSteps, StopRecording, ReaderBegins, ReaderRead, WriterBegins, WriterWrote

LEMMA ReplayKeeps == ReplaySteps => UNCHANGED <<run, starting, sender, rec, fault, handlers, test>>
BY DEF ReplaySteps, PlayerTurns, PlayerSends, PlayerSent, StopReplay, Control

LEMMA FaultKeeps == FaultSteps => UNCHANGED <<run, starting, sender, rec, replay, handlers, heard, test>>
BY DEF FaultSteps, Lift, Arm

\* Every sender after a step is one from before it, as asked and as ended as it was, or one the
\* test that runs began in the run that is on.
SendersGoOn ==
    \A s \in DOMAIN sender' :
        \/ /\ s \in DOMAIN sender
           /\ sender'[s].project = sender[s].project /\ sender'[s].run = sender[s].run
           /\ sender'[s].test = sender[s].test /\ (sender[s].asked => sender'[s].asked)
           /\ sender[s].loop = "out" => sender'[s].loop = "out"
        \/ /\ run.project # Nobody /\ test.on
           /\ sender'[s].project = run.project /\ sender'[s].run = run.number
           /\ sender'[s].test = test.number

RecordingsGoOn ==
    \A r \in DOMAIN rec' :
        \/ /\ r \in DOMAIN rec
           /\ rec'[r].project = rec[r].project /\ rec'[r].run = rec[r].run
           /\ rec[r].asked => rec'[r].asked
           /\ rec[r].reader = "out" => rec'[r].reader = "out"
        \/ run.project # Nobody /\ rec'[r].project = run.project /\ rec'[r].run = run.number

ReplaysGoOn ==
    \A r \in DOMAIN replay' :
        \/ /\ r \in DOMAIN replay /\ replay'[r].run = replay[r].run
           /\ replay[r].asked => replay'[r].asked
           /\ replay[r].worker = "out" => replay'[r].worker = "out"
        \/ run.project # Nobody /\ replay'[r].run = run.number

\* The senders, by every step.
LEMMA NextSenders == ASSUME Typed, NothingOutlivesItsRun, [Next]_vars PROVE SendersGoOn
<1>0. sender \in Seq(Sender)
    BY DEF Typed
<1>1. ASSUME NEW s \in DOMAIN sender, NEW x \in Sender, sender' = [sender EXCEPT ![s] = x],
             x.project = sender[s].project, x.run = sender[s].run, x.test = sender[s].test,
             sender[s].asked => x.asked, sender[s].loop = "out" => x.loop = "out"
      PROVE  SendersGoOn
    BY <1>0, <1>1, Replaced DEF SendersGoOn
<1>2. ASSUME NEW p \in Projects, SendCyclic(p) PROVE SendersGoOn
  <2> DEFINE new == [project |-> p, run |-> run.number, test |-> test.number, known |-> TRUE, loop |-> "idle",
                     asked |-> FALSE, sent |-> 0, seen |-> 0, final |-> None, skipped |-> FALSE]
  <2>1. new \in Sender
      BY <1>2, BackgroundAssumption
         DEF BackgroundAssumption, SendCyclic, Acting, Typed, Sender, Frame, None
  <2>2. p # Nobody
      BY BackgroundAssumption DEF BackgroundAssumption
  <2>3. ASSUME NEW s \in DOMAIN sender' PROVE (s \in DOMAIN sender /\ sender'[s] = sender[s]) \/ sender'[s] = new
      BY <1>0, <1>2, <2>1, Appended DEF SendCyclic
  <2> QED BY <1>2, <2>2, <2>3 DEF SendersGoOn, SendCyclic, Acting, Started
<1>3. ASSUME NEW s \in DOMAIN sender, StopSender(s) PROVE SendersGoOn
    BY <1>0, <1>1, <1>3, Element, StoppedSender, OutStaysOut DEF StopSender
<1>4. ASSUME NEW s \in DOMAIN sender, Status(s) PROVE SendersGoOn
    BY <1>0, <1>1, <1>4, Element, SeenSender, OutStaysOut DEF Status
<1>5. ASSUME NEW s \in DOMAIN sender, LoopSends(s) \/ LoopSent(s) PROVE SendersGoOn
  <2>1. sender[s] \in Sender
      BY <1>0, Element
  <2>2. /\ DOMAIN sender' = DOMAIN sender
        /\ \A t \in DOMAIN sender : t # s => sender'[t] = sender[t]
        /\ sender'[s].project = sender[s].project /\ sender'[s].run = sender[s].run
        /\ sender'[s].test = sender[s].test /\ sender'[s].asked = sender[s].asked
        /\ sender[s].loop # "out"
      BY <1>5, <2>1 DEF LoopSends, LoopSent, Sender
  <2> QED BY <2>2 DEF SendersGoOn
<1>6. ASSUME NEW P, sender' = [s \in DOMAIN sender |-> IF s \in P THEN Stopped(sender[s]) ELSE sender[s]]
      PROVE  SendersGoOn
    BY <1>0, <1>6, Element, StoppedSender, OutStaysOut DEF SendersGoOn
<1>7. CASE StartRuns
  <2>1. ASSUME NEW s \in DOMAIN sender
        PROVE  /\ Retired(sender[s]).asked /\ Retired(sender[s]).project = sender[s].project
               /\ Retired(sender[s]).run = sender[s].run /\ Retired(sender[s]).test = sender[s].test
               /\ Retired(sender[s]).loop = sender[s].loop
    <3>1. sender[s] \in Sender /\ sender[s].asked
        BY <1>0, <1>7, Element DEF NothingOutlivesItsRun, StartRuns, Typed
    <3> QED BY <3>1, RetiredSender
  <2> QED BY <1>7, <2>1, StartedOrNot DEF SendersGoOn
<1>8. ASSUME sender' = sender PROVE SendersGoOn
    BY <1>8 DEF SendersGoOn
<1>9. ASSUME NEW p \in Projects, Stop(p) PROVE SendersGoOn
    BY <1>6, <1>9 DEF Stop
<1>10. CASE TestEnds
  <2>1. \/ sender' = [s \in DOMAIN sender |-> IF s \in Senders(Suite) THEN Stopped(sender[s]) ELSE sender[s]]
        \/ sender' = sender
      BY <1>10 DEF TestEnds
  <2> QED BY <1>6, <1>8, <2>1
<1>11. ASSUME NEW p \in Projects, StartLooks(p) PROVE SendersGoOn
  <2> DEFINE P == {t \in Senders(p) : Released}
  <2>1. sender' = [s \in DOMAIN sender |-> IF s \in P THEN Stopped(sender[s]) ELSE sender[s]]
      BY <1>11 DEF StartLooks
  <2> HIDE DEF P
  <2> QED BY <1>6, <2>1
<1>13. ASSUME \/ Register \/ TestBegins \/ RecordingSteps \/ ReplaySteps \/ FaultSteps \/ UNCHANGED vars
              \/ \E p \in Projects : Record(p) \/ \E paused \in BOOLEAN : StartReplay(p, paused)
       PROVE  sender' = sender
    BY <1>13, RecordingKeeps, ReplayKeeps, FaultKeeps DEF Register, TestBegins, Record, StartReplay, vars
<1> QED
    BY <1>2, <1>3, <1>4, <1>5, <1>7, <1>8, <1>9, <1>10, <1>11, <1>13
       DEF Next, RecordingSteps, ReplaySteps, FaultSteps

\* The recordings.
LEMMA NextRecordings == ASSUME Typed, [Next]_vars PROVE RecordingsGoOn
<1>0. rec \in Seq(Recording)
    BY DEF Typed
<1>1. ASSUME NEW p \in Projects, Record(p) PROVE RecordingsGoOn
  <2> DEFINE new == [project |-> p, run |-> run.number, held |-> TRUE, h |-> TRUE, last |-> None,
                     reader |-> "on", writer |-> "on", asked |-> FALSE, frames |-> 0, failed |-> FALSE]
  <2>1. new \in Recording
      BY BackgroundAssumption DEF BackgroundAssumption, Typed, Recording, Frame, None
  <2>2. p # Nobody
      BY BackgroundAssumption DEF BackgroundAssumption
  <2>3. ASSUME NEW r \in DOMAIN rec' PROVE (r \in DOMAIN rec /\ rec'[r] = rec[r]) \/ rec'[r] = new
      BY <1>0, <1>1, <2>1, Appended DEF Record
  <2> QED BY <1>1, <2>2, <2>3 DEF RecordingsGoOn, Record, Started
<1>2. ASSUME NEW r \in DOMAIN rec, ReaderBegins(r) \/ ReaderRead(r) \/ WriterBegins(r) \/ WriterWrote(r)
      PROVE  RecordingsGoOn
  <2>1. rec[r] \in Recording
      BY <1>0, Element
  <2>2. /\ DOMAIN rec' = DOMAIN rec
        /\ \A t \in DOMAIN rec : t # r => rec'[t] = rec[t]
        /\ rec'[r].project = rec[r].project /\ rec'[r].run = rec[r].run /\ rec'[r].asked = rec[r].asked
        /\ rec[r].reader = "out" => rec'[r].reader = "out"
    <3>1. CASE ReaderBegins(r)
        BY <2>1, <3>1 DEF ReaderBegins, Recording
    <3>2. CASE ReaderRead(r)
      <4>1. PICK failed \in BOOLEAN, reader \in {"on", "out"} :
                rec' = [rec EXCEPT ![r].reader = reader, ![r].failed = @ \/ failed]
          BY <3>2 DEF ReaderRead
      <4>2. rec[r].reader = "busy"
          BY <3>2 DEF ReaderRead
      <4> QED BY <2>1, <4>1, <4>2 DEF Recording
    <3>3. CASE WriterBegins(r)
        BY <2>1, <3>3 DEF WriterBegins, Recording
    <3>4. CASE WriterWrote(r)
      <4>1. PICK failed \in BOOLEAN, writer \in {"on"} \cup (IF rec[r].asked THEN {"out"} ELSE {}) :
                rec' = [rec EXCEPT ![r].frames = IF failed THEN @ ELSE @ + 1, ![r].failed = @ \/ failed,
                                   ![r].writer = writer]
          BY <3>4 DEF WriterWrote
      <4> QED BY <2>1, <4>1 DEF Recording
    <3> QED BY <1>2, <3>1, <3>2, <3>3, <3>4
  <2> QED BY <2>2 DEF RecordingsGoOn
<1>3. ASSUME NEW r \in DOMAIN rec, StopRecording(r) PROVE RecordingsGoOn
  <2>1. /\ StoppedRecording(rec[r]) \in Recording /\ StoppedRecording(rec[r]).asked
        /\ StoppedRecording(rec[r]).project = rec[r].project /\ StoppedRecording(rec[r]).run = rec[r].run
        /\ rec[r].reader = "out" => StoppedRecording(rec[r]).reader = "out"
      BY <1>0, Element, StoppedOneRecording
  <2> QED BY <1>0, <1>3, <2>1, Replaced DEF StopRecording, RecordingsGoOn
<1>4. ASSUME NEW p \in Projects, Stop(p) PROVE RecordingsGoOn
  <2> DEFINE after(x) == EndedRecorder(IF x.project = p /\ x.held THEN StoppedRecording(x) ELSE x)
  <2>1. ASSUME NEW r \in DOMAIN rec
        PROVE  /\ after(rec[r]).asked
               /\ after(rec[r]).project = rec[r].project /\ after(rec[r]).run = rec[r].run
               /\ rec[r].reader = "out" => after(rec[r]).reader = "out"
      BY <1>0, Element, StoppedOneRecording, EndedOneRecorder
  <2>2. rec' = [r \in DOMAIN rec |-> after(rec[r])]
      BY <1>4 DEF Stop
  <2> HIDE DEF after
  <2> QED BY <2>1, <2>2 DEF RecordingsGoOn
<1>5. ASSUME rec' = rec PROVE RecordingsGoOn
    BY <1>5 DEF RecordingsGoOn
<1>6. ASSUME \/ Register \/ TestBegins \/ TestEnds \/ StartRuns \/ ReplaySteps \/ FaultSteps \/ UNCHANGED vars
             \/ \E p \in Projects : StartLooks(p) \/ SendCyclic(p) \/ \E paused \in BOOLEAN : StartReplay(p, paused)
             \/ \E s \in DOMAIN sender : StopSender(s) \/ Status(s) \/ LoopSends(s) \/ LoopSent(s)
       PROVE  rec' = rec
    BY <1>6, ReplayKeeps, FaultKeeps
       DEF Register, TestBegins, TestEnds, StartRuns, StartLooks, SendCyclic, StartReplay, StopSender, Status,
           LoopSends, LoopSent, vars
<1> QED BY <1>1, <1>2, <1>3, <1>4, <1>5, <1>6 DEF Next, ReplaySteps, FaultSteps

\* The replays: one that was stopped, or whose worker is out, stays so.
LEMMA NextReplays == ASSUME Typed, [Next]_vars PROVE ReplaysGoOn
<1>0. replay \in Seq(Replay)
    BY DEF Typed
<1>1. ASSUME NEW p \in Projects, NEW paused \in BOOLEAN, StartReplay(p, paused) PROVE ReplaysGoOn
  <2> DEFINE new == [run |-> run.number, is |-> IF paused THEN "paused" ELSE "playing", cmd |-> "none",
                     worker |-> "on", asked |-> FALSE]
  <2>1. new \in Replay
      BY DEF Typed, Replay
  <2>2. p # Nobody
      BY BackgroundAssumption DEF BackgroundAssumption
  <2>3. ASSUME NEW r \in DOMAIN replay'
        PROVE  (r \in DOMAIN replay /\ replay'[r] = replay[r]) \/ replay'[r] = new
      BY <1>0, <1>1, <2>1, Appended DEF StartReplay
  <2> QED BY <1>1, <2>2, <2>3 DEF ReplaysGoOn, StartReplay, Started
<1>2. ASSUME NEW r \in DOMAIN replay,
             \/ PlayerTurns(r) \/ PlayerSends(r) \/ PlayerSent(r) \/ StopReplay(r)
             \/ \E is \in {"playing", "paused"} : Control(r, is)
      PROVE  ReplaysGoOn
  <2>1. replay[r] \in Replay
      BY <1>0, Element
  <2>2. /\ DOMAIN replay' = DOMAIN replay
        /\ \A t \in DOMAIN replay : t # r => replay'[t] = replay[t]
        /\ replay'[r].run = replay[r].run
        /\ replay[r].asked => replay'[r].asked
        /\ replay[r].worker = "out" => replay'[r].worker = "out"
    <3>1. CASE PlayerTurns(r)
        BY <2>1, <3>1 DEF PlayerTurns, Replay
    <3>2. CASE PlayerSends(r) \/ PlayerSent(r)
        BY <2>1, <3>2 DEF PlayerSends, PlayerSent, Replay
    <3>3. CASE StopReplay(r)
        BY <2>1, <3>3, EndedOneSession DEF StopReplay
    <3>4. ASSUME NEW is \in {"playing", "paused"}, Control(r, is)
          PROVE  /\ DOMAIN replay' = DOMAIN replay
                 /\ \A t \in DOMAIN replay : t # r => replay'[t] = replay[t]
                 /\ replay'[r].run = replay[r].run
                 /\ replay[r].asked => replay'[r].asked
                 /\ replay[r].worker = "out" => replay'[r].worker = "out"
        BY <2>1, <3>4 DEF Control, Replay
    <3> QED BY <1>2, <3>1, <3>2, <3>3, <3>4
  <2> QED BY <2>2 DEF ReplaysGoOn
<1>3. ASSUME NEW p \in Projects, Stop(p) PROVE ReplaysGoOn
  <2>1. ASSUME NEW r \in DOMAIN replay
        PROVE  /\ EndedSession(replay[r]).run = replay[r].run /\ EndedSession(replay[r]).asked
               /\ replay[r].worker = "out" => EndedSession(replay[r]).worker = "out"
      BY <1>0, Element, EndedOneSession
  <2>2. replay' = [r \in DOMAIN replay |-> EndedSession(replay[r])]
      BY <1>3 DEF Stop
  <2> QED BY <2>1, <2>2 DEF ReplaysGoOn
<1>4. ASSUME replay' = replay PROVE ReplaysGoOn
    BY <1>4 DEF ReplaysGoOn
<1>5. ASSUME \/ Register \/ TestBegins \/ TestEnds \/ StartRuns \/ RecordingSteps \/ FaultSteps \/ UNCHANGED vars
             \/ \E p \in Projects : StartLooks(p) \/ SendCyclic(p) \/ Record(p)
             \/ \E s \in DOMAIN sender : StopSender(s) \/ Status(s) \/ LoopSends(s) \/ LoopSent(s)
       PROVE  replay' = replay
    BY <1>5, RecordingKeeps, FaultKeeps
       DEF Register, TestBegins, TestEnds, StartRuns, StartLooks, SendCyclic, Record, StopSender, Status,
           LoopSends, LoopSent, vars
<1> QED BY <1>1, <1>2, <1>3, <1>4, <1>5 DEF Next, RecordingSteps, FaultSteps

-------------------------------------------------------------------------------
(* What a run leaves *)

\* Whatever goes on was begun in some run so far, by that run's project.
Belongs ==
    /\ \A s \in DOMAIN sender :
        /\ sender[s].run <= run.number
        /\ run.project # Nobody /\ sender[s].run = run.number => sender[s].project = run.project
    /\ \A r \in DOMAIN rec :
        /\ rec[r].run <= run.number
        /\ run.project # Nobody /\ rec[r].run = run.number => rec[r].project = run.project
    /\ \A r \in DOMAIN replay : replay[r].run <= run.number

\* The run goes on, ends, or a new one begins.
LEMMA NextRun ==
    ASSUME [Next]_vars
    PROVE  run' = run \/ StartRuns \/ \E p \in Projects : Stop(p)
<1>1. ASSUME NEW p \in Projects,
             StartLooks(p) \/ SendCyclic(p) \/ Record(p) \/ \E paused \in BOOLEAN : StartReplay(p, paused)
      PROVE  run' = run
    BY <1>1 DEF StartLooks, SendCyclic, Record, StartReplay
<1>2. ASSUME \/ Register \/ TestBegins \/ TestEnds \/ RecordingSteps \/ ReplaySteps \/ FaultSteps \/ UNCHANGED vars
             \/ \E s \in DOMAIN sender : StopSender(s) \/ Status(s) \/ LoopSends(s) \/ LoopSent(s)
      PROVE  run' = run
    BY <1>2, RecordingKeeps, ReplayKeeps, FaultKeeps
       DEF Register, TestBegins, TestEnds, StopSender, Status, LoopSends, LoopSent, vars
<1> QED BY <1>1, <1>2 DEF Next, RecordingSteps, ReplaySteps, FaultSteps

\* The stop of a project asks all that goes on in its run: what it no longer holds was asked before.
LEMMA StopAsksAll ==
    ASSUME Typed, Belongs, NothingOutlivesItsRun, NEW p \in Projects, Stop(p)
    PROVE  /\ \A s \in DOMAIN sender' : sender'[s].asked
           /\ \A r \in DOMAIN rec' : rec'[r].asked
           /\ \A r \in DOMAIN replay' : replay'[r].asked
<1>0. run.project = p /\ p # Nobody
    BY BackgroundAssumption DEF BackgroundAssumption, Stop, Started
<1>1. ASSUME NEW s \in DOMAIN sender PROVE sender'[s].asked
  <2>1. sender[s] \in Sender
      BY Element DEF Typed
  <2>2. sender'[s] = IF s \in Senders(p) THEN Stopped(sender[s]) ELSE sender[s]
      BY DEF Stop
  <2>3. CASE s \in Senders(p)
      BY <2>1, <2>2, <2>3, StoppedSender
  <2>4. CASE sender[s].project # p
      BY <1>0, <2>2, <2>4 DEF Belongs, NothingOutlivesItsRun, Senders
  <2>5. CASE sender[s].final # None
      BY <2>1, <2>2, <2>5 DEF Sender, Senders
  <2> QED BY <2>3, <2>4, <2>5 DEF Senders
<1>2. ASSUME NEW r \in DOMAIN rec PROVE rec'[r].asked
  <2>1. rec[r] \in Recording
      BY Element DEF Typed
  <2> QED BY <2>1, StoppedOneRecording, EndedOneRecorder DEF Stop
<1>3. ASSUME NEW r \in DOMAIN replay PROVE replay'[r].asked
  <2>1. replay[r] \in Replay
      BY Element DEF Typed
  <2> QED BY <2>1, EndedOneSession DEF Stop
<1>4. DOMAIN sender' = DOMAIN sender /\ DOMAIN rec' = DOMAIN rec /\ DOMAIN replay' = DOMAIN replay
    BY DEF Stop
<1> QED BY <1>1, <1>2, <1>3, <1>4

\* No step breaks either.
LEMMA NextOutlives ==
    ASSUME Typed, Belongs, NothingOutlivesItsRun, [Next]_vars
    PROVE  Belongs' /\ NothingOutlivesItsRun'
<1>1. SendersGoOn /\ RecordingsGoOn /\ ReplaysGoOn
    BY NextSenders, NextRecordings, NextReplays
<1>2. /\ run.number \in Nat
      /\ \A s \in DOMAIN sender : sender[s].run \in Nat
      /\ \A r \in DOMAIN rec : rec[r].run \in Nat
      /\ \A r \in DOMAIN replay : replay[r].run \in Nat
  <2>1. /\ \A s \in DOMAIN sender : sender[s] \in Sender
        /\ \A r \in DOMAIN rec : rec[r] \in Recording
        /\ \A r \in DOMAIN replay : replay[r] \in Replay
      BY Element DEF Typed
  <2> QED BY <2>1 DEF Typed, Sender, Recording, Replay
<1>3. CASE run' = run
  <2>1. Belongs'
      BY <1>1, <1>2, <1>3 DEF Belongs, SendersGoOn, RecordingsGoOn, ReplaysGoOn
  <2>2. NothingOutlivesItsRun'
      BY <1>1, <1>2, <1>3 DEF NothingOutlivesItsRun, SendersGoOn, RecordingsGoOn, ReplaysGoOn
  <2> QED BY <2>1, <2>2
<1>4. ASSUME NEW p \in Projects, Stop(p) PROVE Belongs' /\ NothingOutlivesItsRun'
  <2>1. run'.project = Nobody /\ run'.number = run.number
      BY <1>4 DEF Stop, Typed
  <2>2. Belongs'
      BY <1>1, <1>2, <2>1 DEF Belongs, SendersGoOn, RecordingsGoOn, ReplaysGoOn
  <2>3. NothingOutlivesItsRun'
      BY <1>4, <2>1, StopAsksAll DEF NothingOutlivesItsRun
  <2> QED BY <2>2, <2>3
<1>5. CASE StartRuns /\ run' # run
  <2>1. Released /\ run.project = Nobody /\ run'.number = run.number + 1
      BY <1>5, StartedOrNot DEF StartRuns, Typed
  <2>2. /\ \A s \in DOMAIN sender' : sender'[s].run < run'.number /\ sender'[s].asked /\ sender'[s].loop = "out"
        /\ \A r \in DOMAIN rec' : rec'[r].run < run'.number /\ rec'[r].asked /\ rec'[r].reader = "out"
        /\ \A r \in DOMAIN replay' :
                replay'[r].run < run'.number /\ replay'[r].asked /\ replay'[r].worker = "out"
      BY <1>1, <1>2, <2>1
         DEF Belongs, NothingOutlivesItsRun, SendersGoOn, RecordingsGoOn, ReplaysGoOn, Released
  <2>3. /\ \A s \in DOMAIN sender' : sender'[s].run \in Nat
        /\ \A r \in DOMAIN rec' : rec'[r].run \in Nat
        /\ \A r \in DOMAIN replay' : replay'[r].run \in Nat
      BY <1>1, <1>2, <2>1 DEF SendersGoOn, RecordingsGoOn, ReplaysGoOn
  <2> QED BY <1>2, <2>1, <2>2, <2>3 DEF Belongs, NothingOutlivesItsRun
<1> QED BY <1>3, <1>4, <1>5, NextRun

-------------------------------------------------------------------------------
(* What a test finds *)

\* Between tests no handler is left; while the suite's project is started, no fault and no sender
\* that was not asked to end.
Between ==
    ~test.on =>
        /\ handlers = {}
        /\ Started(Suite) => fault = Cleared /\ \A s \in DOMAIN sender : sender[s].asked

IInv == Typed /\ Belongs /\ NothingOutlivesItsRun /\ Between /\ TestInheritsNothing

\* The end of a test leaves none of the senders of the suite's project unasked.
LEMMA TestEndAsksAll ==
    ASSUME Typed, Belongs, NothingOutlivesItsRun, TestEnds, Started(Suite)
    PROVE  \A s \in DOMAIN sender' : sender'[s].asked
<1>0. run.project = Suite /\ Suite # Nobody
    BY BackgroundAssumption DEF BackgroundAssumption, Started
<1>1. sender' = [s \in DOMAIN sender |-> IF s \in Senders(Suite) THEN Stopped(sender[s]) ELSE sender[s]]
    BY DEF TestEnds
<1>2. ASSUME NEW s \in DOMAIN sender PROVE sender'[s].asked
  <2>1. sender[s] \in Sender
      BY Element DEF Typed
  <2>2. CASE s \in Senders(Suite)
      BY <1>1, <2>1, <2>2, StoppedSender
  <2>3. CASE sender[s].project # Suite
      BY <1>0, <1>1, <2>3 DEF Belongs, NothingOutlivesItsRun, Senders
  <2>4. CASE sender[s].final # None
      BY <1>1, <2>1, <2>4 DEF Sender, Senders
  <2> QED BY <2>2, <2>3, <2>4 DEF Senders
<1> QED BY <1>1, <1>2

\* No step breaks what holds between tests and in them.
LEMMA NextAlone == ASSUME IInv, [Next]_vars PROVE Between' /\ TestInheritsNothing'
<1> USE DEF IInv
<1>0. SendersGoOn
    BY NextSenders
<1>1. ASSUME test' = test, handlers' = handlers, heard' = heard, run' = run, fault' = fault
      PROVE  Between' /\ TestInheritsNothing'
  <2>1. ~test.on => \A s \in DOMAIN sender' : Started(Suite) => sender'[s].asked
      BY <1>0 DEF Between, SendersGoOn
  <2>2. test.on => \A s \in DOMAIN sender' : sender'[s].test # test.number => sender'[s].asked
      BY <1>0 DEF TestInheritsNothing, SendersGoOn
  <2>3. Between'
      BY <1>1, <2>1 DEF Between, Started, Cleared
  <2>4. TestInheritsNothing'
      BY <1>1, <2>2 DEF TestInheritsNothing
  <2> QED BY <2>3, <2>4
<1>2. ASSUME NEW s \in DOMAIN sender, LoopSent(s) PROVE Between' /\ TestInheritsNothing'
  <2>1. ~test.on => \A t \in DOMAIN sender' : Started(Suite) => sender'[t].asked
      BY <1>0 DEF Between, SendersGoOn
  <2>2. test.on => \A t \in DOMAIN sender' : sender'[t].test # test.number => sender'[t].asked
      BY <1>0 DEF TestInheritsNothing, SendersGoOn
  <2>3. /\ UNCHANGED <<run, fault, handlers, test>>
        /\ heard'.of \subseteq heard.of \cup {test.number}
      BY <1>2 DEF LoopSent, Hears, Typed
  <2>4. Between'
      BY <2>1, <2>3 DEF Between, Started, Cleared
  <2>5. TestInheritsNothing'
      BY <2>2, <2>3 DEF TestInheritsNothing
  <2> QED BY <2>4, <2>5
<1>3. ASSUME NEW m \in Names, NEW asked \in Durations \cup {None}, NEW by_message \in BOOLEAN,
             Arm(m, asked, by_message)
      PROVE  Between' /\ TestInheritsNothing'
  <2>1. /\ test.on /\ test' = test /\ handlers' = handlers /\ heard' = heard /\ sender' = sender
        /\ fault' = [fault EXCEPT ![m] = [ms |-> Duration(asked), test |-> test.number]]
      BY <1>3 DEF Arm, Acting
  <2>2. \A n \in Names : fault'[n] # NoFault => fault'[n].test = test.number
      BY <2>1 DEF TestInheritsNothing, Typed
  <2> QED BY <2>1, <2>2 DEF Between, TestInheritsNothing
<1>4. ASSUME NEW m \in Names, Lift(m) PROVE Between' /\ TestInheritsNothing'
  <2>1. /\ UNCHANGED <<run, sender, handlers, heard, test>>
        /\ fault' = [fault EXCEPT ![m] = NoFault]
      BY <1>4 DEF Lift
  <2>2. \A n \in Names : fault'[n] = fault[n] \/ fault'[n] = NoFault
      BY <2>1 DEF Typed
  <2>3. fault = Cleared => fault' = Cleared
      BY <2>1 DEF Cleared
  <2> QED BY <2>1, <2>2, <2>3 DEF Between, TestInheritsNothing, Started, Cleared
<1>5. CASE StartRuns
  <2>1. UNCHANGED <<handlers, heard, test>> /\ run.project = Nobody
      BY <1>5 DEF StartRuns, Typed
  <2>2. run' = run \/ fault' = Cleared
      BY <1>5, StartedOrNot
  <2>3. fault' = fault \/ fault' = Cleared
      BY <1>5, StartedOrNot
  <2>4. \A s \in DOMAIN sender' : sender'[s].asked
      BY <1>0, <2>1 DEF NothingOutlivesItsRun, SendersGoOn
  <2>5. Started(Suite)' => fault' = Cleared
      BY <2>1, <2>2, BackgroundAssumption DEF BackgroundAssumption, Started
  <2>6. Between'
      BY <2>1, <2>4, <2>5 DEF Between, Cleared
  <2>7. TestInheritsNothing'
      BY <2>1, <2>3, <2>4 DEF TestInheritsNothing, Cleared
  <2> QED BY <2>6, <2>7
<1>6. ASSUME NEW p \in Projects, Stop(p) PROVE Between' /\ TestInheritsNothing'
  <2>1. test.on /\ UNCHANGED <<fault, handlers, test>> /\ heard'.of = {}
      BY <1>6 DEF Stop, Acting, Frames
  <2>2. \A s \in DOMAIN sender' : sender'[s].asked
      BY <1>6, StopAsksAll
  <2> QED BY <2>1, <2>2 DEF Between, TestInheritsNothing
<1>7. CASE Register
    BY <1>7 DEF Register, Acting, Between, TestInheritsNothing
<1>8. CASE TestBegins
  <2>1. ~test.on /\ test'.on /\ handlers' = {} /\ heard'.of = {}
      BY <1>8 DEF TestBegins, Between, Reopened, Typed
  <2>2. fault' = Cleared /\ \A s \in DOMAIN sender' : sender'[s].asked
      BY <1>8 DEF TestBegins, Between
  <2> QED BY <2>1, <2>2 DEF Between, TestInheritsNothing, Cleared
<1>9. CASE TestEnds
  <2>1. ~test'.on /\ handlers' = {} /\ run' = run
      BY <1>9 DEF TestEnds, Typed
  <2>2. Started(Suite) => fault' = Cleared /\ \A s \in DOMAIN sender' : sender'[s].asked
      BY <1>9, TestEndAsksAll DEF TestEnds
  <2> QED BY <2>1, <2>2 DEF Between, TestInheritsNothing, Started, Cleared
<1>10. ASSUME NEW r \in DOMAIN replay, PlayerSent(r) PROVE Between' /\ TestInheritsNothing'
  <2>1. /\ UNCHANGED <<run, fault, handlers, test, sender>>
        /\ heard'.of \subseteq heard.of \cup {test.number}
      BY <1>10 DEF PlayerSent, Hears, Typed
  <2> QED BY <2>1 DEF Between, TestInheritsNothing, Started, Cleared
<1>11. ASSUME \/ \E p \in Projects : StartLooks(p) \/ SendCyclic(p) \/ Record(p)
                                      \/ \E paused \in BOOLEAN : StartReplay(p, paused)
              \/ \E s \in DOMAIN sender : StopSender(s) \/ Status(s) \/ LoopSends(s)
              \/ RecordingSteps \/ UNCHANGED vars
       PROVE  UNCHANGED <<test, handlers, heard, run, fault>>
    BY <1>11, RecordingKeeps
       DEF StartLooks, SendCyclic, Record, StartReplay, StopSender, Status, LoopSends, vars
<1>12. ASSUME NEW r \in DOMAIN replay,
              \/ PlayerTurns(r) \/ PlayerSends(r) \/ StopReplay(r)
              \/ \E is \in {"playing", "paused"} : Control(r, is)
       PROVE  UNCHANGED <<test, handlers, heard, run, fault>>
    BY <1>12 DEF PlayerTurns, PlayerSends, StopReplay, Control
<1> QED BY <1>1, <1>2, <1>3, <1>4, <1>5, <1>6, <1>7, <1>8, <1>9, <1>10, <1>11, <1>12
    DEF Next, RecordingSteps

-------------------------------------------------------------------------------
(* The theorems *)

\* The invariant holds at the start, and in every state.
LEMMA InitIInv == Init => IInv
<1>1. Init => Typed
    BY InitTyped
<1>2. Init => DOMAIN sender = {} /\ DOMAIN rec = {} /\ DOMAIN replay = {}
    BY DEF Init
<1> QED BY <1>1, <1>2 DEF Init, IInv, Belongs, NothingOutlivesItsRun, Between, TestInheritsNothing, Started,
                          Cleared, Frames

LEMMA AlwaysIInv == Spec => []IInv
<1>1. IInv /\ [Next]_vars => IInv'
    BY NextTyped, NextOutlives, NextAlone DEF IInv
<1> QED BY InitIInv, <1>1, PTL DEF Spec

\* The variables keep their types; no count and no number passes its bound.
THEOREM TypeCorrect == Spec => []TypeOK
<1>1. IInv => TypeOK
  <2>1. ASSUME Typed, NEW s \in DOMAIN sender
        PROVE  sender[s].loop \in {"idle", "sending", "out"} /\ sender[s].sent \in 0 .. MaxFrames
               /\ sender[s].final \in -1 .. MaxFrames
    <3>1. sender[s] \in Sender
        BY <2>1, Element DEF Typed
    <3> QED BY <3>1, BackgroundAssumption DEF Sender, Frame, None, BackgroundAssumption
  <2>2. ASSUME Typed, NEW r \in DOMAIN rec
        PROVE  {rec[r].reader, rec[r].writer} \subseteq {"on", "busy", "out"} /\ rec[r].last \in -1 .. MaxFrames
    <3>1. rec[r] \in Recording
        BY <2>2, Element DEF Typed
    <3> QED BY <3>1, BackgroundAssumption DEF Recording, Frame, None, BackgroundAssumption
  <2>3. ASSUME Typed, NEW r \in DOMAIN replay
        PROVE  replay[r].worker \in {"on", "busy", "out"} /\ replay[r].is \in {"playing", "paused", "finished"}
    <3>1. replay[r] \in Replay
        BY <2>3, Element DEF Typed
    <3> QED BY <3>1 DEF Replay
  <2> QED BY <2>1, <2>2, <2>3 DEF IInv, Typed, TypeOK
<1> QED BY AlwaysIInv, <1>1, PTL

\* Project.stop and start: whatever was begun in a run that is over was asked to end, whoever held
\* it, and is out of its last call before the next run is on.
THEOREM NoneOutlivesItsRun == Spec => []NothingOutlivesItsRun
BY AlwaysIInv, PTL DEF IInv

\* pytest_plugin.project: a test finds nothing of the tests before it, whatever they did.
THEOREM EachTestAlone == Spec => []TestInheritsNothing
BY AlwaysIInv, PTL DEF IInv

\* Recording.stop: the counts a recording has are those of its file, on whichever thread it ended.
THEOREM CountsAreTheFiles == Spec => []RecordingCountsAll
<1>1. IInv => RecordingCountsAll
  <2>1. ASSUME Typed, NEW r \in DOMAIN rec PROVE Counts(rec[r]) = rec[r].frames
    <3>1. rec[r] \in Recording
        BY <2>1, Element DEF Typed
    <3> QED BY <3>1 DEF Recording, Counts
  <2> QED BY <2>1 DEF IInv, RecordingCountsAll
<1> QED BY AlwaysIInv, <1>1, PTL

-------------------------------------------------------------------------------
(* What a sender says it sent *)

\* A final status counts all that was sent, and so it will of a handle that is gone, unless a start
\* let that go unread; and with all released at its first look, a start has read its project's.
CountsAll(x) ==
    /\ x.final # None => ~x.known /\ (x.final = x.sent \/ x.skipped)
    /\ ~x.known => x.loop = "out" /\ (x.final = None => x.skipped)
CountedAll == \A s \in DOMAIN sender : CountsAll(sender[s])
ReadByTheStart == starting.read => \A s \in DOMAIN sender : sender[s].project = starting.by => sender[s].final # None

LEMMA StoppedCounts == ASSUME NEW x \in Sender, CountsAll(x) PROVE CountsAll(Stopped(x))
<1>1. CASE x.final # None
    BY <1>1 DEF Stopped
<1>2. CASE x.final = None /\ ~x.known
    BY <1>2 DEF CountsAll, Stopped, Ended, Sender
<1>3. CASE x.final = None /\ x.known
  <2>1. CASE x.loop = "sending"
      BY <1>3, <2>1 DEF CountsAll, Stopped, Sender
  <2>2. CASE x.loop # "sending"
    <3> DEFINE y == Stopped(x)
    <3>1. y.final = x.sent /\ y.sent = x.sent /\ y.known = FALSE /\ y.loop = "out"
        BY <1>3, <2>2 DEF Stopped, Ended, Sender
    <3>2. x.sent # None
        BY BackgroundAssumption DEF BackgroundAssumption, Sender, Frame, None
    <3> QED BY <3>1, <3>2 DEF CountsAll
  <2> QED BY <2>1, <2>2
<1> QED BY <1>1, <1>2, <1>3

LEMMA SeenCounts == ASSUME NEW x \in Sender, CountsAll(x), x.final = None PROVE CountsAll(Seen(x))
<1>1. CASE x.known
    BY <1>1 DEF CountsAll, Seen, Sender
<1>2. CASE ~x.known
    BY <1>2 DEF CountsAll, Seen, Ended, Sender
<1> QED BY <1>1, <1>2

\* A stop of a sender whose loop is out has its final status; and one that has it keeps it.
LEMMA Final ==
    ASSUME NEW x \in Sender
    PROVE  /\ x.loop = "out" \/ x.final # None => Stopped(x).final # None
           /\ x.final # None => Seen(x).final # None
BY BackgroundAssumption DEF BackgroundAssumption, Stopped, Seen, Ended, Sender, Frame, None

\* A run that comes up skips no sender but those it says.
LEMMA RetiredCounts ==
    ASSUME NEW x \in Sender, CountsAll(x), x.loop = "out",
           starting.read /\ x.project = starting.by => x.final # None
    PROVE  CountsAll(Retired(x))
<1>1. /\ Retired(x).final = x.final /\ Retired(x).sent = x.sent /\ Retired(x).loop = x.loop
      /\ Retired(x).known = FALSE
      /\ Retired(x).skipped = (x.skipped \/ (x.final = None /\ ~(starting.read /\ x.project = starting.by)))
    BY DEF Retired, Sender
<1> QED BY <1>1 DEF CountsAll

\* No step breaks it.
LEMMA NextCounted ==
    ASSUME IInv, CountedAll, ReadByTheStart, [Next]_vars
    PROVE  CountedAll' /\ ReadByTheStart'
<1>0. /\ sender \in Seq(Sender) /\ \A s \in DOMAIN sender : sender[s] \in Sender /\ CountsAll(sender[s])
      /\ Still.read = FALSE
    BY Element DEF IInv, Typed, CountedAll, Still
<1>1. ASSUME NEW s \in DOMAIN sender, NEW x \in Sender, CountsAll(x), sender' = [sender EXCEPT ![s] = x],
             starting = Still, starting' = starting
      PROVE  CountedAll' /\ ReadByTheStart'
    BY <1>0, <1>1, Replaced DEF CountedAll, ReadByTheStart
<1>2. ASSUME NEW p \in Projects, SendCyclic(p) PROVE CountedAll' /\ ReadByTheStart'
  <2> DEFINE new == [project |-> p, run |-> run.number, test |-> test.number, known |-> TRUE, loop |-> "idle",
                     asked |-> FALSE, sent |-> 0, seen |-> 0, final |-> None, skipped |-> FALSE]
  <2>1. new \in Sender
      BY <1>2, BackgroundAssumption
         DEF BackgroundAssumption, SendCyclic, Acting, IInv, Typed, Sender, Frame, None
  <2>2. CountsAll(new)
      BY DEF CountsAll
  <2>3. ASSUME NEW s \in DOMAIN sender' PROVE (s \in DOMAIN sender /\ sender'[s] = sender[s]) \/ sender'[s] = new
      BY <1>0, <1>2, <2>1, Appended DEF SendCyclic
  <2>4. ReadByTheStart'
      BY <1>0, <1>2 DEF SendCyclic, Acting, ReadByTheStart
  <2> QED BY <1>0, <2>2, <2>3, <2>4 DEF CountedAll
<1>3. ASSUME NEW s \in DOMAIN sender, StopSender(s) \/ Status(s) PROVE CountedAll' /\ ReadByTheStart'
    BY <1>0, <1>1, <1>3, StoppedSender, SeenSender, StoppedCounts, SeenCounts DEF StopSender, Status, Acting
<1>4. ASSUME NEW s \in DOMAIN sender, LoopSends(s) \/ LoopSent(s) PROVE CountedAll' /\ ReadByTheStart'
  <2>1. sender[s] \in Sender /\ sender[s].known /\ sender[s].final = None
      BY <1>0, <1>4 DEF LoopSends, LoopSent, CountsAll, Sender
  <2>2. /\ DOMAIN sender' = DOMAIN sender
        /\ \A t \in DOMAIN sender : t # s => sender'[t] = sender[t]
        /\ sender'[s].known /\ sender'[s].final = sender[s].final /\ sender'[s].project = sender[s].project
      BY <1>4, <2>1 DEF LoopSends, LoopSent, Sender
  <2>3. CountsAll(sender'[s])
      BY <2>1, <2>2 DEF CountsAll
  <2>4. starting' = starting
      BY <1>4 DEF LoopSends, LoopSent
  <2>5. \A t \in DOMAIN sender :
            sender'[t].project = sender[t].project /\ sender'[t].final = sender[t].final
      BY <2>2
  <2> QED BY <1>0, <2>2, <2>3, <2>4, <2>5 DEF CountedAll, ReadByTheStart
<1>5. ASSUME NEW P, sender' = [s \in DOMAIN sender |-> IF s \in P THEN Stopped(sender[s]) ELSE sender[s]]
      PROVE  CountedAll'
    BY <1>0, <1>5, StoppedCounts DEF CountedAll
<1>6. CASE StartRuns
  <2>1. ReadByTheStart'
      BY <1>0, <1>6 DEF StartRuns, ReadByTheStart
  <2>2. CASE sender' = sender
      BY <2>1, <2>2 DEF CountedAll
  <2>3. CASE Released /\ sender' = [s \in DOMAIN sender |-> Retired(sender[s])]
    <3>1. ASSUME NEW s \in DOMAIN sender PROVE CountsAll(Retired(sender[s]))
        BY <1>0, <2>3, RetiredCounts DEF Released, ReadByTheStart
    <3> QED BY <2>1, <2>3, <3>1 DEF CountedAll
  <2> QED BY <1>6, <2>2, <2>3, StartedOrNot
<1>7. ASSUME NEW p \in Projects, StartLooks(p) PROVE CountedAll' /\ ReadByTheStart'
  <2>1. /\ starting' = [by |-> p, read |-> Released]
        /\ sender' = [s \in DOMAIN sender |->
                        IF Released /\ s \in Senders(p) THEN Stopped(sender[s]) ELSE sender[s]]
      BY <1>7 DEF StartLooks
  <2>2. CountedAll'
    <3>1. sender' = [s \in DOMAIN sender |->
                        IF s \in {t \in Senders(p) : Released} THEN Stopped(sender[s]) ELSE sender[s]]
        BY <2>1
    <3> QED BY <1>5, <3>1
  <2>3. ASSUME Released, NEW s \in DOMAIN sender, sender'[s].project = p PROVE sender'[s].final # None
    <3>1. sender[s] \in Sender /\ sender[s].loop = "out"
        BY <1>0, <2>3 DEF Released
    <3>2. CASE s \in Senders(p)
        BY <2>1, <2>3, <3>1, <3>2, Final
    <3>3. CASE s \notin Senders(p)
        BY <2>1, <2>3, <3>3 DEF Senders
    <3> QED BY <3>2, <3>3
  <2>4. ReadByTheStart'
      BY <2>1, <2>3 DEF ReadByTheStart
  <2> QED BY <2>2, <2>4
<1>8. ASSUME UNCHANGED <<sender, starting>> PROVE CountedAll' /\ ReadByTheStart'
    BY <1>8 DEF CountedAll, ReadByTheStart
<1>9. ASSUME NEW p \in Projects, Stop(p) PROVE CountedAll' /\ ReadByTheStart'
  <2>1. CountedAll'
      BY <1>5, <1>9 DEF Stop
  <2> QED BY <1>0, <1>9, <2>1 DEF Stop, Acting, ReadByTheStart
<1>10. CASE TestEnds
  <2>1. \/ sender' = [s \in DOMAIN sender |-> IF s \in Senders(Suite) THEN Stopped(sender[s]) ELSE sender[s]]
        \/ sender' = sender
      BY <1>10 DEF TestEnds
  <2>2. CountedAll'
      BY <1>5, <2>1 DEF CountedAll
  <2> QED BY <1>0, <1>10, <2>2 DEF TestEnds, Acting, ReadByTheStart
<1>11. ASSUME \/ Register \/ TestBegins \/ RecordingSteps \/ ReplaySteps \/ FaultSteps \/ UNCHANGED vars
              \/ \E p \in Projects : Record(p) \/ \E paused \in BOOLEAN : StartReplay(p, paused)
       PROVE  UNCHANGED <<sender, starting>>
    BY <1>11, RecordingKeeps, ReplayKeeps, FaultKeeps DEF Register, TestBegins, Record, StartReplay, vars
<1> QED BY <1>2, <1>3, <1>4, <1>6, <1>7, <1>8, <1>9, <1>10, <1>11 DEF Next, RecordingSteps, ReplaySteps, FaultSteps

\* CyclicSender.status after a stop counts every frame of the loop, of any number of projects, but
\* for a sender whose handle a start let go unread.
THEOREM FinalCountsAllSent == Spec => []FinalCountsAll
<1>1. Init => CountedAll /\ ReadByTheStart
    BY DEF Init, CountedAll, ReadByTheStart
<1>2. IInv /\ CountedAll /\ ReadByTheStart /\ [Next]_vars => CountedAll' /\ ReadByTheStart'
    BY NextCounted
<1>3. CountedAll => FinalCountsAll
    BY DEF CountedAll, CountsAll, FinalCountsAll
<1> QED BY AlwaysIInv, <1>1, <1>2, <1>3, PTL DEF Spec

-------------------------------------------------------------------------------
(* Readings beside a channel's frames *)

J1939Calls == {"messages", "expect_pgn", "faults", "addresses"}
NmCalls == {"nm_look", "nm_until"}

\* No listener knows a handle that was never opened, and one that knows none has nothing.
HandlesExist ==
    /\ j1939.h <= handles /\ (j1939.h = 0 => j1939.kept = 0 /\ j1939.lost = 0)
    /\ nm.h <= handles /\ (nm.states = "none" => nm.h = 0)

\* What a reading completed and the library neither has, nor gave, nor counted: what the listener
\* pulled from the handle it listens to, and that alone.
Rest(e) == e.made - (e.given + e.messages + e.faults + e.dropped)
Balanced == Rest(eng) = IF j1939.h = handle THEN j1939.kept + j1939.lost ELSE 0

\* The handle the newest NM listener is bound to reads by what it states, or not at all.
Configured == handle # 0 /\ nm.h = handle => eng.nm \in {nm.states, "none"}

\* A J1939 call has the handle its listener listens to; an NM call past its attachment goes on with
\* the handle its listener is bound to, or with none.
Stands ==
    /\ user.pc = "idle" => user.op = "none"
    /\ user.op \in J1939Calls \cup NmCalls => user.h \in 1 .. handles
    /\ user.op \in J1939Calls => j1939.h = user.h
    /\ user.op \in NmCalls => nm.states # "none"
    /\ user.op \in NmCalls /\ user.pc \in {"read", "reading", "view"} /\ handle = user.h => nm.h = user.h
    /\ user.pc \in {"take", "pull"} => user.op \in J1939Calls
    /\ user.pc \in {"attach", "view"} => user.op \in NmCalls
    /\ user.pc \in {"lin", "inside"} => user.op = "lin"
    /\ user.pc = "told" /\ user.op # "lin" => user.told = nm.states

\* A LIN object's tap, and the tap a call is made on, are of the bus the object is named for: its own,
\* or the one of the run it was tapped in.
OfItsBus(t, b, r) ==
    /\ t \in DOMAIN tap /\ b \in DOMAIN bus
    /\ tap[t].own = bus[b].own /\ tap[t].name = bus[b].name /\ (tap[t].own \/ tap[t].run = r)
TapsMatch ==
    /\ \A b \in DOMAIN bus : bus[b].h # 0 => OfItsBus(bus[b].h, b, bus[b].run)
    /\ user.op = "lin" => OfItsBus(user.h, user.fh, user.run)

ReadingsInv == ReadingsTypeOK /\ HandlesExist /\ Balanced /\ Configured /\ Stands /\ TapsMatch /\ NoTapLost

LEMMA QueueIs == _QUEUE \in Nat /\ 0 \in 0 .. _QUEUE
<1>1. _QUEUE \in Nat
    BY ReadingsAssumption DEF ReadingsAssumption
<1> QED BY <1>1

LEMMA DeafIs == Deaf \in Reading /\ Rest(Deaf) = 0
<1>1. "none" \in States
    BY DEF States
<1> QED BY <1>1, QueueIs DEF Deaf, Reading, Rest

LEMMA ReadingsBegin == ReadingsInit => ReadingsInv
<1> SUFFICES ASSUME ReadingsInit PROVE ReadingsInv
    OBVIOUS
<1>1. ReadingsTypeOK
  <2>1. <<>> \in Seq(Bus) /\ <<>> \in Seq(Tap) /\ Len(<<>>) = 0
      OBVIOUS
  <2>2. Deaf \in Reading /\ Idle \in UserState
      BY DeafIs DEF Idle, UserState, Steps, Operations, States
  <2>3. j1939 \in Listener /\ nm \in [states : States, h : Nat]
      BY QueueIs DEF ReadingsInit, Listener, States
  <2>4. orphans \subseteq DOMAIN tap /\ closing \in 0 .. Len(tap) /\ listed \in [b : 0 .. Len(bus), run : Nat]
      BY <2>1 DEF ReadingsInit
  <2>5. started \in BOOLEAN /\ wire \in BOOLEAN
      BY Zenon DEF ReadingsInit
  <2>7. run_no = 0 /\ named \in BusNames /\ handles = 0 /\ handle = 0
      BY Zenon DEF ReadingsInit
  <2>6. eng = Deaf /\ user = Idle /\ bus = <<>> /\ tap = <<>>
      BY DEF ReadingsInit
  <2> QED BY <2>1, <2>2, <2>3, <2>4, <2>5, <2>6, <2>7 DEF ReadingsTypeOK
<1>2. HandlesExist /\ Balanced /\ Configured /\ Stands
    BY DEF ReadingsInit, HandlesExist, Balanced, Configured, Stands, Rest, Deaf, Idle, J1939Calls, NmCalls
<1>3. TapsMatch /\ NoTapLost
    BY DEF ReadingsInit, TapsMatch, NoTapLost, Idle
<1> QED BY <1>1, <1>2, <1>3 DEF ReadingsInv

-------------------------------------------------------------------------------
(* The parts of a step *)

\* A message, or a fault, counted in a reading.
MessageCounted(e, m, n, d) == [e EXCEPT !.made = m, !.messages = n, !.dropped = d]
FaultCounted(e, m, n, d) == [e EXCEPT !.made = m, !.faults = n, !.dropped = d]
LEMMA MessageIn ==
    ASSUME NEW e \in Reading, NEW m \in Nat, NEW n \in 0 .. _QUEUE, NEW d \in Nat
    PROVE  /\ MessageCounted(e, m, n, d) \in Reading /\ MessageCounted(e, m, n, d).nm = e.nm
           /\ Rest(MessageCounted(e, m, n, d)) = m - (e.given + n + e.faults + d)
BY DEF Reading, Rest, MessageCounted

LEMMA FaultIn ==
    ASSUME NEW e \in Reading, NEW m \in Nat, NEW n \in 0 .. _QUEUE, NEW d \in Nat
    PROVE  /\ FaultCounted(e, m, n, d) \in Reading /\ FaultCounted(e, m, n, d).nm = e.nm
           /\ Rest(FaultCounted(e, m, n, d)) = m - (e.given + e.messages + n + d)
BY DEF Reading, Rest, FaultCounted

\* What is in a reading's places.
LEMMA ReadingIs ==
    ASSUME NEW e \in Reading
    PROVE  /\ e.messages \in 0 .. _QUEUE /\ e.faults \in 0 .. _QUEUE
           /\ e.dropped \in Nat /\ e.made \in Nat /\ e.given \in Nat /\ e.nm \in States
           /\ Rest(e) = e.made - (e.given + e.messages + e.faults + e.dropped)
BY DEF Reading, Rest

\* A frame read leaves the reading's balance, and its NM configuration.
LEMMA FedIs ==
    ASSUME eng \in Reading, NEW e \in Fed
    PROVE  e \in Reading /\ Rest(e) = Rest(eng) /\ e.nm = eng.nm
<1> DEFINE a == eng.made + 1
           m == IF eng.messages = _QUEUE THEN eng.messages ELSE eng.messages + 1
           dm == IF eng.messages = _QUEUE THEN eng.dropped + 1 ELSE eng.dropped
           f == IF eng.faults = _QUEUE THEN eng.faults ELSE eng.faults + 1
           df == IF eng.faults = _QUEUE THEN eng.dropped + 1 ELSE eng.dropped
<1>1. /\ eng.messages \in Nat /\ eng.faults \in Nat /\ eng.dropped \in Nat /\ eng.made \in Nat /\ eng.given \in Nat
      /\ Rest(eng) = eng.made - (eng.given + eng.messages + eng.faults + eng.dropped)
    BY ReadingIs, QueueIs
<1>2. \/ e = eng
      \/ e = MessageCounted(eng, a, m, dm)
      \/ e = FaultCounted(eng, a, f, df)
    BY DEF Fed, Full, MessageCounted, FaultCounted
<1>3. /\ m \in 0 .. _QUEUE /\ dm \in Nat /\ m \in Nat /\ m + dm = eng.messages + eng.dropped + 1
      /\ f \in 0 .. _QUEUE /\ df \in Nat /\ f \in Nat /\ f + df = eng.faults + eng.dropped + 1
    BY ReadingIs, QueueIs
<1>4. a \in Nat /\ a = eng.made + 1
    BY ReadingIs
<1> HIDE DEF a, m, dm, f, df
<1>5. a \in Nat /\ m \in 0 .. _QUEUE /\ dm \in Nat /\ f \in 0 .. _QUEUE /\ df \in Nat
    BY <1>3, <1>4
<1>6. CASE e = MessageCounted(eng, a, m, dm)
  <2> DEFINE c == MessageCounted(eng, a, m, dm)
  <2>1. c \in Reading /\ c.nm = eng.nm /\ Rest(c) = a - (eng.given + m + eng.faults + dm)
      BY <1>5, MessageIn
  <2>2. e = c
      BY <1>6
  <2> HIDE DEF c
  <2>3. e \in Reading /\ e.nm = eng.nm /\ Rest(e) = a - (eng.given + m + eng.faults + dm)
      BY <2>1, <2>2
  <2>4. eng.given + m + eng.faults + dm = (eng.given + eng.messages + eng.faults + eng.dropped) + 1
      BY <1>3, <1>1
  <2> QED BY <2>3, <2>4, <1>4, <1>1
<1>7. CASE e = FaultCounted(eng, a, f, df)
  <2> DEFINE c == FaultCounted(eng, a, f, df)
  <2>1. c \in Reading /\ c.nm = eng.nm /\ Rest(c) = a - (eng.given + eng.messages + f + df)
      BY <1>5, FaultIn
  <2>2. e = c
      BY <1>7
  <2> HIDE DEF c
  <2>3. e \in Reading /\ e.nm = eng.nm /\ Rest(e) = a - (eng.given + eng.messages + f + df)
      BY <2>1, <2>2
  <2>4. eng.given + eng.messages + f + df = (eng.given + eng.messages + eng.faults + eng.dropped) + 1
      BY <1>3, <1>1
  <2> QED BY <2>3, <2>4, <1>4, <1>1
<1> QED BY <1>2, <1>6, <1>7

\* What a handle is given to read by: what is stated, where the wire has it.
LEMMA AttachedIs ==
    ASSUME NEW s \in States, NEW w \in States, wire \in BOOLEAN
    PROVE  /\ Attached(s, w) \in States
           /\ (s = "wire" => wire) => Attached(s, w) = s
           /\ Attached(s, "none") \in {s, "none"}
           /\ s = "wire" /\ ~wire => Attached(s, w) \in {w, "none"}
BY DEF Attached, States

\* A handle opened has nothing yet, and reads by what the newest listener states.
LEMMA OpenedIs ==
    ASSUME j1939 \in Listener, nm \in [states : States, h : Nat], wire \in BOOLEAN
    PROVE  /\ Opened(j1939, nm) \in Reading /\ Rest(Opened(j1939, nm)) = 0
           /\ nm.states # "none" => Opened(j1939, nm).nm \in {nm.states, "none"}
<1> DEFINE s == IF nm.states = "none" THEN "wire" ELSE nm.states
           e == [Deaf EXCEPT !.on = j1939.asked, !.nm = Attached(s, "none")]
<1>1. s \in States /\ "none" \in States
    BY DEF States
<1>2. Attached(s, "none") \in States /\ Attached(s, "none") \in {s, "none"}
    BY <1>1, AttachedIs
<1>3. Opened(j1939, nm) = e
    BY DEF Opened
<1>4. Deaf \in Reading /\ Rest(Deaf) = 0
    BY DeafIs
<1>5. e \in Reading /\ Rest(e) = 0 /\ e.nm = Attached(s, "none")
  <2> HIDE DEF s
  <2> QED BY <1>2, <1>4 DEF Reading, Listener, Rest
<1> HIDE DEF e
<1> QED BY <1>2, <1>3, <1>5

LEMMA HeardIs ==
    ASSUME NEW e \in Reading
    PROVE  Heard(e) \in Reading /\ Rest(Heard(e)) = Rest(e) /\ Heard(e).nm = e.nm
BY DEF Heard, Reading, Rest

\* A listener keeps what it has of the handle it listens to, and nothing of another.
LEMMA ListeningIs ==
    ASSUME j1939 \in Listener, NEW h \in Nat
    PROVE  /\ Listening(j1939, h) \in Listener /\ Listening(j1939, h).h = h
           /\ Listening(j1939, h).kept + Listening(j1939, h).lost
                = IF j1939.h = h THEN j1939.kept + j1939.lost ELSE 0
           /\ j1939.h # h => Listening(j1939, h).kept = 0 /\ Listening(j1939, h).lost = 0
<1> DEFINE l == [j1939 EXCEPT !.h = h, !.kept = 0, !.lost = 0]
<1>1. \A k \in 0 .. _QUEUE, n \in Nat : LET r == [j1939 EXCEPT !.h = h, !.kept = k, !.lost = n]
                                     IN  r \in Listener /\ r.h = h /\ r.kept = k /\ r.lost = n
    BY DEF Listener
<1>2. l \in Listener /\ l.h = h /\ l.kept = 0 /\ l.lost = 0
    BY <1>1, QueueIs
<1> HIDE DEF l
<1>3. Listening(j1939, h) = IF j1939.h = h THEN j1939 ELSE l
    BY DEF Listening, l
<1> QED BY <1>2, <1>3

\* What is pulled is kept or counted lost.
LEMMA PulledIs ==
    ASSUME j1939 \in Listener, NEW n \in 0 .. _QUEUE
    PROVE  /\ Pulled(j1939, n) \in Listener /\ Pulled(j1939, n).h = j1939.h
           /\ Pulled(j1939, n).kept + Pulled(j1939, n).lost = j1939.kept + j1939.lost + n
<1> DEFINE k == j1939.kept + n  a == Min({_QUEUE, k})  d == j1939.kept + n - _QUEUE  c == Max({0, d})
           b == j1939.lost + c
<1>1. k \in Nat /\ k = j1939.kept + n /\ d = k - _QUEUE
    BY QueueIs DEF Listener
<1>2. Pulled(j1939, n) = [j1939 EXCEPT !.kept = a, !.lost = b]
    BY Zenon DEF Pulled
<1> HIDE DEF k, d
<1>3. a = IF k < _QUEUE THEN k ELSE _QUEUE
    BY <1>1, QueueIs DEF Min
<1>4. c = IF k < _QUEUE THEN 0 ELSE k - _QUEUE
    BY <1>1, QueueIs DEF Max
<1>5. a \in 0 .. _QUEUE /\ c \in Nat /\ a + c = k
    BY <1>1, <1>3, <1>4, QueueIs
<1> HIDE DEF a, c
<1>6. b \in Nat /\ a + b = j1939.kept + j1939.lost + n
    BY <1>1, <1>5, QueueIs DEF Listener
<1> HIDE DEF b
<1>7. LET p == [j1939 EXCEPT !.kept = a, !.lost = b]
      IN  p \in Listener /\ p.h = j1939.h /\ p.kept = a /\ p.lost = b
    BY <1>5, <1>6 DEF Listener
<1> QED BY <1>2, <1>6, <1>7

\* The handle of a use: the open one as it is, or a new one that only the newest listeners know.
LEMMA Using ==
    ASSUME ReadingsInv, Use, UseHandle
    PROVE  /\ handle' = Used /\ Used \in 1 .. handles' /\ handles' \in Nat /\ handles <= handles'
           /\ handle # 0 => Used = handle /\ EngOf(nm) = eng
           /\ handle = 0 => Used > handles
           /\ EngOf(nm) \in Reading
           /\ Rest(EngOf(nm)) = IF j1939.h = Used THEN j1939.kept + j1939.lost ELSE 0
           /\ NmOf \in [states : States, h : Nat] /\ NmOf.states = nm.states /\ NmOf.h <= handles'
           /\ NmOf.h = Used => EngOf(nm).nm \in {nm.states, "none"}
           /\ nm.states = "none" => NmOf.h = 0
           /\ handle # 0 => NmOf = nm
<1>1. /\ handles \in Nat /\ handle \in 0 .. handles /\ j1939 \in Listener /\ nm \in [states : States, h : Nat]
      /\ eng \in Reading /\ wire \in BOOLEAN /\ j1939.h <= handles /\ nm.h <= handles
    BY DEF ReadingsInv, ReadingsTypeOK, HandlesExist
<1>2. CASE handle # 0
  <2>1. Used = handle /\ EngOf(nm) = eng /\ NmOf = nm /\ handle' = handle /\ handles' = handles
      BY <1>2 DEF Used, EngOf, NmOf, UseHandle
  <2> QED BY <1>1, <1>2, <2>1 DEF ReadingsInv, Balanced, Configured, HandlesExist
<1>3. CASE handle = 0
  <2>1. /\ Used = handles + 1 /\ EngOf(nm) = Opened(j1939, nm) /\ handle' = Used /\ handles' = handles + 1
        /\ NmOf = IF nm.states # "none" THEN [nm EXCEPT !.h = Used] ELSE nm
      BY <1>3 DEF Used, EngOf, NmOf, UseHandle
  <2>2. j1939.h # Used /\ nm.h # Used
      BY <1>1, <2>1 DEF Listener
  <2> QED BY <1>1, <1>3, <2>1, <2>2, OpenedIs DEF ReadingsInv, HandlesExist
<1> QED BY <1>2, <1>3

-------------------------------------------------------------------------------
(* Where the reading thread is *)

\* Where it goes on, and what it takes along.
Went(p) == [user EXCEPT !.pc = p]
WentReading(p, n) == [user EXCEPT !.pc = p, !.fh = n]
WentMatched(p, b) == [user EXCEPT !.pc = p, !.got = b]
WentTold(p, s) == [user EXCEPT !.pc = p, !.told = s]
LEMMA UserGoes ==
    ASSUME user \in UserState, NEW p \in Steps
    PROVE  /\ Went(p) \in UserState /\ Went(p).pc = p /\ Went(p).op = user.op /\ Went(p).run = user.run
           /\ Went(p).h = user.h /\ Went(p).fh = user.fh
           /\ \A n \in Nat : /\ WentReading(p, n) \in UserState /\ WentReading(p, n).pc = p
                             /\ WentReading(p, n).op = user.op /\ WentReading(p, n).h = user.h
           /\ \A b \in BOOLEAN : /\ WentMatched(p, b) \in UserState /\ WentMatched(p, b).pc = p
                                 /\ WentMatched(p, b).op = user.op /\ WentMatched(p, b).h = user.h
           /\ \A s \in States : /\ WentTold(p, s) \in UserState /\ WentTold(p, s).pc = p /\ WentTold(p, s).told = s
                                /\ WentTold(p, s).op = user.op /\ WentTold(p, s).h = user.h
BY DEF UserState, Went, WentReading, WentMatched, WentTold

\* Where a call begins.
Begun(p, o, r, h) == [Idle EXCEPT !.pc = p, !.op = o, !.run = r, !.h = h]
BegunAt(p, o, r, h, n) == [Idle EXCEPT !.pc = p, !.op = o, !.run = r, !.h = h, !.fh = n]
LEMMA CallBegins ==
    ASSUME NEW p \in Steps, NEW o \in Operations, NEW r \in Nat, NEW h \in Nat
    PROVE  /\ Begun(p, o, r, h) \in UserState /\ Begun(p, o, r, h).pc = p
           /\ Begun(p, o, r, h).op = o /\ Begun(p, o, r, h).h = h
           /\ \A n \in Nat : /\ BegunAt(p, o, r, h, n) \in UserState /\ BegunAt(p, o, r, h, n).pc = p
                             /\ BegunAt(p, o, r, h, n).op = o /\ BegunAt(p, o, r, h, n).run = r
                             /\ BegunAt(p, o, r, h, n).h = h /\ BegunAt(p, o, r, h, n).fh = n
<1>1. /\ Begun(p, o, r, h) \in UserState /\ Begun(p, o, r, h).pc = p
      /\ Begun(p, o, r, h).op = o /\ Begun(p, o, r, h).h = h
    BY DEF UserState, Idle, Steps, Operations, States, Begun
<1>2. \A n \in Nat : BegunAt(p, o, r, h, n) \in UserState
    BY DEF UserState, Idle, Steps, Operations, States, BegunAt
<1>3. \A n : /\ BegunAt(p, o, r, h, n).pc = p /\ BegunAt(p, o, r, h, n).op = o /\ BegunAt(p, o, r, h, n).run = r
              /\ BegunAt(p, o, r, h, n).h = h /\ BegunAt(p, o, r, h, n).fh = n
    BY DEF Idle, BegunAt
<1> QED BY <1>1, <1>2, <1>3

LEMMA IdleIs == Idle \in UserState /\ Idle.pc = "idle" /\ Idle.op = "none"
BY DEF UserState, Idle, Steps, Operations, States

-------------------------------------------------------------------------------
(* LIN taps *)

\* Taps that are there stay those of their bus and run.
SameTaps(a, b) ==
    \A u \in DOMAIN a : u \in DOMAIN b /\ b[u].own = a[u].own /\ b[u].name = a[u].name /\ b[u].run = a[u].run

LEMMA TapIs ==
    ASSUME NEW x \in Tap
    PROVE  LET y == [x EXCEPT !.open = FALSE]
           IN  y \in Tap /\ y.own = x.own /\ y.name = x.name /\ y.run = x.run /\ ~y.open
BY DEF Tap

LEMMA LetGoIs ==
    ASSUME NEW taps \in Seq(Tap), NEW t
    PROVE  /\ LetGo(taps, t) \in Seq(Tap) /\ DOMAIN LetGo(taps, t) = DOMAIN taps /\ Len(LetGo(taps, t)) = Len(taps)
           /\ SameTaps(taps, LetGo(taps, t))
           /\ \A u \in DOMAIN taps : LetGo(taps, t)[u].open => taps[u].open /\ u # t
<1> DEFINE e(u) == IF u = t THEN [taps[u] EXCEPT !.open = FALSE] ELSE taps[u]
           g == [u \in DOMAIN taps |-> e(u)]
<1>1. LetGo(taps, t) = g
    BY DEF LetGo
<1>2. ASSUME NEW u \in DOMAIN taps
      PROVE  /\ e(u) \in Tap /\ e(u).own = taps[u].own /\ e(u).name = taps[u].name /\ e(u).run = taps[u].run
             /\ e(u).open => taps[u].open /\ u # t
  <2>1. taps[u] \in Tap
      BY Element
  <2> QED BY <2>1, TapIs
<1> HIDE DEF e
<1>3. g \in [DOMAIN taps -> Tap] /\ DOMAIN g = DOMAIN taps
    BY <1>2
<1>4. g \in Seq(Tap)
    BY <1>3, ChangedSeq
<1>5. Len(g) = Len(taps)
    BY <1>3, <1>4, LenProperties
<1> QED BY <1>1, <1>2, <1>3, <1>4, <1>5 DEF SameTaps

LEMMA OrphansClosedIs ==
    ASSUME tap \in Seq(Tap)
    PROVE  /\ OrphansClosed \in Seq(Tap) /\ DOMAIN OrphansClosed = DOMAIN tap /\ Len(OrphansClosed) = Len(tap)
           /\ SameTaps(tap, OrphansClosed)
           /\ \A u \in DOMAIN tap : OrphansClosed[u].open => tap[u].open /\ u \notin orphans
<1> DEFINE e(u) == IF u \in orphans THEN [tap[u] EXCEPT !.open = FALSE] ELSE tap[u]
           g == [u \in DOMAIN tap |-> e(u)]
<1>1. OrphansClosed = g
    BY DEF OrphansClosed
<1>2. ASSUME NEW u \in DOMAIN tap
      PROVE  /\ e(u) \in Tap /\ e(u).own = tap[u].own /\ e(u).name = tap[u].name /\ e(u).run = tap[u].run
             /\ e(u).open => tap[u].open /\ u \notin orphans
  <2>1. tap[u] \in Tap
      BY Element
  <2> QED BY <2>1, TapIs
<1> HIDE DEF e
<1>3. g \in [DOMAIN tap -> Tap] /\ DOMAIN g = DOMAIN tap
    BY <1>2
<1>4. g \in Seq(Tap)
    BY <1>3, ChangedSeq
<1>5. Len(g) = Len(tap)
    BY <1>3, <1>4, LenProperties
<1> QED BY <1>1, <1>2, <1>3, <1>4, <1>5 DEF SameTaps

\* A tap that comes behind the others.
LEMMA TapAdded ==
    ASSUME NEW taps \in Seq(Tap), NEW x \in Tap
    PROVE  /\ Append(taps, x) \in Seq(Tap) /\ Len(Append(taps, x)) = Len(taps) + 1
           /\ DOMAIN Append(taps, x) = DOMAIN taps \cup {Len(taps) + 1} /\ Len(taps) + 1 \notin DOMAIN taps
           /\ Append(taps, x)[Len(taps) + 1] = x
           /\ \A u \in DOMAIN taps : Append(taps, x)[u] = taps[u]
           /\ SameTaps(taps, Append(taps, x))
<1> DEFINE a == Append(taps, x)
<1>1. a \in Seq(Tap) /\ Len(a) = Len(taps) + 1 /\ a[Len(taps) + 1] = x /\ \A u \in 1 .. Len(taps) : a[u] = taps[u]
    BY AppendProperties
<1>2. DOMAIN taps = 1 .. Len(taps) /\ Len(taps) \in Nat /\ DOMAIN a = 1 .. Len(a)
    BY <1>1, LenProperties
<1> HIDE DEF a
<1>3. DOMAIN a = DOMAIN taps \cup {Len(taps) + 1} /\ Len(taps) + 1 \notin DOMAIN taps
    BY <1>1, <1>2
<1>4. \A u \in DOMAIN taps : a[u] = taps[u]
    BY <1>1, <1>2
<1>5. SameTaps(taps, a)
    BY <1>3, <1>4 DEF SameTaps
<1> QED BY <1>1, <1>3, <1>4, <1>5 DEF a

-------------------------------------------------------------------------------
(* What a step leaves *)

\* A step that leaves LIN, and the calls into it, keeps what holds there.
LEMMA LinKept ==
    ASSUME ReadingsInv, UNCHANGED lin, user' = user \/ user'.op # "lin"
    PROVE  TapsMatch' /\ NoTapLost'
BY DEF ReadingsInv, lin, TapsMatch, NoTapLost, OfItsBus

\* A step that leaves the channel, and the calls on it, keeps what holds there.
LEMMA ChannelKept ==
    ASSUME ReadingsInv, UNCHANGED can,
           \/ user' = user \/ user' = Idle
           \/ user'.op = "lin" /\ user'.pc \in {"lin", "inside", "told"}
    PROVE  HandlesExist' /\ Balanced' /\ Configured' /\ Stands'
<1>1. HandlesExist' /\ Balanced' /\ Configured'
    BY DEF ReadingsInv, can, HandlesExist, Balanced, Configured
<1>2. Stands'
    BY IdleIs DEF ReadingsInv, can, Stands, J1939Calls, NmCalls
<1> QED BY <1>1, <1>2

LEMMA TypesGo ==
    ASSUME ReadingsInv, UNCHANGED <<run_no, started, wire, named, lin>>,
           handles' \in Nat, handle' \in 0 .. handles', eng' \in Reading, j1939' \in Listener,
           nm' \in [states : States, h : Nat], user' \in UserState
    PROVE  ReadingsTypeOK'
BY DEF ReadingsInv, ReadingsTypeOK, lin

\* A use of the handle, by a reading that goes on as it is, or as a handle opened begins, and by a J1939
\* listener that listens to it, or to what it listened to.
LEMMA UseKeeps ==
    ASSUME ReadingsInv, Use, UseHandle, UNCHANGED <<run_no, started, wire, named, lin>>, nm' = NmOf,
           eng' \in Reading, Rest(eng') = Rest(EngOf(nm)), eng'.nm = EngOf(nm).nm,
           j1939' = j1939 \/ j1939' = Listening(j1939, Used),
           user' \in UserState, Stands', user' = user \/ user'.op # "lin"
    PROVE  ReadingsInv'
<1>1. /\ handles \in Nat /\ j1939 \in Listener /\ j1939.h <= handles
      /\ j1939.h = 0 => j1939.kept = 0 /\ j1939.lost = 0
    BY DEF ReadingsInv, ReadingsTypeOK, HandlesExist
<1>2. Used \in Nat /\ Used # 0 /\ Used <= handles' /\ handles' \in Nat /\ handles <= handles'
    BY Using
<1>3. j1939' \in Listener /\ j1939'.h <= handles' /\ (j1939'.h = 0 => j1939'.kept = 0 /\ j1939'.lost = 0)
  <2>1. CASE j1939' = j1939
      BY <1>1, <1>2, <2>1 DEF Listener
  <2>2. CASE j1939' = Listening(j1939, Used)
      BY <1>1, <1>2, <2>2, ListeningIs
  <2> QED BY <2>1, <2>2
<1>4. HandlesExist'
    BY <1>3, Using DEF HandlesExist
<1>5. Balanced'
    BY <1>1, <1>2, Using, ListeningIs DEF Balanced
<1>6. Configured'
    BY Using DEF Configured
<1>7. ReadingsTypeOK'
    BY <1>3, Using, TypesGo
<1>8. TapsMatch' /\ NoTapLost'
    BY LinKept
<1> QED BY <1>4, <1>5, <1>6, <1>7, <1>8 DEF ReadingsInv

-------------------------------------------------------------------------------
(* The channel's steps *)

LEMMA CallNames ==
    /\ J1939Calls \subseteq Operations /\ NmCalls \subseteq Operations
    /\ \A op \in J1939Calls : op \notin NmCalls /\ op # "lin" /\ op # "none"
    /\ \A op \in NmCalls : op # "lin" /\ op # "none"
BY DEF J1939Calls, NmCalls, Operations

LEMMA RecvKeeps == ASSUME ReadingsInv, Recv PROVE ReadingsInv'
<1>1. /\ Use /\ UseHandle /\ nm' = NmOf /\ j1939' = j1939 /\ user' = user /\ user.pc = "idle"
      /\ UNCHANGED <<run_no, started, wire, named, lin>>
      /\ IF handle # 0 THEN eng' \in Fed ELSE eng' = Opened(j1939, nm)
    BY DEF Recv, At
<1>2. eng' \in Reading /\ Rest(eng') = Rest(EngOf(nm)) /\ eng'.nm = EngOf(nm).nm
  <2>1. CASE handle # 0
      BY <1>1, <2>1, FedIs DEF EngOf, ReadingsInv, ReadingsTypeOK
  <2>2. CASE handle = 0
      BY <1>1, <2>2, Using DEF EngOf
  <2> QED BY <2>1, <2>2
<1>3. user' \in UserState
    BY <1>1 DEF ReadingsInv, ReadingsTypeOK
<1>4. Stands'
  <2>1. handles \in Nat /\ handles' \in Nat /\ handles <= handles' /\ nm'.states = nm.states
      BY <1>1, Using DEF ReadingsInv, ReadingsTypeOK
  <2> QED BY <1>1, <2>1 DEF ReadingsInv, Stands
<1> QED BY <1>1, <1>2, <1>3, <1>4, UseKeeps

LEMMA JBeginKeeps == ASSUME ReadingsInv, NEW op \in J1939Calls, JBegin(op) PROVE ReadingsInv'
<1> DEFINE p == CASE op = "faults" -> "pull" [] op = "addresses" -> "read" [] OTHER -> "take"
<1>1. /\ Use /\ UseHandle /\ nm' = NmOf /\ eng' = Heard(EngOf(nm)) /\ j1939' = Listening(j1939, Used)
      /\ user' = Begun(p, op, run_no, Used)
      /\ UNCHANGED <<run_no, started, wire, named, lin>>
    BY DEF JBegin, Begun
<1>2. p \in {"pull", "read", "take"} /\ p \in Steps
    BY DEF Steps
<1> HIDE DEF p
<1>3. run_no \in Nat /\ j1939 \in Listener
    BY DEF ReadingsInv, ReadingsTypeOK
<1>4. Used \in 1 .. handles' /\ Used \in Nat /\ handle' = Used
    BY <1>1, Using
<1>5. user' \in UserState /\ user'.pc = p /\ user'.op = op /\ user'.h = Used
  <2>1. op \in Operations
      BY CallNames
  <2> QED BY <1>1, <1>2, <1>3, <1>4, <2>1, CallBegins
<1>6. eng' \in Reading /\ Rest(eng') = Rest(EngOf(nm)) /\ eng'.nm = EngOf(nm).nm
    BY <1>1, Using, HeardIs
<1>7. j1939'.h = Used
    BY <1>1, <1>3, <1>4, ListeningIs
<1>8. Stands'
    BY <1>2, <1>4, <1>5, <1>7, CallNames DEF Stands
<1> QED BY <1>1, <1>5, <1>6, <1>8, CallNames, UseKeeps

LEMMA NmBeginKeeps == ASSUME ReadingsInv, NEW op \in NmCalls, NmBegin(op) PROVE ReadingsInv'
<1>1. /\ Use /\ UseHandle /\ nm' = NmOf /\ eng' = EngOf(nm) /\ j1939' = j1939
      /\ user' = Begun("attach", op, run_no, Used)
      /\ UNCHANGED <<run_no, started, wire, named, lin>> /\ nm.states # "none"
    BY DEF NmBegin, Begun
<1>2. run_no \in Nat /\ "attach" \in Steps
    BY DEF ReadingsInv, ReadingsTypeOK, Steps
<1>3. Used \in 1 .. handles' /\ Used \in Nat /\ nm'.states = nm.states
    BY <1>1, Using
<1>4. user' \in UserState /\ user'.pc = "attach" /\ user'.op = op /\ user'.h = Used
  <2>1. op \in Operations
      BY CallNames
  <2> QED BY <1>1, <1>2, <1>3, <2>1, CallBegins
<1>5. Stands'
    BY <1>1, <1>3, <1>4, CallNames DEF Stands
<1> QED BY <1>1, <1>4, <1>5, Using, CallNames, UseKeeps

\* A read begins in a call that goes on with its listeners' handle or with none.
LEMMA ReadBeginsKeeps ==
    ASSUME ReadingsInv, user.pc = "read", user.op # "lin", ReadBegins("reading"), j1939' = j1939,
           UNCHANGED <<run_no, started, wire, named, lin>>
    PROVE  ReadingsInv'
<1>1. /\ Use /\ UseHandle /\ nm' = NmOf /\ eng' = EngOf(nm)
      /\ user' = WentReading("reading", Used)
    BY DEF ReadBegins, WentReading
<1>2. /\ handle' = Used /\ Used \in 1 .. handles' /\ Used \in Nat /\ handles' \in Nat /\ handles <= handles'
      /\ (handle # 0 => Used = handle /\ NmOf = nm) /\ (handle = 0 => Used > handles) /\ NmOf.states = nm.states
    BY <1>1, Using
<1>3. user \in UserState /\ handles \in Nat /\ "reading" \in Steps
    BY DEF ReadingsInv, ReadingsTypeOK, Steps
<1>4. user' \in UserState /\ user'.pc = "reading" /\ user'.op = user.op /\ user'.h = user.h
    BY <1>1, <1>2, <1>3, UserGoes
<1>5. Stands
    BY DEF ReadingsInv
<1>6. user.op \in NmCalls /\ handle' = user.h => nm'.h = user.h
    BY <1>1, <1>2, <1>3, <1>5 DEF Stands
<1>7. user.op \in J1939Calls \cup NmCalls => user.h \in 1 .. handles'
    BY <1>2, <1>3, <1>5 DEF Stands
<1>8. Stands'
    BY <1>1, <1>2, <1>4, <1>5, <1>6, <1>7 DEF Stands
<1> QED BY <1>1, <1>4, <1>8, Using, UseKeeps

\* It goes on through the listeners, and changes where the call is.
LEMMA ReadGoesOnKeeps ==
    ASSUME ReadingsInv, user.pc = "reading", user.op # "lin", NEW p \in {"take", "reading", "view"}, ReadGoesOn(p),
           p = "take" => user.op \in J1939Calls, p = "view" => user.op \in NmCalls,
           UNCHANGED <<run_no, started, wire, named, lin, handle, handles, j1939, nm>>
    PROVE  ReadingsInv'
<1>1. eng' \in Fed /\ user' = Went(p)
    BY DEF ReadGoesOn, Went
<1>2. /\ user \in UserState /\ p \in Steps /\ eng \in Reading /\ handles \in Nat /\ handle \in 0 .. handles
      /\ j1939 \in Listener /\ nm \in [states : States, h : Nat]
    BY DEF ReadingsInv, ReadingsTypeOK, Steps
<1>3. user' \in UserState /\ user'.pc = p /\ user'.op = user.op /\ user'.h = user.h
    BY <1>1, <1>2, UserGoes
<1>4. eng' \in Reading /\ Rest(eng') = Rest(eng) /\ eng'.nm = eng.nm
    BY <1>1, <1>2, FedIs
<1>5. Stands'
    BY <1>3 DEF ReadingsInv, Stands
<1>6. HandlesExist' /\ Balanced' /\ Configured'
    BY <1>4 DEF ReadingsInv, HandlesExist, Balanced, Configured
<1>7. ReadingsTypeOK'
    BY <1>2, <1>3, <1>4, TypesGo
<1>8. TapsMatch' /\ NoTapLost'
    BY <1>3, LinKept
<1> QED BY <1>5, <1>6, <1>7, <1>8 DEF ReadingsInv

LEMMA JReadKeeps == ASSUME ReadingsInv, JRead PROVE ReadingsInv'
<1>1. user.op \in {"messages", "expect_pgn"} /\ UNCHANGED <<run_no, started, wire, named, lin>>
    BY DEF JRead
<1>2. user.op # "lin" /\ user.op \in J1939Calls
    BY <1>1 DEF J1939Calls
<1>3. CASE At("read") /\ ReadBegins("reading") /\ UNCHANGED j1939
    BY <1>1, <1>2, <1>3, ReadBeginsKeeps DEF At
<1>4. CASE At("reading") /\ ReadGoesOn("take") /\ UNCHANGED <<handle, handles, j1939, nm>>
    BY <1>1, <1>2, <1>4, ReadGoesOnKeeps DEF At
<1>5. CASE At("reading") /\ Return /\ UNCHANGED can
  <2>1. user' = Idle /\ UNCHANGED can
      BY <1>5 DEF Return
  <2>2. ReadingsTypeOK'
      BY <1>1, <2>1, IdleIs, TypesGo DEF can, ReadingsInv, ReadingsTypeOK
  <2> QED BY <1>1, <2>1, <2>2, IdleIs, LinKept, ChannelKept DEF ReadingsInv
<1> QED BY <1>3, <1>4, <1>5 DEF JRead

LEMMA NmReadKeeps == ASSUME ReadingsInv, NmRead PROVE ReadingsInv'
<1>1. user.op = "nm_until" /\ UNCHANGED <<run_no, started, wire, named, lin>>
    BY DEF NmRead
<1>2. user.op # "lin" /\ user.op \in NmCalls
    BY <1>1 DEF NmCalls
<1>3. CASE At("read") /\ ReadBegins("reading") /\ UNCHANGED j1939
    BY <1>1, <1>2, <1>3, ReadBeginsKeeps DEF At
<1>4. CASE At("reading") /\ ReadGoesOn("view") /\ UNCHANGED <<handle, handles, j1939, nm>>
    BY <1>1, <1>2, <1>4, ReadGoesOnKeeps DEF At
<1> QED BY <1>3, <1>4 DEF NmRead

LEMMA AddressesKeeps == ASSUME ReadingsInv, Addresses PROVE ReadingsInv'
<1>1. user.op = "addresses" /\ UNCHANGED <<run_no, started, wire, named, lin>>
    BY DEF Addresses
<1>2. user.op # "lin"
    BY <1>1
<1>3. CASE At("read") /\ ReadBegins("reading") /\ UNCHANGED j1939
    BY <1>1, <1>2, <1>3, ReadBeginsKeeps DEF At
<1>4. CASE At("reading") /\ ReadGoesOn("reading") /\ UNCHANGED <<handle, handles, j1939, nm>>
    BY <1>1, <1>2, <1>4, ReadGoesOnKeeps DEF At
<1>5. CASE Use /\ UseHandle /\ nm' = NmOf /\ eng' = Heard(EngOf(nm)) /\ j1939' = Listening(j1939, Used) /\ user' = Idle
  <2>1. eng' \in Reading /\ Rest(eng') = Rest(EngOf(nm)) /\ eng'.nm = EngOf(nm).nm
      BY <1>5, Using, HeardIs
  <2>2. user' \in UserState /\ user'.pc = "idle" /\ user'.op = "none"
      BY <1>5, IdleIs
  <2>3. Stands'
      BY <2>2 DEF Stands, J1939Calls, NmCalls
  <2> QED BY <1>1, <1>5, <2>1, <2>2, <2>3, UseKeeps
<1> QED BY <1>3, <1>4, <1>5 DEF Addresses, Return

\* Messages handed out; what is waiting and not handed out stays.
GivenOut(e, n) == [e EXCEPT !.messages = @ - n, !.given = @ + n]
LEMMA GivenOutIs ==
    ASSUME NEW e \in Reading, NEW n \in 0 .. e.messages
    PROVE  GivenOut(e, n) \in Reading /\ GivenOut(e, n).nm = e.nm /\ Rest(GivenOut(e, n)) = Rest(e)
<1> DEFINE m == e.messages - n  g == e.given + n
<1>1. m \in 0 .. _QUEUE /\ g \in Nat /\ m + g = e.messages + e.given
    BY ReadingIs, QueueIs
<1>2. GivenOut(e, n) = [e EXCEPT !.messages = m, !.given = g]
    BY DEF GivenOut
<1> HIDE DEF m, g
<1>3. LET r == [e EXCEPT !.messages = m, !.given = g]
      IN  r \in Reading /\ r.nm = e.nm /\ Rest(r) = e.made - (g + m + e.faults + e.dropped)
    BY <1>1 DEF Reading, Rest
<1>4. /\ e.messages \in Nat /\ e.faults \in Nat /\ e.dropped \in Nat /\ e.made \in Nat /\ e.given \in Nat
      /\ m \in Nat /\ Rest(e) = e.made - (e.given + e.messages + e.faults + e.dropped)
    BY <1>1, ReadingIs, QueueIs
<1>5. g + m + e.faults + e.dropped = e.given + e.messages + e.faults + e.dropped
    BY <1>1, <1>4
<1> QED BY <1>2, <1>3, <1>4, <1>5

LEMMA TakeKeeps == ASSUME ReadingsInv, Take PROVE ReadingsInv'
<1>1. /\ user.pc = "take" /\ handle = user.h
      /\ UNCHANGED <<run_no, started, wire, named, handle, handles, j1939, nm, lin>>
    BY DEF Take, At
<1>2. PICK n \in 0 .. eng.messages, matched \in BOOLEAN :
         eng' = GivenOut(eng, n) /\ user' = WentMatched("pull", matched)
    BY DEF Take, GivenOut, WentMatched
<1>3. /\ user \in UserState /\ "pull" \in Steps /\ eng \in Reading /\ handles \in Nat /\ handle \in 0 .. handles
      /\ j1939 \in Listener /\ nm \in [states : States, h : Nat]
    BY DEF ReadingsInv, ReadingsTypeOK, Steps
<1>4. user' \in UserState /\ user'.pc = "pull" /\ user'.op = user.op /\ user'.h = user.h
    BY <1>2, <1>3, UserGoes
<1>5. eng' \in Reading /\ Rest(eng') = Rest(eng) /\ eng'.nm = eng.nm
    BY <1>2, <1>3, GivenOutIs
<1>6. user.op \in J1939Calls /\ user.op # "lin"
    BY <1>1, CallNames DEF ReadingsInv, Stands
<1>7. Stands'
    BY <1>1, <1>4, <1>6 DEF ReadingsInv, Stands
<1>8. HandlesExist' /\ Balanced' /\ Configured'
    BY <1>1, <1>5 DEF ReadingsInv, HandlesExist, Balanced, Configured
<1>9. ReadingsTypeOK' /\ TapsMatch' /\ NoTapLost'
    BY <1>1, <1>3, <1>4, <1>5, <1>6, TypesGo, LinKept
<1> QED BY <1>7, <1>8, <1>9 DEF ReadingsInv

\* Faults pulled, and handed out with what was kept before, or kept.
FaultsPulled(e, n) == [e EXCEPT !.faults = 0, !.given = @ + n]
LEMMA FaultsPulledIs ==
    ASSUME NEW e \in Reading, NEW n \in Nat
    PROVE  /\ FaultsPulled(e, n) \in Reading /\ FaultsPulled(e, n).nm = e.nm
           /\ Rest(FaultsPulled(e, n)) = Rest(e) + e.faults - n
           /\ [e EXCEPT !.faults = 0] \in Reading /\ [e EXCEPT !.faults = 0].nm = e.nm
           /\ Rest([e EXCEPT !.faults = 0]) = Rest(e) + e.faults
<1> DEFINE g == e.given + n
<1>1. g \in Nat /\ g = e.given + n /\ 0 \in 0 .. _QUEUE
    BY ReadingIs, QueueIs
<1>2. FaultsPulled(e, n) = [e EXCEPT !.faults = 0, !.given = g]
    BY DEF FaultsPulled
<1> HIDE DEF g
<1>3. \A z \in 0 .. _QUEUE :
         /\ LET r == [e EXCEPT !.faults = z, !.given = g]
            IN  r \in Reading /\ r.nm = e.nm /\ Rest(r) = e.made - (g + e.messages + z + e.dropped)
         /\ LET r == [e EXCEPT !.faults = z]
            IN  r \in Reading /\ r.nm = e.nm /\ Rest(r) = e.made - (e.given + e.messages + z + e.dropped)
    BY <1>1 DEF Reading, Rest
<1>4. /\ e.messages \in Nat /\ e.faults \in Nat /\ e.dropped \in Nat /\ e.made \in Nat /\ e.given \in Nat
      /\ Rest(e) = e.made - (e.given + e.messages + e.faults + e.dropped)
    BY ReadingIs, QueueIs
<1>5. /\ e.made - (g + e.messages + 0 + e.dropped) = Rest(e) + e.faults - n
      /\ e.made - (e.given + e.messages + 0 + e.dropped) = Rest(e) + e.faults
    BY <1>1, <1>4
<1>6. LET r == FaultsPulled(e, n) IN r \in Reading /\ r.nm = e.nm /\ Rest(r) = Rest(e) + e.faults - n
  <2>1. LET r == [e EXCEPT !.faults = 0, !.given = g]
        IN  r \in Reading /\ r.nm = e.nm /\ Rest(r) = e.made - (g + e.messages + 0 + e.dropped)
      BY <1>1, <1>3
  <2> QED BY <1>2, <1>5, <2>1
<1>7. LET r == [e EXCEPT !.faults = 0] IN r \in Reading /\ r.nm = e.nm /\ Rest(r) = Rest(e) + e.faults
    BY <1>1, <1>3, <1>5
<1> QED BY <1>6, <1>7

LEMMA PullKeeps == ASSUME ReadingsInv, Pull PROVE ReadingsInv'
<1> DEFINE p == Pulled(j1939, eng.faults)  g == p.kept
<1>1. /\ user.pc = "pull" /\ handle = user.h
      /\ UNCHANGED <<run_no, started, wire, named, handle, handles, nm, lin>>
      /\ \/ eng' = FaultsPulled(eng, g) /\ j1939' = [p EXCEPT !.kept = 0]
         \/ eng' = [eng EXCEPT !.faults = 0] /\ j1939' = p
    BY DEF Pull, At, FaultsPulled
<1>2. user' = Idle \/ (\E s \in {"read", "reading"} : user' = Went(s))
    BY DEF Pull, Went
<1>3. /\ user \in UserState /\ eng \in Reading /\ handles \in Nat /\ handle \in 0 .. handles
      /\ j1939 \in Listener /\ nm \in [states : States, h : Nat] /\ eng.faults \in 0 .. _QUEUE /\ eng.faults \in Nat
    BY ReadingIs, QueueIs DEF ReadingsInv, ReadingsTypeOK
<1>4. p \in Listener /\ p.h = j1939.h /\ p.kept + p.lost = j1939.kept + j1939.lost + eng.faults
    BY <1>3, PulledIs
<1>5. /\ user.op \in J1939Calls /\ user.op # "lin" /\ user.op \notin NmCalls
      /\ j1939.h = user.h /\ user.h \in 1 .. handles
    BY <1>1, CallNames DEF ReadingsInv, Stands
<1>6. Rest(eng) = j1939.kept + j1939.lost /\ j1939.kept \in Nat /\ j1939.lost \in Nat /\ Rest(eng) \in Int
    BY <1>1, <1>3, <1>5, QueueIs DEF ReadingsInv, Balanced, Listener
<1>7. g \in Nat /\ p.lost \in Nat
    BY <1>4, QueueIs DEF Listener
<1>8. LET q == [p EXCEPT !.kept = 0] IN q \in Listener /\ q.h = p.h /\ q.kept = 0 /\ q.lost = p.lost
  <2>1. \A z \in 0 .. _QUEUE : LET q == [p EXCEPT !.kept = z]
                               IN  q \in Listener /\ q.h = p.h /\ q.kept = z /\ q.lost = p.lost
      BY <1>4 DEF Listener
  <2> QED BY <2>1, QueueIs
<1> HIDE DEF p
<1>9. /\ eng' \in Reading /\ eng'.nm = eng.nm /\ j1939' \in Listener /\ j1939'.h = j1939.h
      /\ Rest(eng') = j1939'.kept + j1939'.lost
  <2>1. CASE eng' = FaultsPulled(eng, g) /\ j1939' = [p EXCEPT !.kept = 0]
    <3>1. eng' \in Reading /\ eng'.nm = eng.nm /\ Rest(eng') = Rest(eng) + eng.faults - g
        BY <1>3, <1>7, <2>1, FaultsPulledIs
    <3>2. j1939' \in Listener /\ j1939'.h = j1939.h /\ j1939'.kept = 0 /\ j1939'.lost = p.lost
        BY <1>4, <1>8, <2>1
    <3> QED BY <1>3, <1>4, <1>6, <1>7, <3>1, <3>2
  <2>2. CASE eng' = [eng EXCEPT !.faults = 0] /\ j1939' = p
    <3>1. eng' \in Reading /\ eng'.nm = eng.nm /\ Rest(eng') = Rest(eng) + eng.faults
        BY <1>3, <2>2, FaultsPulledIs
    <3> QED BY <1>3, <1>4, <1>6, <1>7, <2>2, <3>1
  <2> QED BY <1>1, <2>1, <2>2
<1>10. /\ user' \in UserState /\ user'.op # "lin"
       /\ \/ user'.pc = "idle" /\ user'.op = "none"
          \/ user'.pc \in {"read", "reading"} /\ user'.op = user.op /\ user'.h = user.h
  <2>1. CASE user' = Idle
      BY <2>1, IdleIs
  <2>2. ASSUME NEW s \in {"read", "reading"}, user' = Went(s)
        PROVE  user' \in UserState /\ user'.op # "lin" /\ user'.pc = s /\ user'.op = user.op /\ user'.h = user.h
    <3>1. s \in Steps
        BY DEF Steps
    <3> QED BY <1>3, <1>5, <2>2, <3>1, UserGoes
  <2> QED BY <1>2, <2>1, <2>2
<1>11. Stands'
    BY <1>1, <1>5, <1>9, <1>10, CallNames DEF Stands
<1>12. HandlesExist' /\ Balanced' /\ Configured'
  <2>1. j1939.h # 0
      BY <1>3, <1>5
  <2> QED BY <1>1, <1>5, <1>9, <2>1 DEF ReadingsInv, HandlesExist, Balanced, Configured
<1>13. ReadingsTypeOK' /\ TapsMatch' /\ NoTapLost'
    BY <1>1, <1>3, <1>9, <1>10, TypesGo, LinKept
<1> QED BY <1>11, <1>12, <1>13 DEF ReadingsInv

LEMMA AskJ1939Keeps == ASSUME ReadingsInv, AskJ1939 PROVE ReadingsInv'
<1> DEFINE l == IF handle = 0 THEN j1939 ELSE Listening(j1939, handle)
<1>1. /\ user.pc = "idle" /\ j1939' = [l EXCEPT !.asked = TRUE]
      /\ eng' = IF handle = 0 THEN eng ELSE Heard(eng)
      /\ UNCHANGED <<run_no, started, wire, named, handle, handles, nm, lin, user>>
    BY DEF AskJ1939, At
<1>2. /\ user \in UserState /\ eng \in Reading /\ handles \in Nat /\ handle \in 0 .. handles /\ handle \in Nat
      /\ j1939 \in Listener /\ nm \in [states : States, h : Nat]
    BY DEF ReadingsInv, ReadingsTypeOK
<1>3. /\ l \in Listener /\ (handle # 0 => l.h = handle) /\ (handle = 0 => l = j1939)
      /\ l.kept + l.lost = IF handle = 0 \/ j1939.h = handle THEN j1939.kept + j1939.lost ELSE 0
    BY <1>2, ListeningIs
<1> HIDE DEF l
<1>4. j1939' \in Listener /\ j1939'.h = l.h /\ j1939'.kept = l.kept /\ j1939'.lost = l.lost
    BY <1>1, <1>3 DEF Listener
<1>5. eng' \in Reading /\ Rest(eng') = Rest(eng) /\ eng'.nm = eng.nm
    BY <1>1, <1>2, HeardIs
<1>6. Balanced'
    BY <1>1, <1>3, <1>4, <1>5 DEF ReadingsInv, Balanced
<1>7. HandlesExist' /\ Configured'
    BY <1>1, <1>2, <1>3, <1>4, <1>5 DEF ReadingsInv, HandlesExist, Configured
<1>8. Stands'
    BY <1>1, CallNames DEF ReadingsInv, Stands
<1>9. ReadingsTypeOK' /\ TapsMatch' /\ NoTapLost'
    BY <1>1, <1>2, <1>4, <1>5, TypesGo, LinKept
<1> QED BY <1>6, <1>7, <1>8, <1>9 DEF ReadingsInv

\* A listener that is refused changes nothing but where the handle had the wire's configuration.
LEMMA AskNmKeeps == ASSUME ReadingsInv, NEW states \in Ranges \cup {"wire"}, AskNm(states) PROVE ReadingsInv'
<1> DEFINE e == EngOf(nm)  a == Attached(states, e.nm)
<1>1. /\ user.pc = "idle" /\ Use /\ UseHandle /\ j1939' = j1939 /\ user' = user
      /\ eng' = [e EXCEPT !.nm = a]
      /\ nm' = IF states = "wire" /\ ~wire THEN NmOf ELSE [states |-> states, h |-> Used]
      /\ UNCHANGED <<run_no, started, wire, named, lin>>
    BY DEF AskNm, At
<1>2. /\ handle' = Used /\ Used \in 1 .. handles' /\ Used \in Nat /\ handles' \in Nat /\ handles <= handles'
      /\ e \in Reading /\ Rest(e) = IF j1939.h = Used THEN j1939.kept + j1939.lost ELSE 0
      /\ NmOf \in [states : States, h : Nat] /\ NmOf.states = nm.states /\ NmOf.h <= handles'
      /\ (NmOf.h = Used => e.nm \in {nm.states, "none"}) /\ (nm.states = "none" => NmOf.h = 0)
    BY <1>1, Using
<1>3. /\ user \in UserState /\ handles \in Nat /\ j1939 \in Listener /\ wire \in BOOLEAN
      /\ states \in States /\ states # "none"
    BY ReadingsAssumption DEF ReadingsAssumption, ReadingsInv, ReadingsTypeOK, States
<1>4. e.nm \in States
    BY <1>2, ReadingIs
<1> HIDE DEF e
<1>5. /\ a \in States /\ ((states = "wire" => wire) => a = states)
      /\ (states = "wire" /\ ~wire => a \in {e.nm, "none"})
    BY <1>3, <1>4, AttachedIs
<1> HIDE DEF a
<1>6. [e EXCEPT !.nm = a] \in Reading /\ Rest([e EXCEPT !.nm = a]) = Rest(e) /\ [e EXCEPT !.nm = a].nm = a
    BY <1>2, <1>5 DEF Reading, Rest
<1>7. eng' \in Reading /\ Rest(eng') = Rest(e) /\ eng'.nm = a
    BY <1>1, <1>6
<1>8. /\ nm' \in [states : States, h : Nat] /\ nm'.h <= handles' /\ (nm'.states = "none" => nm'.h = 0)
      /\ nm'.h = Used => a \in {nm'.states, "none"}
  <2>1. CASE states = "wire" /\ ~wire
      BY <1>1, <1>2, <1>5, <2>1
  <2>2. CASE ~(states = "wire" /\ ~wire)
      BY <1>1, <1>2, <1>3, <1>5, <2>2
  <2> QED BY <2>1, <2>2
<1>9. HandlesExist'
    BY <1>1, <1>2, <1>3, <1>8 DEF ReadingsInv, HandlesExist, Listener
<1>10. Balanced' /\ Configured'
    BY <1>1, <1>2, <1>7, <1>8 DEF Balanced, Configured
<1>11. Stands'
    BY <1>1, CallNames DEF ReadingsInv, Stands
<1>12. ReadingsTypeOK' /\ TapsMatch' /\ NoTapLost'
    BY <1>1, <1>2, <1>3, <1>7, <1>8, TypesGo, LinKept
<1> QED BY <1>9, <1>10, <1>11, <1>12 DEF ReadingsInv

LEMMA NmAttachKeeps == ASSUME ReadingsInv, NmAttach PROVE ReadingsInv'
<1> DEFINE a == Attached(nm.states, eng.nm)  p == IF user.op = "nm_look" THEN "view" ELSE "read"
<1>1. /\ user.pc = "attach" /\ handle = user.h /\ user' = Went(p)
      /\ \/ nm.h = user.h /\ eng' = eng /\ nm' = nm
         \/ (nm.states = "wire" => wire) /\ eng' = [eng EXCEPT !.nm = a] /\ nm' = [nm EXCEPT !.h = user.h]
      /\ UNCHANGED <<run_no, started, wire, named, handle, handles, j1939, lin>>
    BY DEF NmAttach, At, Went
<1>2. /\ user \in UserState /\ eng \in Reading /\ handles \in Nat /\ handle \in 0 .. handles /\ wire \in BOOLEAN
      /\ j1939 \in Listener /\ nm \in [states : States, h : Nat] /\ user.h \in Nat /\ nm.states \in States
    BY DEF ReadingsInv, ReadingsTypeOK, UserState
<1>3. /\ user.op \in NmCalls /\ user.op # "lin" /\ user.op \notin J1939Calls /\ user.op # "none"
      /\ user.h \in 1 .. handles /\ nm.states # "none"
    BY <1>1, CallNames DEF ReadingsInv, Stands
<1>4. p \in Steps /\ p \in {"view", "read"}
    BY DEF Steps
<1> HIDE DEF p
<1>5. user' \in UserState /\ user'.pc \in {"view", "read"} /\ user'.op = user.op /\ user'.h = user.h
    BY <1>1, <1>2, <1>4, UserGoes
<1>6. a \in States /\ ((nm.states = "wire" => wire) => a = nm.states)
    BY <1>2, AttachedIs, ReadingIs
<1> HIDE DEF a
<1>7. [eng EXCEPT !.nm = a] \in Reading /\ Rest([eng EXCEPT !.nm = a]) = Rest(eng) /\ [eng EXCEPT !.nm = a].nm = a
    BY <1>2, <1>6 DEF Reading, Rest
<1>8. LET n == [nm EXCEPT !.h = user.h] IN n \in [states : States, h : Nat] /\ n.h = user.h /\ n.states = nm.states
    BY <1>2
<1>9. /\ eng' \in Reading /\ Rest(eng') = Rest(eng) /\ nm' \in [states : States, h : Nat] /\ nm'.h = user.h
      /\ nm'.states = nm.states /\ nm'.h <= handles
  <2>1. user.h <= handles
      BY <1>2, <1>3
  <2> QED BY <1>1, <1>2, <1>7, <1>8, <2>1
<1>10. eng'.nm \in {nm'.states, "none"}
  <2>1. handle # 0
      BY <1>1, <1>2, <1>3
  <2>2. CASE nm.h = user.h /\ eng' = eng /\ nm' = nm
      BY <1>1, <2>1, <2>2 DEF ReadingsInv, Configured
  <2>3. CASE (nm.states = "wire" => wire) /\ eng' = [eng EXCEPT !.nm = a] /\ nm' = [nm EXCEPT !.h = user.h]
      BY <1>6, <1>7, <1>9, <2>3
  <2> QED BY <1>1, <2>2, <2>3
<1>11. Balanced' /\ Configured' /\ HandlesExist'
    BY <1>1, <1>3, <1>9, <1>10 DEF ReadingsInv, Balanced, Configured, HandlesExist
<1>12. Stands'
    BY <1>1, <1>3, <1>5, <1>9 DEF Stands
<1>13. ReadingsTypeOK' /\ TapsMatch' /\ NoTapLost'
    BY <1>1, <1>2, <1>3, <1>5, <1>9, TypesGo, LinKept
<1> QED BY <1>11, <1>12, <1>13 DEF ReadingsInv

LEMMA NmViewKeeps == ASSUME ReadingsInv, NmView PROVE ReadingsInv'
<1>1. /\ user.pc = "view" /\ handle = user.h /\ eng.nm # "none"
      /\ UNCHANGED <<run_no, started, wire, named, can, lin>>
      /\ \/ user' = WentTold("told", eng.nm)
         \/ user' = Went("reading")
    BY DEF NmView, At, Went, WentTold
<1>2. /\ user \in UserState /\ eng \in Reading /\ handles \in Nat /\ handle \in 0 .. handles
      /\ j1939 \in Listener /\ nm \in [states : States, h : Nat] /\ eng.nm \in States
    BY ReadingIs DEF ReadingsInv, ReadingsTypeOK
<1>3. /\ user.op \in NmCalls /\ user.op # "lin" /\ user.op \notin J1939Calls /\ user.op # "none"
      /\ user.h \in 1 .. handles /\ nm.states # "none" /\ nm.h = user.h
    BY <1>1, CallNames DEF ReadingsInv, Stands
<1>4. eng.nm = nm.states
  <2>1. handle # 0
      BY <1>1, <1>2, <1>3
  <2> QED BY <1>1, <1>3, <2>1 DEF ReadingsInv, Configured
<1>5. /\ user' \in UserState /\ user'.op = user.op /\ user'.h = user.h
      /\ user'.pc = "reading" \/ (user'.pc = "told" /\ user'.told = nm.states)
  <2>1. "told" \in Steps /\ "reading" \in Steps
      BY DEF Steps
  <2> QED BY <1>1, <1>2, <1>4, <2>1, UserGoes
<1>6. UNCHANGED <<handle, handles, eng, j1939, nm>>
    BY <1>1 DEF can
<1>7. Stands'
    BY <1>3, <1>5, <1>6 DEF Stands
<1>8. HandlesExist' /\ Balanced' /\ Configured'
    BY <1>6 DEF ReadingsInv, HandlesExist, Balanced, Configured
<1>9. ReadingsTypeOK' /\ TapsMatch' /\ NoTapLost'
    BY <1>1, <1>2, <1>3, <1>5, <1>6, TypesGo, LinKept
<1> QED BY <1>7, <1>8, <1>9 DEF ReadingsInv

\* A handle that is closed, by a close or with its run, leaves nothing; orphaned taps go with it.
LEMMA HandleGone ==
    ASSUME ReadingsInv, handle' = 0, eng' = Deaf, tap' = OrphansClosed, orphans' = {}, run_no' \in Nat,
           started' \in BOOLEAN, UNCHANGED <<wire, named, handles, j1939, nm, bus, listed, closing, user>>
    PROVE  ReadingsInv'
<1>1. /\ tap \in Seq(Tap) /\ bus \in Seq(Bus) /\ user \in UserState /\ handles \in Nat /\ j1939 \in Listener
      /\ nm \in [states : States, h : Nat] /\ closing \in 0 .. Len(tap) /\ listed \in [b : 0 .. Len(bus), run : Nat]
      /\ named \in BusNames /\ wire \in BOOLEAN
    BY DEF ReadingsInv, ReadingsTypeOK
<1>2. /\ tap' \in Seq(Tap) /\ DOMAIN tap' = DOMAIN tap /\ Len(tap') = Len(tap) /\ SameTaps(tap, tap')
      /\ \A u \in DOMAIN tap : tap'[u].open => tap[u].open /\ u \notin orphans
    BY <1>1, OrphansClosedIs
<1>3. ReadingsTypeOK'
    BY <1>1, <1>2, DeafIs DEF ReadingsTypeOK
<1>4. HandlesExist' /\ Configured'
    BY DEF ReadingsInv, HandlesExist, Configured
<1>5. Balanced'
    BY <1>1, DeafIs DEF ReadingsInv, HandlesExist, Balanced, Listener
<1>6. Stands'
  <2>1. handle' # user.h \/ user.op \notin NmCalls
      BY <1>1 DEF ReadingsInv, Stands
  <2> QED BY <2>1 DEF ReadingsInv, Stands
<1>7. TapsMatch' /\ NoTapLost'
    BY <1>2 DEF ReadingsInv, TapsMatch, NoTapLost, OfItsBus, SameTaps
<1> QED BY <1>3, <1>4, <1>5, <1>6, <1>7 DEF ReadingsInv

LEMMA ProjectKeeps == ASSUME ReadingsInv, StopProject \/ StartProject \/ Close PROVE ReadingsInv'
<1>1. run_no \in Nat /\ started \in BOOLEAN
    BY DEF ReadingsInv, ReadingsTypeOK
<1>2. CASE Close
    BY <1>1, <1>2, HandleGone DEF Close
<1>3. CASE StopProject
  <2>0. run_no' = run_no + 1 /\ started' = FALSE
      BY <1>3 DEF StopProject
  <2>1. run_no' \in Nat /\ started' \in BOOLEAN
    <3>1. run_no' \in Nat
        BY <1>1, <2>0
    <3>2. started' \in BOOLEAN
        BY Zenon, <2>0
    <3> QED BY <3>1, <3>2
  <2>2. /\ handle' = 0 /\ eng' = Deaf /\ tap' = OrphansClosed /\ orphans' = {}
        /\ UNCHANGED <<wire, named, handles, j1939, nm, bus, listed, closing, user>>
      BY <1>3 DEF StopProject
  <2> QED BY <2>1, <2>2, HandleGone
<1>4. CASE StartProject
  <2>1. /\ run_no' = run_no + 1 /\ started' = TRUE /\ wire' \in BOOLEAN /\ named' \in BusNames
        /\ UNCHANGED <<can, lin, user>>
      BY <1>4 DEF StartProject
  <2>2. ReadingsTypeOK'
      BY <1>1, <2>1 DEF ReadingsInv, ReadingsTypeOK, can, lin
  <2> QED BY <2>1, <2>2, LinKept, ChannelKept DEF ReadingsInv
<1> QED BY <1>2, <1>3, <1>4

-------------------------------------------------------------------------------
(* The steps of LIN *)

\* A tap known to a call or an object stays the same; so does the bus it is of.
LEMMA StaysOfItsBus ==
    ASSUME SameTaps(tap, tap'), NEW t, NEW b, NEW r, OfItsBus(t, b, r), b \in DOMAIN bus', bus'[b].own = bus[b].own,
           bus'[b].name = bus[b].name
    PROVE  OfItsBus(t, b, r)'
BY DEF OfItsBus, SameTaps

\* What is left to show of a step of LIN: its types, whose the taps are, and that none is lost.
LEMMA LinGoes ==
    ASSUME ReadingsInv, UNCHANGED <<run_no, started, wire, named, can>>,
           bus' \in Seq(Bus), listed' \in [b : 0 .. Len(bus'), run : Nat], tap' \in Seq(Tap),
           orphans' \subseteq DOMAIN tap', closing' \in 0 .. Len(tap'), user' \in UserState,
           \/ user' = user \/ user' = Idle
           \/ user'.op = "lin" /\ user'.pc \in {"lin", "inside", "told"},
           TapsMatch', NoTapLost'
    PROVE  ReadingsInv'
<1>1. ReadingsTypeOK'
    BY DEF ReadingsInv, ReadingsTypeOK, can
<1> QED BY <1>1, ChannelKept DEF ReadingsInv

\* Objects that are there stay, with the name they have.
SameBuses(a, b) ==
    \A x \in DOMAIN a : x \in DOMAIN b /\ b[x].own = a[x].own /\ b[x].name = a[x].name

LEMMA MatchGoes ==
    ASSUME TapsMatch, SameTaps(tap, tap'), SameBuses(bus, bus'),
           \A b \in DOMAIN bus' : bus'[b].h # 0 =>
               \/ b \in DOMAIN bus /\ bus'[b].h = bus[b].h /\ bus'[b].run = bus[b].run
               \/ OfItsBus(bus[b].h, b, bus[b].run)',
           \/ user' = user \/ user'.op # "lin" \/ OfItsBus(user.h, user.fh, user.run)'
    PROVE  TapsMatch'
<1>1. ASSUME NEW b \in DOMAIN bus', bus'[b].h # 0 PROVE OfItsBus(bus[b].h, b, bus[b].run)'
  <2>1. CASE b \in DOMAIN bus /\ bus'[b].h = bus[b].h /\ bus'[b].run = bus[b].run
      BY <1>1, <2>1 DEF TapsMatch, OfItsBus, SameTaps, SameBuses
  <2> QED BY <1>1, <2>1
<1>2. user'.op = "lin" => OfItsBus(user.h, user.fh, user.run)'
    BY DEF TapsMatch, OfItsBus, SameTaps, SameBuses
<1> QED BY <1>1, <1>2 DEF TapsMatch

\* One object changed: tapped, untapped, closed, collected.
Retapped(x, h, r) == [x EXCEPT !.h = h, !.run = r]
Untap(x) == [x EXCEPT !.h = 0]
CloseOf(x, c) == [x EXCEPT !.h = 0, !.closed = c]
CollectOf(x) == [x EXCEPT !.held = FALSE, !.h = 0]
SameBus(x, y) == y \in Bus /\ y.own = x.own /\ y.name = x.name
LEMMA BusIs ==
    ASSUME NEW x \in Bus
    PROVE  /\ x.own \in BOOLEAN /\ x.name \in BusNames \cup {"own"} /\ x.h \in Nat /\ x.run \in Nat
           /\ \A h \in Nat, r \in Nat : /\ SameBus(x, Retapped(x, h, r))
                                        /\ Retapped(x, h, r).h = h /\ Retapped(x, h, r).run = r
           /\ SameBus(x, Untap(x)) /\ Untap(x).h = 0
           /\ \A c \in BOOLEAN : SameBus(x, CloseOf(x, c)) /\ CloseOf(x, c).h = 0
           /\ SameBus(x, CollectOf(x)) /\ CollectOf(x).h = 0
BY DEF Bus, SameBus, Retapped, Untap, CloseOf, CollectOf

LEMMA BusPut ==
    ASSUME NEW q \in Seq(Bus), NEW b \in DOMAIN q, NEW y \in Bus, y.own = q[b].own, y.name = q[b].name
    PROVE  LET p == [q EXCEPT ![b] = y]
           IN  /\ p \in Seq(Bus) /\ Len(p) = Len(q) /\ DOMAIN p = DOMAIN q /\ p[b] = y
               /\ \A j \in DOMAIN q : j # b => p[j] = q[j]
               /\ SameBuses(q, p)
<1> DEFINE p == [q EXCEPT ![b] = y]
<1>1. p \in Seq(Bus) /\ DOMAIN p = DOMAIN q /\ \A j \in DOMAIN q : p[j] = IF j = b THEN y ELSE q[j]
    BY Replaced
<1>2. Len(p) = Len(q)
    BY <1>1, LenProperties
<1> HIDE DEF p
<1>3. SameBuses(q, p)
    BY <1>1 DEF SameBuses
<1> QED BY <1>1, <1>2, <1>3 DEF p

LEMMA BusAdded ==
    ASSUME NEW q \in Seq(Bus), NEW y \in Bus
    PROVE  LET p == Append(q, y)
           IN  /\ p \in Seq(Bus) /\ Len(p) = Len(q) + 1 /\ DOMAIN p = DOMAIN q \cup {Len(q) + 1} /\ Len(q) + 1 \notin DOMAIN q
               /\ p[Len(q) + 1] = y /\ (\A j \in DOMAIN q : p[j] = q[j])
               /\ SameBuses(q, p)
<1> DEFINE p == Append(q, y)
<1>1. p \in Seq(Bus) /\ Len(p) = Len(q) + 1 /\ p[Len(q) + 1] = y /\ \A u \in 1 .. Len(q) : p[u] = q[u]
    BY AppendProperties
<1>2. DOMAIN q = 1 .. Len(q) /\ Len(q) \in Nat /\ DOMAIN p = 1 .. Len(p)
    BY <1>1, LenProperties
<1> HIDE DEF p
<1>3. DOMAIN p = DOMAIN q \cup {Len(q) + 1} /\ Len(q) + 1 \notin DOMAIN q /\ \A j \in DOMAIN q : p[j] = q[j]
    BY <1>1, <1>2
<1>4. SameBuses(q, p)
    BY <1>3 DEF SameBuses
<1> QED BY <1>1, <1>3, <1>4 DEF p

LEMMA ReturnKeeps ==
    ASSUME ReadingsInv, Return, UNCHANGED <<run_no, started, wire, named, can, lin>> PROVE ReadingsInv'
<1>1. user' = Idle /\ user' \in UserState /\ user'.op = "none"
    BY IdleIs DEF Return
<1>2. ReadingsTypeOK'
    BY <1>1, TypesGo DEF can, ReadingsInv, ReadingsTypeOK
<1> QED BY <1>1, <1>2, LinKept, ChannelKept DEF ReadingsInv

LEMMA ListLinKeeps == ASSUME ReadingsInv, ListLin PROVE ReadingsInv'
<1>1. /\ UNCHANGED <<run_no, started, wire, named, can, tap, orphans, closing, user>>
      /\ \/ bus' = bus /\ listed' = [listed EXCEPT !.run = run_no]
         \/ /\ bus' = Append(bus, [own |-> FALSE, name |-> named, h |-> 0, run |-> 0, closed |-> FALSE, held |-> TRUE])
            /\ listed' = [b |-> Len(bus) + 1, run |-> run_no]
    BY DEF ListLin
<1>2. /\ run_no \in Nat /\ named \in BusNames /\ bus \in Seq(Bus) /\ tap \in Seq(Tap) /\ user \in UserState
      /\ orphans \subseteq DOMAIN tap /\ closing \in 0 .. Len(tap) /\ listed \in [b : 0 .. Len(bus), run : Nat]
      /\ TapsMatch /\ NoTapLost /\ Len(bus) \in Nat
    BY LenProperties DEF ReadingsInv, ReadingsTypeOK
<1>3. SameTaps(tap, tap')
    BY <1>1 DEF SameTaps
<1>4. CASE bus' = bus /\ listed' = [listed EXCEPT !.run = run_no]
  <2>1. listed' \in [b : 0 .. Len(bus'), run : Nat]
      BY <1>2, <1>4
  <2>2. TapsMatch' /\ NoTapLost'
      BY <1>1, <1>2, <1>4 DEF TapsMatch, OfItsBus, NoTapLost
  <2>3. /\ UNCHANGED <<run_no, started, wire, named, can>> /\ user' = user /\ user' \in UserState
        /\ bus' \in Seq(Bus) /\ tap' \in Seq(Tap) /\ orphans' \subseteq DOMAIN tap' /\ closing' \in 0 .. Len(tap')
      BY <1>1, <1>2, <1>4
  <2> QED BY <2>1, <2>2, <2>3, LinGoes
<1>5. CASE /\ bus' = Append(bus, [own |-> FALSE, name |-> named, h |-> 0, run |-> 0, closed |-> FALSE, held |-> TRUE])
           /\ listed' = [b |-> Len(bus) + 1, run |-> run_no]
  <2> DEFINE y == [own |-> FALSE, name |-> named, h |-> 0, run |-> 0, closed |-> FALSE, held |-> TRUE]
  <2>1. y \in Bus /\ y.h = 0
      BY <1>2 DEF Bus
  <2>2. bus' = Append(bus, y)
      BY <1>5
  <2> HIDE DEF y
  <2>3. /\ bus' \in Seq(Bus) /\ Len(bus') = Len(bus) + 1 /\ DOMAIN bus' = DOMAIN bus \cup {Len(bus) + 1}
        /\ bus'[Len(bus) + 1] = y /\ (\A j \in DOMAIN bus : bus'[j] = bus[j]) /\ SameBuses(bus, bus')
      BY <1>2, <2>1, <2>2, BusAdded
  <2>4. listed' \in [b : 0 .. Len(bus'), run : Nat]
      BY <1>2, <1>5, <2>3
  <2>5. TapsMatch'
      BY <1>1, <1>2, <1>3, <2>1, <2>3, MatchGoes
  <2>6. NoTapLost'
      BY <1>1, <1>2, <2>3 DEF NoTapLost
  <2>7. /\ UNCHANGED <<run_no, started, wire, named, can>> /\ user' = user /\ user' \in UserState
        /\ bus' \in Seq(Bus) /\ tap' \in Seq(Tap) /\ orphans' \subseteq DOMAIN tap' /\ closing' \in 0 .. Len(tap')
      BY <1>1, <1>2, <2>3
  <2> QED BY <2>4, <2>5, <2>6, <2>7, LinGoes
<1> QED BY <1>1, <1>4, <1>5

LEMMA OpenLinKeeps == ASSUME ReadingsInv, OpenLin PROVE ReadingsInv'
<1> DEFINE x == [own |-> TRUE, name |-> "own", run |-> 0, open |-> TRUE]
           y == [own |-> TRUE, name |-> "own", h |-> Len(tap) + 1, run |-> 0, closed |-> FALSE, held |-> TRUE]
           oc == OrphansClosed
<1>1. /\ UNCHANGED <<run_no, started, wire, named, can, listed, closing, user>>
      /\ tap' = Append(oc, x) /\ orphans' = {} /\ bus' = Append(bus, y)
    BY DEF OpenLin
<1>2. /\ bus \in Seq(Bus) /\ tap \in Seq(Tap) /\ user \in UserState
      /\ closing \in 0 .. Len(tap) /\ listed \in [b : 0 .. Len(bus), run : Nat]
      /\ TapsMatch /\ NoTapLost /\ Len(bus) \in Nat /\ Len(tap) \in Nat
    BY LenProperties DEF ReadingsInv, ReadingsTypeOK
<1>3. PICK m \in Nat, n \in Nat : m = Len(bus) + 1 /\ n = Len(tap) + 1
    BY <1>2
<1>4. x \in Tap /\ y \in Bus /\ x.own = TRUE /\ x.name = "own" /\ y.own = TRUE /\ y.name = "own" /\ y.h = n
    BY <1>2, <1>3 DEF Tap, Bus
<1>5. /\ oc \in Seq(Tap) /\ DOMAIN oc = DOMAIN tap /\ Len(oc) = Len(tap) /\ SameTaps(tap, oc)
      /\ \A u \in DOMAIN tap : oc[u].open => tap[u].open /\ u \notin orphans
    BY <1>2, OrphansClosedIs
<1> HIDE DEF x, y, oc
<1>6. /\ tap' \in Seq(Tap) /\ Len(tap') = n /\ DOMAIN tap' = DOMAIN tap \cup {n} /\ n \notin DOMAIN tap
      /\ tap'[n] = x /\ (\A u \in DOMAIN tap : tap'[u] = oc[u]) /\ SameTaps(tap, tap')
    BY <1>1, <1>3, <1>4, <1>5, TapAdded DEF SameTaps
<1>7. /\ bus' \in Seq(Bus) /\ Len(bus') = m /\ DOMAIN bus' = DOMAIN bus \cup {m} /\ m \notin DOMAIN bus
      /\ bus'[m] = y /\ (\A j \in DOMAIN bus : bus'[j] = bus[j]) /\ SameBuses(bus, bus')
    BY <1>1, <1>2, <1>3, <1>4, BusAdded
<1>8. OfItsBus(bus[m].h, m, bus[m].run)'
    BY <1>4, <1>6, <1>7 DEF OfItsBus
<1>9. TapsMatch'
    BY <1>1, <1>2, <1>6, <1>7, <1>8, MatchGoes
<1>10. NoTapLost'
  <2> SUFFICES ASSUME NEW u \in DOMAIN tap', tap'[u].open
               PROVE  u \in orphans' \/ u = closing' \/ \E b \in DOMAIN bus' : bus'[b].h = u
      BY DEF NoTapLost
  <2>1. CASE u = n
      BY <1>4, <1>7, <2>1
  <2>2. CASE u # n
      BY <1>1, <1>2, <1>5, <1>6, <1>7, <2>2 DEF NoTapLost
  <2> QED BY <2>1, <2>2
<1>11. listed' \in [b : 0 .. Len(bus'), run : Nat] /\ closing' \in 0 .. Len(tap') /\ orphans' \subseteq DOMAIN tap'
    BY <1>1, <1>2, <1>3, <1>6, <1>7
<1>12. user' = user /\ user' \in UserState /\ UNCHANGED <<run_no, started, wire, named, can>>
    BY <1>1, <1>2
<1>13. bus' \in Seq(Bus) /\ tap' \in Seq(Tap)
    BY <1>6, <1>7
<1> QED BY <1>9, <1>10, <1>11, <1>12, <1>13, LinGoes

\* The places of LIN in any state.
LEMMA LinIs ==
    ASSUME ReadingsInv
    PROVE  /\ bus \in Seq(Bus) /\ tap \in Seq(Tap) /\ user \in UserState /\ orphans \subseteq DOMAIN tap
           /\ closing \in 0 .. Len(tap) /\ listed \in [b : 0 .. Len(bus), run : Nat]
           /\ run_no \in Nat /\ named \in BusNames /\ TapsMatch /\ NoTapLost
           /\ Len(bus) \in Nat /\ Len(tap) \in Nat /\ DOMAIN tap = 1 .. Len(tap)
           /\ \A b \in DOMAIN bus : bus[b] \in Bus
           /\ \A b \in DOMAIN bus : bus[b].h # 0 => bus[b].h \in DOMAIN tap
BY LenProperties, Element DEF ReadingsInv, ReadingsTypeOK, TapsMatch, OfItsBus

\* A call on an object's tap.
LEMMA LinCallGoes ==
    ASSUME ReadingsInv, NEW b \in DOMAIN bus, Current(b), LinWaits(b, bus[b].h),
           UNCHANGED <<bus, tap, orphans>>, UNCHANGED <<run_no, started, wire, named, can, listed, closing>>
    PROVE  ReadingsInv'
<1>1. /\ bus[b].h # 0 /\ (bus[b].own \/ bus[b].run = run_no)
      /\ user' = BegunAt("lin", "lin", run_no, bus[b].h, b)
    BY DEF Current, LinWaits, BegunAt
<1>2. OfItsBus(bus[b].h, b, bus[b].run)
    BY <1>1, LinIs DEF TapsMatch
<1>6. run_no \in Nat /\ bus[b].h \in Nat /\ b \in Nat
  <2>1. bus \in Seq(Bus) /\ bus[b] \in Bus /\ run_no \in Nat
      BY LinIs
  <2>2. b \in Nat
      BY <2>1, LenProperties
  <2> QED BY <2>1, <2>2, BusIs
<1>3. OfItsBus(bus[b].h, b, run_no)
    BY <1>1, <1>2 DEF OfItsBus
<1>4. /\ user' \in UserState /\ user'.pc = "lin" /\ user'.op = "lin" /\ user'.run = run_no
      /\ user'.h = bus[b].h /\ user'.fh = b
  <2>1. "lin" \in Steps /\ "lin" \in Operations
      BY DEF Steps, Operations
  <2> QED BY <1>1, <1>6, <2>1, CallBegins
<1>5. TapsMatch' /\ NoTapLost'
    BY <1>3, <1>4, LinIs DEF TapsMatch, OfItsBus, NoTapLost
<1> QED BY <1>4, <1>5, LinIs, LinGoes

\* What becomes of the taps where the one of an earlier run is let go.
Closed(b) == LetGo(OrphansClosed, bus[b].h)
LEMMA ClosedIs ==
    ASSUME ReadingsInv, NEW b \in DOMAIN bus
    PROVE  /\ Closed(b) \in Seq(Tap) /\ DOMAIN Closed(b) = DOMAIN tap /\ Len(Closed(b)) = Len(tap)
           /\ SameTaps(tap, Closed(b))
           /\ \A u \in DOMAIN tap : Closed(b)[u].open => tap[u].open /\ u \notin orphans /\ u # bus[b].h
<1> DEFINE oc == OrphansClosed
<1>1. /\ oc \in Seq(Tap) /\ DOMAIN oc = DOMAIN tap /\ Len(oc) = Len(tap) /\ SameTaps(tap, oc)
      /\ \A u \in DOMAIN tap : oc[u].open => tap[u].open /\ u \notin orphans
    BY LinIs, OrphansClosedIs
<1>2. Closed(b) = LetGo(oc, bus[b].h)
    BY DEF Closed
<1> HIDE DEF oc
<1>3. /\ Closed(b) \in Seq(Tap) /\ DOMAIN Closed(b) = DOMAIN oc /\ Len(Closed(b)) = Len(oc) /\ SameTaps(oc, Closed(b))
      /\ \A u \in DOMAIN oc : Closed(b)[u].open => oc[u].open /\ u # bus[b].h
    BY <1>1, <1>2, LetGoIs
<1> QED BY <1>1, <1>3 DEF SameTaps

\* A bus at its position is tapped in the run that is on; what it had before is let go.
LEMMA LinTapGoes ==
    ASSUME ReadingsInv, NEW b \in DOMAIN bus, ~bus[b].own, named = bus[b].name,
           orphans' = {}, tap' = Tapped(b), bus' = [bus EXCEPT ![b].h = Len(tap) + 1, ![b].run = run_no],
           LinWaits(b, Len(tap) + 1), UNCHANGED <<run_no, started, wire, named, can, listed, closing>>
    PROVE  ReadingsInv'
<1> DEFINE x == [own |-> FALSE, name |-> named, run |-> run_no, open |-> TRUE]  c == Closed(b)
<1>1. /\ bus \in Seq(Bus) /\ bus[b] \in Bus /\ named \in BusNames /\ run_no \in Nat /\ Len(tap) \in Nat /\ Len(bus) \in Nat
      /\ closing \in 0 .. Len(tap) /\ listed \in [b : 0 .. Len(bus), run : Nat] /\ TapsMatch /\ NoTapLost
    BY LinIs
<1>2. PICK n \in Nat : n = Len(tap) + 1
    BY <1>1
<1>3. x \in Tap /\ x.own = FALSE /\ x.name = named /\ x.run = run_no
    BY <1>1 DEF Tap
<1>4. /\ c \in Seq(Tap) /\ DOMAIN c = DOMAIN tap /\ Len(c) = Len(tap) /\ SameTaps(tap, c)
      /\ \A u \in DOMAIN tap : c[u].open => tap[u].open /\ u \notin orphans /\ u # bus[b].h
    BY ClosedIs
<1>5. tap' = Append(c, x)
    BY DEF Tapped, Closed
<1> HIDE DEF x, c
<1>6. /\ tap' \in Seq(Tap) /\ Len(tap') = n /\ DOMAIN tap' = DOMAIN tap \cup {n} /\ n \notin DOMAIN tap
      /\ tap'[n] = x /\ (\A u \in DOMAIN tap : tap'[u] = c[u]) /\ SameTaps(tap, tap')
    BY <1>2, <1>3, <1>4, <1>5, TapAdded DEF SameTaps
<1> DEFINE y == Retapped(bus[b], n, run_no)
<1>7. y \in Bus /\ y.own = bus[b].own /\ y.name = bus[b].name /\ y.h = n /\ y.run = run_no
  <2>1. bus[b] \in Bus /\ run_no \in Nat
      BY <1>1
  <2>2. SameBus(bus[b], y) /\ y.h = n /\ y.run = run_no
      BY <2>1, BusIs
  <2> QED BY <2>2 DEF SameBus
<1>8. bus' = [bus EXCEPT ![b] = y]
    BY <1>1, <1>2 DEF Bus, Retapped
<1> HIDE DEF y
<1>9. /\ bus' \in Seq(Bus) /\ Len(bus') = Len(bus) /\ DOMAIN bus' = DOMAIN bus /\ bus'[b] = y
      /\ (\A j \in DOMAIN bus : j # b => bus'[j] = bus[j]) /\ SameBuses(bus, bus')
  <2>1. bus \in Seq(Bus)
      BY <1>1
  <2>2. b \in DOMAIN bus /\ y \in Bus /\ y.own = bus[b].own /\ y.name = bus[b].name
      BY <1>7
  <2> DEFINE p == [bus EXCEPT ![b] = y]
  <2>3. /\ p \in Seq(Bus) /\ Len(p) = Len(bus) /\ DOMAIN p = DOMAIN bus /\ p[b] = y
        /\ (\A j \in DOMAIN bus : j # b => p[j] = bus[j]) /\ SameBuses(bus, p)
      BY <2>1, <2>2, BusPut
  <2>4. bus' = p
      BY <1>8
  <2> HIDE DEF p
  <2> QED BY <2>3, <2>4
<1>10. OfItsBus(bus[b].h, b, bus[b].run)' /\ OfItsBus(n, b, run_no)'
  <2>1. /\ n \in DOMAIN tap' /\ b \in DOMAIN bus' /\ bus'[b].h = n /\ bus'[b].run = run_no /\ run_no' = run_no
        /\ tap'[n].own = bus'[b].own /\ tap'[n].name = bus'[b].name /\ tap'[n].run = run_no
    <3>1. bus[b].own = FALSE
        BY <1>1, BusIs
    <3> QED BY <1>3, <1>6, <1>7, <1>9, <3>1
  <2> QED BY <2>1 DEF OfItsBus
<1>11. /\ user' \in UserState /\ user'.pc = "lin" /\ user'.op = "lin" /\ user'.run = run_no
       /\ user'.h = n /\ user'.fh = b
  <2>1. "lin" \in Steps /\ "lin" \in Operations /\ b \in Nat
      BY <1>1, LenProperties DEF Steps, Operations
  <2>2. user' = BegunAt("lin", "lin", run_no, n, b)
      BY <1>2 DEF LinWaits, BegunAt
  <2> QED BY <1>1, <2>1, <2>2, CallBegins
<1>12. TapsMatch'
  <2>1. OfItsBus(user.h, user.fh, user.run)'
      BY <1>10, <1>11 DEF OfItsBus
  <2>2. \A j \in DOMAIN bus' : bus'[j].h # 0 =>
           \/ j \in DOMAIN bus /\ bus'[j].h = bus[j].h /\ bus'[j].run = bus[j].run
           \/ OfItsBus(bus[j].h, j, bus[j].run)'
      BY <1>9, <1>10
  <2> QED BY <1>1, <1>6, <1>9, <2>1, <2>2, MatchGoes
<1>13. NoTapLost'
  <2> SUFFICES ASSUME NEW u \in DOMAIN tap', tap'[u].open
               PROVE  u \in orphans' \/ u = closing' \/ \E j \in DOMAIN bus' : bus'[j].h = u
      BY DEF NoTapLost
  <2>1. CASE u = n
      BY <1>7, <1>9, <2>1
  <2>2. CASE u # n
    <3>1. u \in DOMAIN tap /\ tap[u].open /\ u \notin orphans /\ u # bus[b].h
        BY <1>4, <1>6, <2>2
    <3>2. u = closing \/ \E j \in DOMAIN bus : j # b /\ bus[j].h = u
        BY <1>1, <3>1 DEF NoTapLost
    <3> QED BY <1>9, <3>2
  <2> QED BY <2>1, <2>2
<1>14. /\ UNCHANGED <<run_no, started, wire, named, can>> /\ listed' \in [b : 0 .. Len(bus'), run : Nat]
       /\ closing' \in 0 .. Len(tap') /\ orphans' \subseteq DOMAIN tap'
    BY <1>1, <1>2, <1>6, <1>9
<1>15. bus' \in Seq(Bus) /\ tap' \in Seq(Tap)
    BY <1>6, <1>9
<1> QED BY <1>11, <1>12, <1>13, <1>14, <1>15, LinGoes

\* A bus that is no longer at its position, or whose object is closed or collected, is untapped.
LEMMA LinUntapGoes ==
    ASSUME ReadingsInv, NEW b \in DOMAIN bus, NEW y \in Bus, y.own = bus[b].own, y.name = bus[b].name, y.h = 0,
           bus' = [bus EXCEPT ![b] = y], tap' \in Seq(Tap), SameTaps(tap, tap'), DOMAIN tap' = DOMAIN tap,
           Len(tap') = Len(tap), orphans' \subseteq DOMAIN tap, closing' \in 0 .. Len(tap),
           \A u \in DOMAIN tap : tap'[u].open =>
               tap[u].open /\ (u = closing => u = closing') /\ (u \in orphans => u \in orphans')
                 /\ (u = bus[b].h => u = closing' \/ u \in orphans'),
           UNCHANGED <<run_no, started, wire, named, can, listed, user>>
    PROVE  ReadingsInv'
<1>1. /\ bus \in Seq(Bus) /\ Len(bus) \in Nat /\ listed \in [b : 0 .. Len(bus), run : Nat] /\ user \in UserState
      /\ TapsMatch /\ NoTapLost
    BY LinIs
<1>2. /\ bus' \in Seq(Bus) /\ Len(bus') = Len(bus) /\ DOMAIN bus' = DOMAIN bus /\ bus'[b] = y
      /\ (\A j \in DOMAIN bus : j # b => bus'[j] = bus[j]) /\ SameBuses(bus, bus')
    BY <1>1, BusPut
<1>3. TapsMatch'
  <2>1. \A j \in DOMAIN bus' : bus'[j].h # 0 =>
           j \in DOMAIN bus /\ bus'[j].h = bus[j].h /\ bus'[j].run = bus[j].run
      BY <1>2
  <2> QED BY <1>1, <1>2, <2>1, MatchGoes
<1>4. NoTapLost'
    BY <1>1, <1>2 DEF NoTapLost
<1>5. /\ UNCHANGED <<run_no, started, wire, named, can>> /\ listed' \in [b : 0 .. Len(bus'), run : Nat]
      /\ closing' \in 0 .. Len(tap') /\ orphans' \subseteq DOMAIN tap' /\ user' = user /\ user' \in UserState
    BY <1>1, <1>2
<1> QED BY <1>2, <1>3, <1>4, <1>5, LinGoes

LEMMA LinCallKeeps == ASSUME ReadingsInv, NEW b \in DOMAIN bus, LinCall(b) PROVE ReadingsInv'
<1>1. UNCHANGED <<run_no, started, wire, named, can, listed, closing>>
    BY DEF LinCall
<1>2. CASE Current(b)
    BY <1>1, <1>2, LinCallGoes DEF LinCall
<1>3. CASE ~Current(b) /\ AtItsPosition(b)
    BY <1>1, <1>3, LinTapGoes DEF LinCall, AtItsPosition
<1>4. CASE ~Current(b) /\ ~AtItsPosition(b)
  <2>1. /\ orphans' = {} /\ tap' = Closed(b) /\ bus' = [bus EXCEPT ![b].h = 0] /\ user' = user
      BY <1>4 DEF LinCall, Closed
  <2>2. bus[b] \in Bus /\ closing \in 0 .. Len(tap)
      BY LinIs
  <2>3. bus' = [bus EXCEPT ![b] = Untap(bus[b])]
      BY <2>1 DEF Untap
  <2>4. Untap(bus[b]) \in Bus /\ SameBus(bus[b], Untap(bus[b])) /\ Untap(bus[b]).h = 0
      BY <2>2, BusIs DEF SameBus
  <2>5. /\ tap' \in Seq(Tap) /\ SameTaps(tap, tap') /\ DOMAIN tap' = DOMAIN tap /\ Len(tap') = Len(tap)
        /\ \A u \in DOMAIN tap : tap'[u].open => tap[u].open /\ u \notin orphans /\ u # bus[b].h
      BY <2>1, ClosedIs
  <2> QED BY <1>1, <2>1, <2>2, <2>3, <2>4, <2>5, LinUntapGoes DEF SameBus
<1> QED BY <1>2, <1>3, <1>4

LEMMA CloseLinKeeps == ASSUME ReadingsInv, NEW b \in DOMAIN bus, CloseLin(b) PROVE ReadingsInv'
<1> DEFINE y == CloseOf(bus[b], bus[b].own)
<1>1. /\ closing = 0 /\ bus[b].h # 0 /\ closing' = bus[b].h /\ tap' = OrphansClosed /\ orphans' = {}
      /\ bus' = [bus EXCEPT ![b].h = 0, ![b].closed = bus[b].own]
      /\ UNCHANGED <<run_no, started, wire, named, can, listed, user>>
    BY DEF CloseLin, Free
<1>2. bus[b] \in Bus /\ bus[b].h \in DOMAIN tap /\ DOMAIN tap = 1 .. Len(tap) /\ tap \in Seq(Tap) /\ Len(tap) \in Nat
    BY <1>1, LinIs
<1>3. y \in Bus /\ y.own = bus[b].own /\ y.name = bus[b].name /\ y.h = 0
    BY <1>2, BusIs DEF SameBus
<1>4. bus' = [bus EXCEPT ![b] = y]
  <2>1. bus' = [[bus EXCEPT ![b].h = 0] EXCEPT ![b].closed = bus[b].own]
      BY <1>1
  <2> QED BY <1>2, <2>1, LinIs DEF CloseOf, Bus
<1> HIDE DEF y
<1>5. /\ tap' \in Seq(Tap) /\ SameTaps(tap, tap') /\ DOMAIN tap' = DOMAIN tap /\ Len(tap') = Len(tap)
      /\ \A u \in DOMAIN tap : tap'[u].open => tap[u].open /\ u \notin orphans
    BY <1>1, <1>2, OrphansClosedIs
<1>6. closing' \in 0 .. Len(tap) /\ \A u \in DOMAIN tap : u # closing
    BY <1>1, <1>2
<1> QED BY <1>1, <1>3, <1>4, <1>5, <1>6, LinUntapGoes

LEMMA CollectKeeps == ASSUME ReadingsInv, NEW b \in DOMAIN bus, Collect(b) PROVE ReadingsInv'
<1> DEFINE y == CollectOf(bus[b])
<1>1. /\ bus' = [bus EXCEPT ![b].held = FALSE, ![b].h = 0]
      /\ orphans' = IF bus[b].h = 0 THEN orphans ELSE orphans \cup {bus[b].h}
      /\ UNCHANGED <<run_no, started, wire, named, can, listed, tap, closing, user>>
    BY DEF Collect
<1>2. /\ bus[b] \in Bus /\ (bus[b].h # 0 => bus[b].h \in DOMAIN tap) /\ tap \in Seq(Tap) /\ orphans \subseteq DOMAIN tap
      /\ closing \in 0 .. Len(tap) /\ DOMAIN tap = 1 .. Len(tap) /\ Len(tap) \in Nat
    BY LinIs
<1>3. y \in Bus /\ y.own = bus[b].own /\ y.name = bus[b].name /\ y.h = 0
    BY <1>2, BusIs DEF SameBus
<1>4. bus' = [bus EXCEPT ![b] = y]
    BY <1>1, <1>2, LinIs DEF CollectOf, Bus
<1> HIDE DEF y
<1>5. /\ tap' \in Seq(Tap) /\ SameTaps(tap, tap') /\ DOMAIN tap' = DOMAIN tap /\ Len(tap') = Len(tap)
    BY <1>1, <1>2 DEF SameTaps
<1>6. /\ orphans' \subseteq DOMAIN tap
      /\ \A u \in DOMAIN tap : (u \in orphans => u \in orphans') /\ (u = bus[b].h => u \in orphans')
    BY <1>1, <1>2
<1>7. closing' \in 0 .. Len(tap) /\ closing' = closing /\ tap' = tap
    BY <1>1, <1>2
<1> QED BY <1>1, <1>3, <1>4, <1>5, <1>6, <1>7, LinUntapGoes

LEMMA CloseLinEndsKeeps == ASSUME ReadingsInv, CloseLinEnds PROVE ReadingsInv'
<1>1. /\ tap' = LetGo(tap, closing) /\ closing' = 0
      /\ UNCHANGED <<run_no, started, wire, named, can, bus, listed, orphans, user>>
    BY DEF CloseLinEnds
<1>2. /\ bus \in Seq(Bus) /\ tap \in Seq(Tap) /\ user \in UserState /\ orphans \subseteq DOMAIN tap /\ Len(tap) \in Nat
      /\ listed \in [b : 0 .. Len(bus), run : Nat] /\ TapsMatch /\ NoTapLost
    BY LinIs
<1>3. /\ tap' \in Seq(Tap) /\ SameTaps(tap, tap') /\ DOMAIN tap' = DOMAIN tap /\ Len(tap') = Len(tap)
      /\ \A u \in DOMAIN tap : tap'[u].open => tap[u].open /\ u # closing
    BY <1>1, <1>2, LetGoIs
<1>4. TapsMatch' /\ NoTapLost'
  <2>1. TapsMatch'
      BY <1>1, <1>2, <1>3, MatchGoes DEF SameBuses
  <2>2. NoTapLost'
      BY <1>1, <1>2, <1>3 DEF NoTapLost
  <2> QED BY <2>1, <2>2
<1>5. /\ bus' \in Seq(Bus) /\ listed' \in [b : 0 .. Len(bus'), run : Nat] /\ orphans' \subseteq DOMAIN tap'
      /\ closing' \in 0 .. Len(tap') /\ user' = user /\ user' \in UserState
      /\ UNCHANGED <<run_no, started, wire, named, can>>
    BY <1>1, <1>2, <1>3
<1> QED BY <1>3, <1>4, <1>5, LinGoes

\* A call that goes into its tap, and leaves it, stays one on it.
LEMMA LinInsideKeeps == ASSUME ReadingsInv, LinEnter \/ LinLeave PROVE ReadingsInv'
<1>1. /\ user.pc \in {"lin", "inside"} /\ UNCHANGED <<run_no, started, wire, named, can, lin>>
      /\ \E p \in {"inside", "told", "lin"} : user' = Went(p)
    BY DEF LinEnter, LinLeave, At, Went
<1>2. user \in UserState /\ user.op = "lin"
    BY <1>1 DEF ReadingsInv, ReadingsTypeOK, Stands
<1>3. PICK p \in {"inside", "told", "lin"} : user' = Went(p)
    BY <1>1
<1>4. p \in Steps
    BY DEF Steps
<1>5. /\ user' \in UserState /\ user'.pc = p /\ user'.op = "lin" /\ user'.h = user.h /\ user'.fh = user.fh
      /\ user'.run = user.run
    BY <1>2, <1>3, <1>4, UserGoes
<1>6. TapsMatch' /\ NoTapLost'
    BY <1>1, <1>2, <1>5 DEF ReadingsInv, lin, TapsMatch, OfItsBus, NoTapLost
<1>7. ReadingsTypeOK'
    BY <1>1, <1>5 DEF ReadingsInv, ReadingsTypeOK, lin, can
<1>8. HandlesExist' /\ Balanced' /\ Configured' /\ Stands'
    BY <1>1, <1>3, <1>5, ChannelKept
<1> QED BY <1>6, <1>7, <1>8 DEF ReadingsInv

-------------------------------------------------------------------------------
(* The results *)

LEMMA ReadingsNextKeeps == ASSUME ReadingsInv, [ReadingsNext]_readingsVars PROVE ReadingsInv'
<1>1. CASE UNCHANGED readingsVars
  <2>1. UNCHANGED <<run_no, started, wire, named, can, lin, user>>
      BY <1>1 DEF readingsVars
  <2>2. ReadingsTypeOK'
      BY <2>1 DEF ReadingsInv, ReadingsTypeOK, can, lin
  <2> QED BY <2>1, <2>2, LinKept, ChannelKept DEF ReadingsInv
<1>2. CASE Raise \/ Told
    BY <1>2, ReturnKeeps DEF Raise, Told
<1>3. CASE StopProject \/ StartProject
    BY <1>3, ProjectKeeps
<1>4. CASE Channel
  <2>1. ASSUME NEW op \in {"messages", "expect_pgn", "faults", "addresses"}, JBegin(op) PROVE ReadingsInv'
      BY <2>1, JBeginKeeps DEF J1939Calls
  <2>2. ASSUME NEW op \in {"nm_look", "nm_until"}, NmBegin(op) PROVE ReadingsInv'
      BY <2>2, NmBeginKeeps DEF NmCalls
  <2> QED BY <1>4, <2>1, <2>2, ProjectKeeps, RecvKeeps, AskJ1939Keeps, TakeKeeps, PullKeeps, JReadKeeps,
             AddressesKeeps, AskNmKeeps, NmAttachKeeps, NmReadKeeps, NmViewKeeps DEF Channel
<1>5. CASE Lin
    BY <1>5, ListLinKeeps, OpenLinKeeps, LinInsideKeeps, CloseLinEndsKeeps, LinCallKeeps, CloseLinKeeps,
       CollectKeeps DEF Lin
<1> QED BY <1>1, <1>2, <1>3, <1>4, <1>5 DEF ReadingsNext

\* What holds in every state of j1939.py, nm.py and lin.py.
THEOREM ReadingsInvariant == ReadingsSpec => []ReadingsInv
<1>1. ReadingsInv /\ [ReadingsNext]_readingsVars => ReadingsInv'
    BY ReadingsNextKeeps
<1> QED BY <1>1, ReadingsBegin, PTL DEF ReadingsSpec

\* The types: J1939's queues, in the library and in a listener, never outgrow _QUEUE.
THEOREM ReadingsTypes == ReadingsSpec => []ReadingsTypeOK
<1>1. ReadingsInv => ReadingsTypeOK
    BY DEF ReadingsInv
<1> QED BY <1>1, ReadingsInvariant, PTL

\* NothingUncounted (J1939Listener.dropped): nothing a reading completed is missing from the counts.
THEOREM NothingGoesUncounted == ReadingsSpec => []NothingUncounted
<1>1. ReadingsInv => NothingUncounted
  <2> SUFFICES ASSUME ReadingsInv, handle # 0, j1939.h = handle
               PROVE  eng.made = eng.given + eng.messages + eng.faults + j1939.kept + eng.dropped + j1939.lost
      BY DEF NothingUncounted
  <2>1. eng \in Reading /\ j1939 \in Listener /\ Rest(eng) = j1939.kept + j1939.lost
      BY DEF ReadingsInv, ReadingsTypeOK, Balanced
  <2>2. /\ eng.messages \in Nat /\ eng.faults \in Nat /\ eng.dropped \in Nat /\ eng.made \in Nat /\ eng.given \in Nat
        /\ Rest(eng) = eng.made - (eng.given + eng.messages + eng.faults + eng.dropped)
      BY <2>1, ReadingIs, QueueIs
  <2>3. j1939.kept \in Nat /\ j1939.lost \in Nat
      BY <2>1, QueueIs DEF Listener
  <2> QED BY <2>1, <2>2, <2>3
<1> QED BY <1>1, ReadingsInvariant, PTL

\* ReadsAsStated (NmListener): an answer is read by what the newest listener states.
THEOREM AlwaysReadsAsStated == ReadingsSpec => []ReadsAsStated
<1>1. ReadingsInv => ReadsAsStated
    BY DEF ReadingsInv, Stands, ReadsAsStated, At
<1> QED BY <1>1, ReadingsInvariant, PTL

\* LinReadsItsOwn (LinBus): a frame returned is of the bus and run the call was made in.
THEOREM LinAlwaysReadsItsOwn == ReadingsSpec => []LinReadsItsOwn
<1>1. ReadingsInv => LinReadsItsOwn
    BY DEF ReadingsInv, TapsMatch, OfItsBus, LinReadsItsOwn
<1> QED BY <1>1, ReadingsInvariant, PTL

\* NoTapLost (LinBus, _close_orphans): no tap stays open that nobody will close.
THEOREM NoTapIsLost == ReadingsSpec => []NoTapLost
<1>1. ReadingsInv => NoTapLost
    BY DEF ReadingsInv
<1> QED BY <1>1, ReadingsInvariant, PTL
===============================================================================
