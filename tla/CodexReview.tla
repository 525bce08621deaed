------------------------------ MODULE CodexReview ------------------------------
(***************************************************************************)
(* scripts/codex_review.py: processes that ask for a review of a pull      *)
(* request's head and watch for its verdict, on one machine and one        *)
(* checkout's git directory.                                               *)
(*                                                                         *)
(* `request` runs under a lock directory with an owner file in it; it may  *)
(* die at any point, and a later process reclaims the lock of a dead one.  *)
(* It looks for a round still pending twice, in its state file and in the  *)
(* comments of the pull request, before it posts another.  `watch` reads   *)
(* the state file and takes no lock.  GitHub's lists are read one by one   *)
(* while the reviewer and whoever pushes go on.                            *)
(***************************************************************************)
EXTENDS Integers, Sequences, SequencesExt, FiniteSetsExt

CONSTANTS
    Procs,          \* the processes, each run again after it ended or died
    Watchers,       \* those of them that also watch
    Places,         \* the worktrees: each has a state file, all share the lock
    Home,           \* the worktree each process requests from
    Nothing,        \* no state file, no verdict
    STALE,          \* a pending request this old may be made again (stale_minutes)
    MaxItems, MaxAnswers, MaxHead, MaxTime, MaxCrashes    \* bounds of the search

ASSUME ReviewAssumption ==
    /\ STALE \in Nat \ {0} /\ Home \in [Procs -> Places]
    /\ {MaxItems, MaxAnswers, MaxHead, MaxTime, MaxCrashes} \subseteq Nat
    /\ Nothing \notin [by : Procs, owned : BOOLEAN, dead : BOOLEAN]
    /\ Nothing \notin [sha : Nat, review : Nat, request : Nat, at : Nat]

VARIABLES
    now,        \* the clock, in the second resolution GitHub's times have
    head,       \* the pull request's head; a push makes a new one
    items,      \* comments and reviews in the order GitHub numbered them
    summary,    \* the reviewer's summary comment, edited in place: the head its marker fails, and when
    lock,       \* the lock directory: who made it, whether the owner file is in it, whether its maker died
    file,       \* per worktree: its state file
    proc,       \* where each process stands
    stolen,     \* history: a reclaim has taken a lock other than the one it had judged
    crashes

github == <<now, head, items, summary>>
vars == <<github, lock, file, proc, stolen, crashes>>

NoScan == [sha |-> 0, review |-> 0, issue |-> 0, request |-> 0, at |-> 0]
Idle == [pc |-> "idle", at |-> Nothing, sha |-> 0, judged |-> FALSE, scan |-> NoScan, purpose |-> "none",
         found |-> Nothing, base |-> 0, request |-> 0]

\* What the process still has to do under the lock: let it go.
Leaving == [Idle EXCEPT !.pc = "leaving"]

Init ==
    /\ now = 1 /\ head = 1 /\ items = <<>>
    /\ summary = [sha |-> 0, at |-> 0]
    /\ lock = Nothing
    /\ file = [d \in Places |-> Nothing]
    /\ proc = [p \in Procs |-> Idle]
    /\ stolen = FALSE /\ crashes = 0

At(p, pc) == proc[p].pc = pc
To(p, pc) == proc' = [proc EXCEPT ![p].pc = pc]
Leaves(p) == proc' = [proc EXCEPT ![p] = Leaving]
Ids(kind, sha) == {i \in DOMAIN items : items[i].kind = kind /\ items[i].sha = sha}
Latest(S) == Max(S)

-------------------------------------------------------------------------------
(* GitHub, the reviewer, whoever pushes *)

Tick == now < MaxTime /\ now' = now + 1 /\ UNCHANGED <<head, items, summary>>
Push == head < MaxHead /\ head' = head + 1 /\ UNCHANGED <<now, items, summary>>

\* Bound: so many verdicts, the summary's marker among them.
Verdicts == Cardinality({i \in DOMAIN items : items[i].kind # "request"}) + (IF summary.sha = 0 THEN 0 ELSE 1)

\* A verdict on a head, however late and however often, asked for here or by somebody else: a
\* review, a comment without findings, a failure.
Answer(sha) ==
    /\ Len(items) < MaxItems /\ Verdicts < MaxAnswers
    /\ \E kind \in {"review", "clean", "failure"} :
        items' = Append(items, [kind |-> kind, sha |-> sha, at |-> now])
    /\ UNCHANGED <<now, head, summary>>

\* The summary comment's marker says "failed"; one such edit per head is followed.
Summarise(sha) ==
    /\ Ids("request", sha) # {} /\ sha > summary.sha /\ Verdicts < MaxAnswers
    /\ summary' = [sha |-> sha, at |-> now]
    /\ UNCHANGED <<now, head, items>>

GitHub ==
    /\ Tick \/ Push \/ \E sha \in 1 .. head : Answer(sha) \/ Summarise(sha)
    /\ UNCHANGED <<lock, file, proc, stolen, crashes>>

-------------------------------------------------------------------------------
(* git_common_lock *)

\* request: the head is read, and equals the local one.
Request(p) ==
    /\ At(p, "idle")
    /\ proc' = [proc EXCEPT ![p] = [Idle EXCEPT !.pc = "locking", !.at = Home[p], !.sha = head]]
    /\ UNCHANGED <<github, lock, file, stolen, crashes>>

\* mkdir makes the lock, or finds one there.
MakeLock(p) ==
    /\ At(p, "locking")
    /\ IF lock = Nothing
       THEN lock' = [by |-> p, owned |-> FALSE, dead |-> FALSE] /\ To(p, "owning")
       ELSE To(p, "judging") /\ UNCHANGED lock
    /\ UNCHANGED <<github, file, stolen, crashes>>

\* The owner file is written into whatever directory has the name now; with none, request raises.
OwnLock(p) ==
    /\ At(p, "owning")
    /\ IF lock # Nothing
       THEN lock' = [by |-> p, owned |-> TRUE, dead |-> FALSE] /\ To(p, "state")
       ELSE proc' = [proc EXCEPT ![p] = Idle] /\ UNCHANGED lock
    /\ UNCHANGED <<github, file, stolen, crashes>>

\* Mutant: judged by the directory being there, whoever made it.
StaleWhoever == lock # Nothing

\* reclaim_stale_lock: by its owner's pid, or by its age when it has no owner file; a live process
\* is never that long between mkdir and the owner file.
Stale == lock # Nothing /\ (lock.dead \/ (~lock.owned /\ ~At(lock.by, "owning")))

\* Not stale, or the rmdir failed: another try a second later, or the wait is over.
WaitForLock(p) ==
    /\ At(p, "judging")
    /\ \E next \in {Idle, [proc[p] EXCEPT !.pc = "locking"]} : proc' = [proc EXCEPT ![p] = next]
    /\ UNCHANGED <<github, lock, file, stolen, crashes>>

JudgeLock(p) ==
    /\ At(p, "judging") /\ Stale
    /\ proc' = [proc EXCEPT ![p].pc = "unlinking", ![p].judged = TRUE]
    /\ UNCHANGED <<github, lock, file, stolen, crashes>>

\* A lock that is gone is not the one anybody judged.
Gone(procs) == [q \in Procs |-> [procs[q] EXCEPT !.judged = FALSE]]

\* The owner file is unlinked and the directory removed: of the lock that is there now.  Of one made
\* after the one that was judged, it is a theft, and two processes may be inside from then on.
Unlink(p) ==
    /\ At(p, "unlinking")
    /\ stolen' = (stolen \/ (lock # Nothing /\ lock.owned /\ ~proc[p].judged))
    /\ lock' = IF lock = Nothing THEN Nothing ELSE [lock EXCEPT !.owned = FALSE]
    /\ To(p, "removing")
    /\ UNCHANGED <<github, file, crashes>>

RemoveDir(p) ==
    LET removed == lock # Nothing /\ ~lock.owned
        moved == [proc EXCEPT ![p].pc = "locking", ![p].judged = FALSE]
    IN  /\ At(p, "removing")
        /\ stolen' = (stolen \/ (removed /\ ~proc[p].judged))
        /\ lock' = IF removed THEN Nothing ELSE lock
        /\ proc' = IF removed THEN Gone(moved) ELSE moved
        /\ UNCHANGED <<github, file, crashes>>

\* The end of the with block: only a lock whose owner file has this process's token is let go.
ReleaseLock(p) ==
    LET mine == lock # Nothing /\ lock.owned /\ lock.by = p
    IN  /\ At(p, "leaving")
        /\ lock' = IF mine THEN Nothing ELSE lock
        /\ proc' = [IF mine THEN Gone(proc) ELSE proc EXCEPT ![p] = Idle]
        /\ UNCHANGED <<github, file, stolen, crashes>>

\* A request dies: what it wrote stays.  (A watch that dies leaves nothing.)
Crash(p) ==
    /\ ~At(p, "idle") /\ proc[p].purpose # "watch" /\ crashes < MaxCrashes
    /\ crashes' = crashes + 1
    /\ lock' = IF lock # Nothing /\ lock.by = p /\ ~lock.dead THEN [lock EXCEPT !.dead = TRUE] ELSE lock
    /\ proc' = [proc EXCEPT ![p] = Idle]
    /\ UNCHANGED <<github, file, stolen>>

-------------------------------------------------------------------------------
(* scan_once: head, reviews, comments, head again *)

\* Mutant: by the number alone.
FreshByNumber(i, baseline, at) == i > baseline

\* is_fresh: numbered past the baseline, and not before the request's second.
Fresh(i, baseline, at) == i > baseline /\ (at = 0 \/ items[i].at >= at)

Reviews(c)  == {i \in Ids("review", c.sha) : Fresh(i, c.review, c.at)}
Cleans(c)   == {i \in Ids("clean", c.sha) : Fresh(i, c.issue, c.at)}
Failures(c) == {i \in DOMAIN items : items[i].kind = "failure" /\ Fresh(i, c.issue, c.at)}

\* The summary is edited in place: its freshness is its edit, strictly after the request's second.
MarkedFailed(c) == c.at # 0 /\ summary.at > c.at /\ summary.sha = c.sha

Scanning == {"scan_head", "scan_reviews", "scan_issues", "scan_again"}
Scan(p, c, purpose) ==
    proc' = [proc EXCEPT ![p].pc = "scan_head", ![p].scan = c, ![p].purpose = purpose, ![p].found = Nothing]

\* What becomes of a scan: a watch that has a verdict ends with it, a pending one looks again later
\* or runs out of time; a request goes on unless the round is pending and not stale, and dies of that.
Pending(p) == now - proc[p].scan.at < STALE
Watched(p, verdict) ==
    CASE verdict = "pending"    -> [proc[p] EXCEPT !.pc = "watching"]
      [] verdict = "stale_head" -> Idle
      [] OTHER                  -> [proc[p] EXCEPT !.pc = "told"]
Checked(p, verdict) ==
    IF verdict = "pending" /\ Pending(p)
    THEN Leaving
    ELSE [proc[p] EXCEPT !.pc = IF proc[p].purpose = "state" THEN "remote" ELSE "baseline",
                         !.scan = NoScan, !.purpose = "none", !.found = Nothing]
Outcome(p, verdict) ==
    proc' = [proc EXCEPT ![p] = IF proc[p].purpose = "watch" THEN Watched(p, verdict) ELSE Checked(p, verdict)]

ScanHead(p) ==
    /\ At(p, "scan_head")
    /\ IF head # proc[p].scan.sha THEN Outcome(p, "stale_head") ELSE To(p, "scan_reviews")
    /\ UNCHANGED <<github, lock, file, stolen, crashes>>

\* What the verdict says is left out: `found` is when it was given.
Finds(p, at) == proc' = [proc EXCEPT ![p].pc = "scan_again", ![p].found = at]

ScanReviews(p) ==
    LET found == Reviews(proc[p].scan)
    IN  /\ At(p, "scan_reviews")
        /\ IF found # {} THEN Finds(p, items[Latest(found)].at) ELSE To(p, "scan_issues")
        /\ UNCHANGED <<github, lock, file, stolen, crashes>>

\* Without a fresh comment that it is clean, a failure: the reply or the summary, whichever is numbered last.
FailedAt(c) ==
    {items[i].at : i \in {j \in Failures(c) : j = Latest(Failures(c))}}
        \cup {at \in {summary.at} : MarkedFailed(c)}

ScanIssues(p) ==
    LET c == proc[p].scan
        found == IF Cleans(c) # {} THEN {items[Latest(Cleans(c))].at} ELSE FailedAt(c)
    IN  /\ At(p, "scan_issues")
        /\ \/ \E at \in found : Finds(p, at)
           \/ found = {} /\ Outcome(p, "pending")
        /\ UNCHANGED <<github, lock, file, stolen, crashes>>

ScanAgain(p) ==
    /\ At(p, "scan_again")
    /\ Outcome(p, IF head # proc[p].scan.sha THEN "stale_head" ELSE "verdict")
    /\ UNCHANGED <<github, lock, file, stolen, crashes>>

\* GitHub does not answer, or the watch's deadline cuts the read short.
ScanFails(p) ==
    /\ proc[p].pc \in Scanning
    /\ proc' = [proc EXCEPT ![p] = IF proc[p].purpose = "watch" THEN Idle ELSE Leaving]
    /\ UNCHANGED <<github, lock, file, stolen, crashes>>

-------------------------------------------------------------------------------
(* request, under the lock *)

StateScan(s) == [sha |-> s.sha, review |-> s.review, issue |-> s.request, request |-> s.request, at |-> s.at]

\* recover_request_timestamp: a state file whose request has no time yet gets it from the comment.
Timed(s) == IF s.at = 0 THEN [s EXCEPT !.at = items[s.request].at] ELSE s

\* check_existing_state: this worktree's state file, if it is about this head.
CheckState(p) ==
    LET s == file[proc[p].at]
    IN  /\ At(p, "state")
        /\ IF s = Nothing \/ s.sha # proc[p].sha
           THEN To(p, "remote") /\ UNCHANGED file
           ELSE /\ file' = [file EXCEPT ![proc[p].at] = Timed(s)]
                /\ Scan(p, StateScan(Timed(s)), "state")
        /\ UNCHANGED <<github, lock, stolen, crashes>>

\* Mutant: only this worktree's state file is looked at.
CheckNoRemote(p) ==
    /\ At(p, "remote")
    /\ To(p, "baseline")
    /\ UNCHANGED <<github, lock, file, stolen, crashes>>

\* check_remote_pending: the latest request comment for this head, whoever's state file it is in.
CheckRemote(p) ==
    LET asked == Ids("request", proc[p].sha)
        i == Latest(asked)
    IN  /\ At(p, "remote")
        /\ IF asked = {}
           THEN To(p, "baseline")
           ELSE Scan(p, [sha |-> proc[p].sha, review |-> 0, issue |-> i, request |-> i, at |-> items[i].at], "remote")
        /\ UNCHANGED <<github, lock, file, stolen, crashes>>

\* max_id: the latest review so far.
ReadBaseline(p) ==
    /\ At(p, "baseline")
    /\ proc' = [proc EXCEPT ![p].pc = "rechecking",
                            ![p].base = Max({i \in DOMAIN items : items[i].kind = "review"} \cup {0})]
    /\ UNCHANGED <<github, lock, file, stolen, crashes>>

\* The head is read again ...
Recheck(p) ==
    /\ At(p, "rechecking")
    /\ IF head = proc[p].sha THEN To(p, "posting") ELSE Leaves(p)
    /\ UNCHANGED <<github, lock, file, stolen, crashes>>

\* ... and the comment posted; GitHub may refuse it, or take it and not say so.
Post(p) ==
    /\ At(p, "posting")
    /\ \/ /\ Len(items) < MaxItems
          /\ items' = Append(items, [kind |-> "request", sha |-> proc[p].sha, at |-> now])
          /\ \/ proc' = [proc EXCEPT ![p].pc = "saving", ![p].request = Len(items) + 1]
             \/ Leaves(p)
       \/ Leaves(p) /\ UNCHANGED items
    /\ UNCHANGED <<now, head, summary, lock, file, stolen, crashes>>

\* write_state, at first without the comment's time ...
Save(p) ==
    /\ At(p, "saving")
    /\ file' = [file EXCEPT ![proc[p].at] =
                    [sha |-> proc[p].sha, review |-> proc[p].base, request |-> proc[p].request, at |-> 0]]
    /\ To(p, "timing")
    /\ UNCHANGED <<github, lock, stolen, crashes>>

\* ... then with it, unless GitHub does not say.
SaveTime(p) ==
    /\ At(p, "timing")
    /\ \/ file' = [file EXCEPT ![proc[p].at] =
                    [sha |-> proc[p].sha, review |-> proc[p].base, request |-> proc[p].request,
                     at |-> items[proc[p].request].at]]
       \/ UNCHANGED file
    /\ Leaves(p)
    /\ UNCHANGED <<github, lock, stolen, crashes>>

-------------------------------------------------------------------------------
(* watch *)

\* watch_config: the state file as it is, without the lock.
Watch(p) ==
    /\ At(p, "idle") /\ p \in Watchers
    /\ \E d \in Places :
        LET s == file[d]
        IN  /\ s # Nothing
            /\ proc' = [proc EXCEPT ![p] =
                          [Idle EXCEPT !.at = d, !.scan = StateScan(s), !.purpose = "watch",
                                       !.pc = IF s.at = 0 THEN "recovering" ELSE "watching"]]
    /\ UNCHANGED <<github, lock, file, stolen, crashes>>

\* recover_request_timestamp writes back the state it read.
Recover(p) ==
    LET c == proc[p].scan
        at == items[c.request].at
    IN  /\ At(p, "recovering")
        /\ file' = [file EXCEPT ![proc[p].at] = [sha |-> c.sha, review |-> c.review, request |-> c.request, at |-> at]]
        /\ proc' = [proc EXCEPT ![p].pc = "watching", ![p].scan.at = at]
        /\ UNCHANGED <<github, lock, stolen, crashes>>

\* Another scan, or the deadline has passed.
WatchAgain(p) ==
    /\ At(p, "watching")
    /\ Scan(p, proc[p].scan, "watch") \/ proc' = [proc EXCEPT ![p] = Idle]
    /\ UNCHANGED <<github, lock, file, stolen, crashes>>

\* The exit code says the verdict.
Exit(p) ==
    /\ At(p, "told")
    /\ proc' = [proc EXCEPT ![p] = Idle]
    /\ UNCHANGED <<github, lock, file, stolen, crashes>>

-------------------------------------------------------------------------------

Step(p) ==
    \/ Request(p) \/ MakeLock(p) \/ OwnLock(p) \/ WaitForLock(p) \/ JudgeLock(p) \/ Unlink(p) \/ RemoveDir(p)
    \/ ReleaseLock(p) \/ Crash(p)
    \/ ScanHead(p) \/ ScanReviews(p) \/ ScanIssues(p) \/ ScanAgain(p) \/ ScanFails(p)
    \/ CheckState(p) \/ CheckRemote(p) \/ ReadBaseline(p) \/ Recheck(p) \/ Post(p) \/ Save(p) \/ SaveTime(p)
    \/ Watch(p) \/ Recover(p) \/ WatchAgain(p) \/ Exit(p)

Next == GitHub \/ \E p \in Procs : Step(p)

Spec == Init /\ [][Next]_vars

-------------------------------------------------------------------------------

Inside(p) ==
    \/ proc[p].pc \in {"state", "remote", "baseline", "rechecking", "posting", "saving", "timing", "leaving"}
    \/ proc[p].pc \in Scanning /\ proc[p].purpose # "watch"

\* Two processes are never both inside git_common_lock, whoever died and left the lock behind,
\* as long as no reclaimer unlinked a lock made after the one it judged (the owner file is read,
\* judged and unlinked in separate steps).
LockExcludes == stolen \/ \A p, q \in Procs : Inside(p) /\ Inside(q) => p = q

\* A request is answered by a review of its head or a comment that it is clean, by a failure
\* (which names no head), or by the summary's marker.
Answered(i) ==
    \/ \E k \in DOMAIN items :
        /\ items[k].at >= items[i].at
        /\ items[k].kind = "failure" \/ (items[k].kind # "request" /\ items[k].sha = items[i].sha)
    \/ summary.sha = items[i].sha /\ summary.at >= items[i].at

\* A request posted in this step is about a head none of whose requests is unanswered and younger
\* than the stale bound.
AsksOfRight ==
    \A i \in DOMAIN items, j \in DOMAIN items' \ DOMAIN items :
        items[i].kind = "request" /\ items'[j].kind = "request" /\ items'[j].sha = items[i].sha
            => Answered(i) \/ now - items[i].at >= STALE

\* A head is not asked about again while a request for it is unanswered and younger than the stale
\* bound, not by another worktree and not after a crash between the comment and the state file, as
\* long as no reclaimer has taken a lock made after the one it judged.
AskedOnce == [][stolen \/ AsksOfRight]_vars

\* allow_stale's docstring has no such exception: a request that is pending is made again only past
\* the stale bound.
AskedOnlyPastTheBound == [][AsksOfRight]_vars

\* A verdict a watch returns was given after the request its state file names was posted (or in
\* the same second, which GitHub's times cannot tell apart): a late verdict of the round before, one
\* between the baseline and the comment, is not taken for it.
VerdictIsItsRounds ==
    \A p \in Procs : At(p, "told") => proc[p].found >= items[proc[p].scan.request].at
================================================================================
