------------------------------ MODULE StateSync ------------------------------
(* How machines share their scans through a git "state repository"           *)
(* (gitsync.go, sync_lock.go, agent.go).  Every machine has one clone.  The  *)
(* processes that publish for a machine (its agent, and the smoke publish of *)
(* the scheduler installation) take the clone's sync lock, pull, scan, and   *)
(* write, commit and push the machine's own snapshot file.  Viewers pull     *)
(* under the same lock.  One action is one git command or one file           *)
(* operation; each may fail, time out, or be cut short by a crash.           *)
EXTENDS Naturals, Sequences, SequencesExt

CONSTANTS
    Machines,      \* machines sharing the state repository
    Procs,         \* publishing processes
    Home,          \* the machine each process runs on
    Agents,        \* the processes that tick forever and are restarted
    Contents,      \* what a scan can report
    None,          \* no snapshot, no lock holder
    Missing,       \* the snapshot file does not exist
    Corrupt,       \* the snapshot file exists and does not parse
    Viewer,        \* any read-only user of the sync lock
    Viewed,        \* the machines on which somebody views
    Retries,       \* SyncConfig.MaxRetries
    Heartbeat,     \* SyncConfig.Heartbeat, in clock units
    RemoteSeeded,  \* the remote has a branch (it had a first commit)
    Faulty,        \* which operations may fail
    MaxNow,        \* bound on the clock
    MaxFaults      \* bound on the number of failures

Faults == {"abort", "pull", "push", "timeout", "revlist", "status", "add",
           "commit", "write", "restore", "scan", "deadline", "crash"}

Snapshots == [content : Contents, at : Nat]

File == Snapshots \cup {Missing, Corrupt}

ASSUME HomeIsMachine == Home \in [Procs -> Machines]
ASSUME SubsetsAreTyped == Agents \subseteq Procs /\ Viewed \subseteq Machines
ASSUME MarkersAreDistinct ==
    /\ {None, Missing, Corrupt} \cap Snapshots = {}
    /\ None # Missing /\ None # Corrupt /\ Missing # Corrupt
    /\ {None, Viewer} \cap Procs = {} /\ None # Viewer
ASSUME BoundsAreNaturals ==
    /\ Retries \in Nat \ {0} /\ Heartbeat \in Nat \ {0}
    /\ MaxNow \in Nat /\ MaxFaults \in Nat
ASSUME SwitchesAreTyped == RemoteSeeded \in BOOLEAN /\ Faulty \subseteq Faults

VARIABLES
    now,       \* the clock
    world,     \* what a scan of each machine would report now
    remote,    \* per machine, the snapshots of it on the remote branch, in order
    clone,     \* per machine, its state-repo clone (see Clones)
    lock,      \* per machine, the holder of the clone's sync lock
    pc,        \* per process, the operation it is about to perform
    ctxDone,   \* per process, its tick context is cancelled or past its deadline
    tick,      \* per process, the locals of the tick (see Ticks)
    outcome,   \* per process, how its last tick ended
    faults,    \* how many failures have happened
    blind      \* per machine, backlog gates skipped because rev-list failed

vars == <<now, world, remote, clone, lock, pc, ctxDone, tick, outcome, faults,
          blind>>

\* A clone.  branch: the own snapshots committed on the local branch, oldest
\* first; tracked: how many of them the remote-tracking ref @{u} holds; base:
\* how many snapshots of every other machine the branch contains; rebasing and
\* detached: an unfinished rebase and the own snapshots on its detached HEAD;
\* disk, staged: the own snapshot file, and its index entry (None: as in HEAD);
\* stash: the file the unfinished rebase autostashed (None: nothing).
Clones == [branch : Seq(Snapshots), tracked : Nat, base : [Machines -> Nat],
           rebasing : BOOLEAN, detached : Seq(Snapshots),
           disk : File, staged : File \cup {None}, stash : File \cup {None}]

\* The locals of PublishLocalSnapshot and rebaseAndPush.  snap: the snapshot
\* to publish; prev: the file as read before (hadPrev: prev is a snapshot);
\* attempt: of the retry loop; caller: who called rebaseAndPush.
Callers == {"flush", "gate", "publish"}

Ticks == [snap : Snapshots \cup {None}, prev : File \cup {None},
          attempt : Nat, caller : Callers]

NoTick == [snap |-> None, prev |-> None, attempt |-> 1, caller |-> "flush"]

InLock == {"tickAbort", "tickPull", "tickClean", "scan", "build", "status",
           "revlist", "gate", "write", "add", "commit", "restore", "sync",
           "syncPull", "syncClean", "syncQuit", "syncPush", "syncLast"}

Labels == InLock \cup {"idle", "waiting", "down"}

Outcomes == {"none", "ok", "failed"}
-------------------------------------------------------------------------------
(* The clone, and what git does to it.                                       *)

\* The version of the own file after the commits of s.
FileAt(s) == IF s = <<>> THEN Missing ELSE Last(s)

\* The own file as of HEAD.
HeadFile(c) == FileAt(IF c.rebasing THEN c.detached ELSE c.branch)

\* Mutants, here and below, are named for the bug they put in the operator
\* that follows them.  Here: a write left uncommitted is never noticed.
DirtyIgnored(c) == FALSE

\* snapshotPathDirty: git status lists the own file.
Dirty(c) == c.disk # HeadFile(c) \/ c.staged # None

\* aheadOfUpstreamCount on a branch with an upstream.
Ahead(c) == Len(c.branch) - c.tracked

\* How many snapshots of every machine the remote holds.
Published == [m \in Machines |-> Len(remote[m])]

\* No other machine has pushed since clone c last integrated the remote.
Integrated(c, m) == \A q \in Machines \ {m} : c.base[q] = Len(remote[q])

\* Mutant: no abort at all.
AbortSkipped(c) == c

\* git rebase --abort: HEAD goes back to the branch, the autostash is applied.
Aborted(c) ==
    IF ~c.rebasing THEN c
    ELSE [c EXCEPT !.rebasing = FALSE, !.detached = <<>>, !.staged = None,
                   !.stash = None,
                   !.disk = IF c.stash = None THEN FileAt(c.branch) ELSE c.stash]

\* What the autostash of a pull that moved HEAD leaves in the own file: a
\* change staged over a committed file is unstaged, an added file stays added
\* (and comes back when only the index had it).
Unstashed(c) ==
    IF c.branch # <<>> \/ c.staged = None THEN [c EXCEPT !.staged = None]
    ELSE IF c.disk = Missing THEN [c EXCEPT !.disk = c.staged]
    ELSE [c EXCEPT !.staged = c.disk]

\* git fetch: the tracking ref holds everything the remote holds.
Fetched(c, m) == [c EXCEPT !.tracked = Len(remote[m])]

\* git pull --rebase --autostash that succeeds: local commits the remote lacks
\* are on top of everything the remote holds.
Pulled(c, m) ==
    LET upToDate == Integrated(c, m) /\ Len(c.branch) = Len(remote[m])
        moved    == IF upToDate THEN c ELSE Unstashed(c)
    IN  [Fetched(moved, m) EXCEPT !.base = Published]

\* A rebase that stops after picking the first k own snapshots.
Stalled(c, m, k) ==
    [Fetched(c, m) EXCEPT
        !.rebasing = TRUE, !.detached = SubSeq(c.branch, 1, k), !.staged = None,
        !.disk = FileAt(SubSeq(c.branch, 1, k)),
        !.stash = IF c.disk = FileAt(c.branch) THEN None ELSE c.disk]

\* What a pull that fails or is killed may leave: nothing done, only the fetch
\* done, all of it done, or (only with commits to rebase) a rebase in progress.
BrokenPulls(c, m) ==
    {c, Fetched(c, m), Pulled(c, m)} \cup
    IF Integrated(c, m) THEN {}
    ELSE {Stalled(c, m, k) : k \in {i \in Len(remote[m])..Len(c.branch) :
                                        Len(remote[m]) < Len(c.branch)}}

\* What a viewer's git pull --ff-only may leave: nothing done, only the fetch
\* done, or the branch moved, which takes that the remote lacks none of its
\* commits.
ViewPulls(c, m) ==
    {c, Fetched(c, m)} \cup
    IF RemoteSeeded /\ ~c.rebasing /\ Len(c.branch) <= Len(remote[m])
    THEN {[Fetched(c, m) EXCEPT !.base = Published]}
    ELSE {}

\* git commit of snapshot s.
Committed(c, s) ==
    IF c.rebasing THEN [c EXCEPT !.detached = Append(@, s), !.staged = None]
                  ELSE [c EXCEPT !.branch = Append(@, s), !.staged = None]
-------------------------------------------------------------------------------
Init ==
    /\ now = 0
    /\ world \in [Machines -> Contents]
    /\ remote = [m \in Machines |-> <<>>]
    /\ clone = [m \in Machines |->
                  [branch |-> <<>>, tracked |-> 0,
                   base |-> [q \in Machines |-> 0],
                   rebasing |-> FALSE, detached |-> <<>>,
                   disk |-> Missing, staged |-> None, stash |-> None]]
    /\ lock = [m \in Machines |-> None]
    /\ pc = [p \in Procs |-> "idle"]
    /\ ctxDone = [p \in Procs |-> FALSE]
    /\ tick = [p \in Procs |-> NoTick]
    /\ outcome = [p \in Procs |-> "none"]
    /\ faults = 0
    /\ blind = [m \in Machines |-> 0]

\* A failure of kind k happens now.
Fail(k) == k \in Faulty /\ faults < MaxFaults /\ faults' = faults + 1

\* A git command of process p fails: because the context is done (it is not
\* even started then) or for a reason of its own.
GitFails(p, k) ==
    IF ctxDone[p] THEN UNCHANGED faults ELSE Fail(k)

\* A git command of process p runs to its end.
GitRuns(p) == ~ctxDone[p] /\ UNCHANGED faults

Goto(p, label) == pc' = [pc EXCEPT ![p] = label]

SetClone(m, c) == clone' = [clone EXCEPT ![m] = c]

\* What no step inside a tick changes.
Outside == UNCHANGED <<now, world>>

\* The tick goes on at label, in the same process and under the same lock.
Continue(p, label) ==
    Goto(p, label) /\ UNCHANGED <<lock, ctxDone, outcome>> /\ Outside

\* The tick returns: the deferred Release frees the lock.
Return(p, result) ==
    /\ Goto(p, "idle")
    /\ lock' = [lock EXCEPT ![Home[p]] = None]
    /\ ctxDone' = [ctxDone EXCEPT ![p] = FALSE]
    /\ tick' = [tick EXCEPT ![p] = NoTick]
    /\ outcome' = [outcome EXCEPT ![p] = result]
    /\ Outside
-------------------------------------------------------------------------------
(* The environment: time, work on the machines, deadlines, crashes, viewers. *)

\* Time passes.
Clock ==
    /\ now < MaxNow
    /\ now' = now + 1
    /\ UNCHANGED <<world, remote, clone, lock, pc, ctxDone, tick, outcome,
                   faults, blind>>

\* Somebody works in a repository of m: the next scan reports something else.
Work(m) ==
    /\ now < MaxNow
    /\ now' = now + 1
    /\ \E c \in Contents \ {world[m]} : world' = [world EXCEPT ![m] = c]
    /\ UNCHANGED <<remote, clone, lock, pc, ctxDone, tick, outcome, faults, blind>>

\* The tick timeout fires, or SIGTERM cancels the context.
Deadline(p) ==
    /\ pc[p] \notin {"idle", "down"} /\ ~ctxDone[p]
    /\ Fail("deadline")
    /\ ctxDone' = [ctxDone EXCEPT ![p] = TRUE]
    /\ UNCHANGED <<now, world, remote, clone, lock, pc, tick, outcome, blind>>

\* The process dies; the kernel drops its lock.  A file it was writing may be
\* cut short.
Crash(p) ==
    /\ pc[p] \notin {"idle", "down"}
    /\ Fail("crash")
    /\ Goto(p, "down")
    /\ lock' = IF lock[Home[p]] = p THEN [lock EXCEPT ![Home[p]] = None] ELSE lock
    /\ \/ UNCHANGED clone
       \/ pc[p] \in {"write", "restore"}
          /\ SetClone(Home[p], [clone[Home[p]] EXCEPT !.disk = Corrupt])
    /\ ctxDone' = [ctxDone EXCEPT ![p] = FALSE]
    /\ tick' = [tick EXCEPT ![p] = NoTick]
    /\ outcome' = [outcome EXCEPT ![p] = "none"]
    /\ UNCHANGED <<now, world, remote, blind>>

\* The service manager starts the process again.
Restart(p) ==
    /\ pc[p] = "down"
    /\ Goto(p, "idle")
    /\ UNCHANGED <<now, world, remote, clone, lock, ctxDone, tick, outcome,
                   faults, blind>>

\* Mutant: the lock does not exclude.
LockShared(m) == TRUE

\* tryAcquireStateRepoSyncLock would succeed.
LockFree(m) == lock[m] = None

\* PullStateRepoReadOnly takes the lock only when it is free.
ViewLock(m) ==
    /\ m \in Viewed /\ LockFree(m)
    /\ lock' = [lock EXCEPT ![m] = Viewer]
    /\ UNCHANGED <<now, world, remote, clone, pc, ctxDone, tick, outcome, faults,
                   blind>>

\* pull --ff-only returns, successfully or not; the lock is released.
ViewPull(m) ==
    /\ lock[m] = Viewer
    /\ \E c \in ViewPulls(clone[m], m) : SetClone(m, c)
    /\ lock' = [lock EXCEPT ![m] = None]
    /\ UNCHANGED <<now, world, remote, pc, ctxDone, tick, outcome, faults, blind>>
-------------------------------------------------------------------------------
(* runAgentTick and smokePublishOnce: the lock, the pull, the scan.          *)

\* The ticker fires.
Start(p) ==
    /\ pc[p] = "idle"
    /\ Goto(p, "waiting")
    /\ outcome' = [outcome EXCEPT ![p] = "none"]
    /\ UNCHANGED <<now, world, remote, clone, lock, ctxDone, tick, faults, blind>>

\* acquireStateRepoSyncLockBlocking finds the lock free.
Acquire(p) ==
    /\ pc[p] = "waiting" /\ LockFree(Home[p])
    /\ lock' = [lock EXCEPT ![Home[p]] = p]
    /\ Goto(p, "tickAbort")
    /\ UNCHANGED <<now, world, remote, clone, ctxDone, tick, outcome, faults, blind>>

\* It finds the lock busy and the context done.
GiveUp(p) ==
    /\ pc[p] = "waiting" /\ lock[Home[p]] # None /\ ctxDone[p]
    /\ Goto(p, "idle")
    /\ ctxDone' = [ctxDone EXCEPT ![p] = FALSE]
    /\ outcome' = [outcome EXCEPT ![p] = "failed"]
    /\ UNCHANGED <<now, world, remote, clone, lock, tick, faults, blind>>

\* abortRebaseIfInProgress returns nil, or an error.
AbortRuns(p) ==
    /\ IF clone[Home[p]].rebasing THEN GitRuns(p) ELSE UNCHANGED faults
    /\ SetClone(Home[p], Aborted(clone[Home[p]]))

AbortFails(p) ==
    clone[Home[p]].rebasing /\ GitFails(p, "abort") /\ UNCHANGED clone

\* git pull --rebase --autostash returns success, or an error.  Without a
\* branch on the remote, or on a detached HEAD, it always fails.
PullRuns(p) ==
    /\ RemoteSeeded /\ ~clone[Home[p]].rebasing
    /\ GitRuns(p)
    /\ SetClone(Home[p], Pulled(clone[Home[p]], Home[p]))

PullRefused(p) ==
    /\ ~ctxDone[p]
    /\ ~RemoteSeeded \/ clone[Home[p]].rebasing
    /\ UNCHANGED <<faults, clone>>

PullBreaks(p, k) ==
    /\ GitFails(p, k)
    /\ IF ctxDone[p] \/ ~RemoteSeeded \/ clone[Home[p]].rebasing
       THEN UNCHANGED clone
       ELSE \E c \in BrokenPulls(clone[Home[p]], Home[p]) : SetClone(Home[p], c)

\* After a pull that failed: the tick stops only when its context is done.
AfterTickPull(p) ==
    IF ctxDone[p] THEN Return(p, "failed")
    ELSE Continue(p, "scan") /\ UNCHANGED tick

\* pullStateRepoLocked, the abort before the pull.
TickAbort(p) ==
    /\ pc[p] = "tickAbort"
    /\ \/ AbortRuns(p) /\ Continue(p, "tickPull") /\ UNCHANGED tick
       \/ AbortFails(p) /\ AfterTickPull(p)
    /\ UNCHANGED <<remote, blind>>

\* pullStateRepoLocked, the pull.
TickPull(p) ==
    /\ pc[p] = "tickPull"
    /\ \/ PullRuns(p) /\ Continue(p, "scan")
       \/ (PullRefused(p) \/ PullBreaks(p, "pull")) /\ Continue(p, "tickClean")
    /\ UNCHANGED <<remote, blind, tick>>

\* pullStateRepoLocked, the abort after a failed pull; its error is ignored.
TickClean(p) ==
    /\ pc[p] = "tickClean"
    /\ AbortRuns(p) \/ AbortFails(p)
    /\ AfterTickPull(p)
    /\ UNCHANGED <<remote, blind>>

\* publishAgentSnapshot, the scan: skipped when the scan root is missing or the
\* context is done, never published in part.
Scan(p) ==
    /\ pc[p] = "scan"
    /\ \/ /\ GitRuns(p)
          /\ tick' = [tick EXCEPT ![p].snap =
                          [content |-> world[Home[p]], at |-> now]]
          /\ Continue(p, "build")
       \/ GitFails(p, "scan") /\ Return(p, "failed")
    /\ UNCHANGED <<remote, clone, blind>>
-------------------------------------------------------------------------------
(* PublishLocalSnapshot.                                                     *)

\* needsCommit as first computed: the file is no snapshot, or reports something
\* else, or is a heartbeat old.
NeedsCommit(prev, snap) ==
    \/ prev \notin Snapshots
    \/ prev.content # snap.content
    \/ snap.at - prev.at >= Heartbeat

\* BuildMachineSnapshot stamps the scan, and the previous file is read.
Build(p) ==
    LET disk == clone[Home[p]].disk
        snap == [tick[p].snap EXCEPT !.at = now]
    IN  /\ pc[p] = "build"
        /\ IF ctxDone[p] THEN Return(p, "failed")
           ELSE /\ tick' = [tick EXCEPT ![p].snap = snap, ![p].prev = disk]
                /\ Continue(p, IF NeedsCommit(disk, snap) THEN "gate" ELSE "status")
        /\ UNCHANGED <<remote, clone, faults, blind>>

\* Nothing to commit, unless an earlier write was left uncommitted.
Status(p) ==
    /\ pc[p] = "status"
    /\ \/ /\ GitRuns(p)
          /\ Continue(p, IF Dirty(clone[Home[p]]) THEN "gate" ELSE "revlist")
          /\ UNCHANGED tick
       \/ GitFails(p, "status") /\ Return(p, "failed")
    /\ UNCHANGED <<remote, clone, blind>>

\* rebaseAndPush is called.
CallSync(p, caller) ==
    /\ tick' = [tick EXCEPT ![p].attempt = 1, ![p].caller = caller]
    /\ Continue(p, "sync")

\* pushIfAhead.  rev-list fails on a detached HEAD, which counts as "nothing to
\* flush", and when the upstream branch does not exist, which does not.
RevList(p) ==
    LET c == clone[Home[p]]
    IN  /\ pc[p] = "revlist"
        /\ \/ /\ GitRuns(p)
              /\ IF c.rebasing THEN Return(p, "ok")
                 ELSE IF ~RemoteSeeded THEN Return(p, "failed")
                 ELSE IF Ahead(c) = 0 THEN Return(p, "ok")
                 ELSE CallSync(p, "flush")
           \/ GitFails(p, "revlist") /\ Return(p, "failed")
        /\ UNCHANGED <<remote, clone, blind>>

\* Mutant: no gate, every heartbeat commits.
BacklogIgnored(c) == FALSE

\* The gate knows of unpushed commits.
KnownBacklog(c) == RemoteSeeded /\ ~c.rebasing /\ Ahead(c) > 0

\* The backlog gate.  It is skipped when rev-list fails, for whatever reason.
Gate(p) ==
    LET m == Home[p]
        c == clone[m]
    IN  /\ pc[p] = "gate"
        /\ \/ /\ GitRuns(p)
              /\ IF KnownBacklog(c)
                 THEN CallSync(p, "gate")
                 ELSE Continue(p, "write") /\ UNCHANGED tick
              /\ UNCHANGED blind
           \/ /\ GitFails(p, "revlist")
              /\ Continue(p, "write")
              /\ blind' = IF ctxDone[p] THEN blind
                          ELSE [blind EXCEPT ![m] = @ + 1]
              /\ UNCHANGED tick
        /\ UNCHANGED <<remote, clone>>

\* What a write of the snapshot file leaves when it fails.
DamagedFile(p) ==
    \E f \in {clone[Home[p]].disk, Corrupt} :
        SetClone(Home[p], [clone[Home[p]] EXCEPT !.disk = f])

\* WriteMachineSnapshot; no restore when it fails.
Write(p) ==
    /\ pc[p] = "write"
    /\ \/ /\ SetClone(Home[p], [clone[Home[p]] EXCEPT !.disk = tick[p].snap])
          /\ Continue(p, "add") /\ UNCHANGED <<tick, faults>>
       \/ Fail("write") /\ DamagedFile(p) /\ Return(p, "failed")
    /\ UNCHANGED <<remote, blind>>

\* commitSnapshot, git add.
Add(p) ==
    LET m == Home[p]
        s == tick[p].snap
    IN  /\ pc[p] = "add"
        /\ \/ /\ GitRuns(p)
              /\ SetClone(m, [clone[m] EXCEPT
                                !.staged = IF s = HeadFile(clone[m]) THEN None ELSE s])
              /\ Continue(p, "commit")
           \/ GitFails(p, "add") /\ UNCHANGED clone /\ Continue(p, "restore")
        /\ UNCHANGED <<remote, tick, blind>>

\* commitSnapshot, git commit.  "Nothing to commit" is an error here: git says
\* it on stdout, and only stderr is examined.  A commit that is killed may have
\* been made.
Commit(p) ==
    LET m == Home[p]
        c == clone[m]
    IN  /\ pc[p] = "commit"
        /\ \/ /\ GitRuns(p) /\ c.staged # None
              /\ SetClone(m, Committed(c, tick[p].snap))
              /\ CallSync(p, "publish")
           \/ /\ \/ GitRuns(p) /\ c.staged = None /\ UNCHANGED clone
                 \/ GitFails(p, "commit") /\ UNCHANGED clone
                 \/ /\ ~ctxDone[p] /\ c.staged # None /\ Fail("commit")
                    /\ SetClone(m, Committed(c, tick[p].snap))
              /\ Continue(p, "restore") /\ UNCHANGED tick
        /\ UNCHANGED <<remote, blind>>

\* Mutant: the failed publish is left on disk.
NotRestored(t) == t.snap

\* The file as read before the write; a file that did not parse is removed.
Restored(t) == IF t.prev \in Snapshots THEN t.prev ELSE Missing

\* restorePublishedSnapshot puts the file back as it was read.
Restore(p) ==
    LET m == Home[p]
    IN  /\ pc[p] = "restore"
        /\ \/ /\ SetClone(m, [clone[m] EXCEPT !.disk = Restored(tick[p])])
              /\ UNCHANGED faults
           \/ Fail("restore") /\ DamagedFile(p)
        /\ Return(p, "failed")
        /\ UNCHANGED <<remote, blind>>
-------------------------------------------------------------------------------
(* rebaseAndPush.                                                            *)

\* The loop goes around: sleep, then the next attempt.
Retry(p) ==
    /\ tick' = [tick EXCEPT ![p].attempt = @ + 1]
    /\ Continue(p, "sync")

\* The head of the loop: out of attempts, cancelled, or abort a stuck rebase.
Sync(p) ==
    /\ pc[p] = "sync"
    /\ IF tick[p].attempt > Retries
       THEN Continue(p, "syncLast") /\ UNCHANGED <<clone, tick, faults>>
       ELSE IF ctxDone[p]
       THEN Continue(p, "syncQuit") /\ UNCHANGED <<clone, tick, faults>>
       ELSE \/ AbortRuns(p) /\ Continue(p, "syncPull") /\ UNCHANGED tick
            \/ AbortFails(p) /\ Retry(p)
            \/ /\ clone[Home[p]].rebasing /\ Fail("timeout")
               /\ UNCHANGED clone /\ Return(p, "failed")
    /\ UNCHANGED <<remote, blind>>

\* The pull.  After a context error (the tick's, or the command's own timeout)
\* the loop is left; after any other it goes around.
SyncPull(p) ==
    /\ pc[p] = "syncPull"
    /\ \/ PullRuns(p) /\ Continue(p, "syncPush")
       \/ PullRefused(p) /\ Continue(p, "syncClean")
       \/ ~ctxDone[p] /\ PullBreaks(p, "pull") /\ Continue(p, "syncClean")
       \/ PullBreaks(p, "timeout") /\ Continue(p, "syncQuit")
    /\ UNCHANGED <<remote, tick, blind>>

\* The abort after a failed pull; its error is ignored.
SyncClean(p) ==
    /\ pc[p] = "syncClean"
    /\ AbortRuns(p) \/ AbortFails(p)
    /\ IF ctxDone[p] THEN Return(p, "failed") ELSE Retry(p)
    /\ UNCHANGED <<remote, blind>>

\* The abort before giving up; its error is ignored.
SyncQuit(p) ==
    /\ pc[p] \in {"syncQuit", "syncLast"}
    /\ AbortRuns(p) \/ AbortFails(p)
    /\ Return(p, "failed")
    /\ UNCHANGED <<remote, blind>>

\* Mutant: push --force.
ForcedPush(m) == TRUE

\* The remote accepts a push that only adds to its branch.
CanPush(m) == Integrated(clone[m], m)

\* The remote branch becomes the local branch of m.
Landed(m) ==
    [q \in Machines |-> IF q = m THEN clone[m].branch
                        ELSE SubSeq(remote[q], 1, clone[m].base[q])]

\* The caller of rebaseAndPush goes on.
SyncDone(p) ==
    IF tick[p].caller = "gate" THEN Continue(p, "write") /\ UNCHANGED tick
    ELSE Return(p, "ok")

\* The push.  The remote rejects it when another machine pushed meanwhile, and
\* may have accepted it when it fails.
SyncPush(p) ==
    LET m == Home[p]
        c == clone[m]
        land == remote' = Landed(m)
    IN  /\ pc[p] = "syncPush"
        /\ \/ /\ GitRuns(p) /\ CanPush(m) /\ land
              /\ SetClone(m, [c EXCEPT !.tracked = Len(c.branch)])
              /\ SyncDone(p)
           \/ /\ GitRuns(p) /\ ~CanPush(m)
              /\ Retry(p) /\ UNCHANGED <<remote, clone>>
           \/ /\ ~ctxDone[p] /\ Fail("push")
              /\ UNCHANGED remote \/ (CanPush(m) /\ land)
              /\ Retry(p) /\ UNCHANGED clone
           \/ /\ GitFails(p, "timeout")
              /\ UNCHANGED remote \/ (~ctxDone[p] /\ CanPush(m) /\ land)
              /\ Return(p, "failed") /\ UNCHANGED clone
        /\ UNCHANGED blind
-------------------------------------------------------------------------------
\* The steps of process p other than being cut short.
Step(p) ==
    \/ Start(p) \/ Acquire(p) \/ GiveUp(p)
    \/ TickAbort(p) \/ TickPull(p) \/ TickClean(p) \/ Scan(p)
    \/ Build(p) \/ Status(p) \/ RevList(p) \/ Gate(p)
    \/ Write(p) \/ Add(p) \/ Commit(p) \/ Restore(p)
    \/ Sync(p) \/ SyncPull(p) \/ SyncClean(p) \/ SyncQuit(p) \/ SyncPush(p)

View(m) == ViewLock(m) \/ ViewPull(m)

Next ==
    \/ Clock
    \/ \E m \in Machines : Work(m) \/ View(m)
    \/ \E p \in Procs : Step(p) \/ Deadline(p) \/ Crash(p) \/ Restart(p)

Spec == Init /\ [][Next]_vars
-------------------------------------------------------------------------------
(* Properties.                                                               *)

\* The labels at which the scan has been stamped.
Stamped == InLock \ {"tickAbort", "tickPull", "tickClean", "scan", "build"}

TypeOK ==
    /\ now \in Nat
    /\ world \in [Machines -> Contents]
    /\ remote \in [Machines -> Seq(Snapshots)]
    /\ clone \in [Machines -> Clones]
    /\ lock \in [Machines -> Procs \cup {None, Viewer}]
    /\ pc \in [Procs -> Labels]
    /\ ctxDone \in [Procs -> BOOLEAN]
    /\ tick \in [Procs -> Ticks]
    /\ outcome \in [Procs -> Outcomes]
    /\ faults \in Nat
    /\ blind \in [Machines -> Nat]

\* The sync lock serializes all writers of a clone: two processes of a machine
\* are never both inside a tick, nor one of them while a viewer pulls.
Serialized ==
    \A p \in Procs :
        pc[p] \in InLock =>
            /\ lock[Home[p]] # Viewer
            /\ \A q \in Procs \ {p} :
                   Home[q] = Home[p] => pc[q] \notin InLock

\* The backlog gate keeps the unpushed commits of a clone at one, except for
\* those committed while rev-list failed (gitsync.go:160-163).
BacklogBounded == \A m \in Machines : Ahead(clone[m]) <= 1 + blind[m]

\* A tick that returns nil leaves its scan on the remote: the published report
\* is the scanned one and is not due for a heartbeat (agent.go:173-174).
NilMeansPublished ==
    [][\A p \in Procs :
         outcome[p] # "ok" /\ outcome'[p] = "ok" =>
            LET r == remote'[Home[p]]
                s == tick[p].snap
            IN  /\ r # <<>>
                /\ Last(r).content = s.content
                /\ s.at - Last(r).at < Heartbeat]_vars

\* A tick that fails leaves no claim behind: unless the restore failed, too, the
\* file on disk is then no later than what is committed, or than the file the tick
\* found there, so the heartbeat of the next ticks is not silenced
\* (gitsync.go:152-157).
FreshnessClock ==
    [][\A p \in Procs :
         LET c == clone'[Home[p]]
             claims(f) == f \in Snapshots /\ c.disk.at <= f.at
         IN  /\ pc[p] \in Stamped /\ pc'[p] = "idle" /\ outcome'[p] = "failed"
             /\ c.disk \in Snapshots
             => \/ claims(FileAt(c.branch)) \/ claims(tick[p].prev)
                \/ pc[p] = "restore" /\ faults' # faults]_vars

\* Every machine's latest work ends up on the remote, with a timestamp that is
\* not a heartbeat old, once the failures and the work stop.
EventuallyCurrent ==
    \A m \in Machines :
        <>[](/\ remote[m] # <<>>
             /\ Last(remote[m]).content = world[m]
             /\ now - Last(remote[m]).at < Heartbeat)

\* The published snapshots form a board on which only the owner replaces its
\* entry and timestamps never go back.
Shown == [m \in Machines |-> IF remote[m] = <<>> THEN None ELSE Last(remote[m])]

Board == INSTANCE SnapshotBoard WITH board <- Shown

BoardSpec == Board!Spec
-------------------------------------------------------------------------------
(* The inductive invariant behind the proofs of StateSyncProofs.             *)

SnapTyped ==
    \A p \in Procs :
        pc[p] \in Stamped \cup {"build"} => tick[p].snap \in Snapshots

\* A process inside a tick holds the lock of its machine.
LockHeld == \A p \in Procs : pc[p] \in InLock => lock[Home[p]] = p

\* The tracking ref is behind the remote, the remote behind the branch.
Tracking ==
    \A m \in Machines :
        /\ clone[m].tracked <= Len(remote[m])
        /\ Len(remote[m]) <= Len(clone[m].branch)

\* Past the gate, a commit that can still land on the branch adds to a backlog
\* only if some rev-list failed.
GatePassed ==
    \A p \in Procs :
        LET m == Home[p]
        IN  pc[p] \in {"write", "add", "commit"} =>
                \/ ctxDone[p] \/ clone[m].rebasing
                \/ Ahead(clone[m]) <= blind[m]

\* The remote holds a prefix of the branch.
RemoteIsPrefix ==
    \A m \in Machines : \A i \in 1..Len(remote[m]) :
        remote[m][i] = clone[m].branch[i]

\* The timestamps on a branch never go back, and the clock is past them all.
BranchOrdered ==
    \A m \in Machines :
        LET b == clone[m].branch
        IN  /\ \A i, j \in 1..Len(b) : i <= j => b[i].at <= b[j].at
            /\ \A i \in 1..Len(b) : b[i].at <= now

\* A stamped scan is as late as everything on the branch.
ScanIsLatest ==
    \A p \in Procs :
        LET b == clone[Home[p]].branch
        IN  pc[p] \in Stamped =>
                /\ tick[p].snap.at <= now
                /\ \A i \in 1..Len(b) : b[i].at <= tick[p].snap.at

\* An autostash exists only during a rebase; while git rebase --abort works, an
\* unfinished rebase is met inside a tick only before the abort that ends it.
Unstuck ==
    /\ \A m \in Machines : clone[m].rebasing \/ clone[m].stash = None
    /\ \A p \in Procs :
           pc[p] \in InLock \ {"tickAbort", "tickClean", "syncClean", "syncQuit"}
               => ~clone[Home[p]].rebasing

InSync == {"sync", "syncPull", "syncClean", "syncQuit", "syncPush", "syncLast"}

\* Only commits are pushed, and unless it flushes the backlog for a new one, a
\* tick that pushes or is about to find nothing to push has on its branch what
\* it scanned.
Pushable ==
    \A p \in Procs :
        LET c == clone[Home[p]]
            s == tick[p].snap
        IN  /\ pc[p] \in InSync => c.branch # <<>>
            /\ pc[p] = "status" =>
                   c.disk = tick[p].prev /\ ~NeedsCommit(c.disk, s)
            /\ pc[p] = "revlist" \/ (pc[p] \in InSync /\ tick[p].caller # "gate") =>
                   c.branch # <<>> /\ ~NeedsCommit(Last(c.branch), s)

\* File f claims no later scan than the branch of clone c or the file prev.
Backed(f, c, prev) ==
    f \in Snapshots =>
        \E g \in {FileAt(c.branch), prev} : g \in Snapshots /\ f.at <= g.at

\* Until the new snapshot is written, neither the file nor the autostash claims
\* more than what is committed or what the tick found; then the file is the new one.
Honest ==
    \A p \in Procs :
        LET c == clone[Home[p]]
            t == tick[p]
        IN  /\ pc[p] \in {"status", "revlist", "gate", "write"} \cup InSync =>
                   Backed(c.disk, c, t.prev) /\ Backed(c.stash, c, t.prev)
            /\ pc[p] \in {"add", "commit"} => c.disk = t.snap

IInv ==
    /\ TypeOK /\ SnapTyped /\ LockHeld /\ Tracking /\ RemoteIsPrefix
    /\ BranchOrdered /\ ScanIsLatest
    /\ RemoteSeeded => GatePassed /\ BacklogBounded
    /\ "abort" \notin Faulty => Unstuck /\ Pushable /\ Honest
===============================================================================
