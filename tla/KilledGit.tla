------------------------------- MODULE KilledGit ------------------------------
(* What kills leave behind in a state clone (StateSync).  Every git command    *)
(* runs in a process group of its own (internal/gitexec/gitexec_unix.go): when *)
(* its parent is killed, a viewer by the editor or a publisher by the user, it *)
(* goes on without the sync lock.  A command that is killed itself, by SIGKILL *)
(* at its deadline, may leave index.lock, which nobody removes.                *)
EXTENDS StateSync

CONSTANTS
    Leaves,    \* what kills leave: a subset of {"process", "lockFile"}
    MaxKills   \* bound on the kills that leave something

ASSUME KilledAssumption == Leaves \subseteq {"process", "lockFile"} /\ MaxKills \in Nat

VARIABLES
    orphan,     \* per machine, the git command that outlived its parent (see Orphans)
    indexLock,  \* per machine, index.lock is left in the clone
    kills

killedVars == <<orphan, indexLock, kills>>

\* The command, and the clone as it was when the command began.
Orphans == [cmd : {"view", "pull", "push"}, was : Clones]

KilledInit ==
    /\ Init
    /\ orphan = [m \in Machines |-> None]
    /\ indexLock = [m \in Machines |-> FALSE]
    /\ kills = 0
-------------------------------------------------------------------------------
Kill(what) == what \in Leaves /\ kills < MaxKills /\ kills' = kills + 1

Orphaned(m, cmd) ==
    /\ orphan[m] = None
    /\ orphan' = [orphan EXCEPT ![m] = [cmd |-> cmd, was |-> clone[m]]]
    /\ UNCHANGED indexLock

\* The editor kills a check that takes too long or is superseded; git goes on.
KillViewer(m) ==
    /\ lock[m] = Viewer
    /\ Kill("process") /\ Orphaned(m, "view")
    /\ lock' = [lock EXCEPT ![m] = None]
    /\ UNCHANGED <<now, world, remote, clone, pc, ctxDone, tick, outcome, faults, blind>>

\* A publisher is killed while git pulls or pushes for it.
KillPublisher(p) ==
    /\ Kill("process") /\ ~ctxDone[p]
    /\ \/ pc[p] \in {"tickPull", "syncPull"} /\ Orphaned(Home[p], "pull")
       \/ pc[p] = "syncPush" /\ Orphaned(Home[p], "push")
    /\ Crash(p)

\* The commands that take index.lock.
IndexCommands == {"tickAbort", "tickPull", "tickClean", "add", "commit", "sync",
                  "syncPull", "syncClean", "syncQuit", "syncLast"}

\* The deadline fires or the process dies while such a command runs.
KillCommand(p) ==
    /\ pc[p] \in IndexCommands
    /\ Kill("lockFile")
    /\ indexLock' = [indexLock EXCEPT ![Home[p]] = TRUE]
    /\ UNCHANGED orphan
    /\ Deadline(p) \/ Crash(p)
-------------------------------------------------------------------------------
\* Mutant: git forces its result on whatever is there now.
PulledAnyway(m, was) == {Pulled(was, m)}

\* What a pull --rebase that outlived its parent may leave in clone c: it does
\* nothing to a branch, or a rebase, that is no longer the one it began with.
LatePulls(m, was) ==
    {clone[m], Fetched(clone[m], m)}
        \cup IF ~clone[m].rebasing /\ clone[m].branch = was.branch
             THEN BrokenPulls(clone[m], m) ELSE {}

\* Mutant: push --force.
LateForced(m, was) == TRUE

\* The remote takes a late push only if it adds to its branch.
LatePushLands(m, was) ==
    /\ \A q \in Machines \ {m} : was.base[q] = Len(remote[q])
    /\ Len(remote[m]) <= Len(was.branch)

LateBranch(m, was) ==
    [q \in Machines |-> IF q = m THEN was.branch ELSE SubSeq(remote[q], 1, was.base[q])]

\* The command comes to its end, among the steps of whoever has the lock now.
OrphanEnds(m) ==
    LET was == orphan[m].was
    IN  /\ orphan[m] # None
        /\ orphan' = [orphan EXCEPT ![m] = None]
        /\ \/ /\ orphan[m].cmd = "view" /\ ~indexLock[m]
              /\ \E c \in ViewPulls(clone[m], m) : SetClone(m, c)
              /\ UNCHANGED remote
           \/ /\ orphan[m].cmd = "pull" /\ ~indexLock[m]
              /\ \E c \in LatePulls(m, was) : SetClone(m, c)
              /\ UNCHANGED remote
           \/ /\ orphan[m].cmd = "push" /\ LatePushLands(m, was)
              /\ remote' = LateBranch(m, was)
              /\ UNCHANGED clone
           \/ UNCHANGED <<remote, clone>>
        /\ UNCHANGED <<now, world, lock, pc, ctxDone, tick, outcome, faults, blind,
                       indexLock, kills>>

Blocked(m) == indexLock[m] \/ (orphan[m] # None /\ orphan[m].cmd # "push")

\* A command of the tick finds index.lock and fails.
Refused(p) ==
    LET m == Home[p]
        stuck == clone[m].rebasing
    IN  /\ Blocked(m) /\ ~ctxDone[p]
        /\ \/ pc[p] = "tickAbort" /\ stuck /\ AfterTickPull(p)
           \/ pc[p] = "tickPull" /\ Continue(p, "tickClean") /\ UNCHANGED tick
           \/ pc[p] = "tickClean" /\ stuck /\ AfterTickPull(p)
           \/ pc[p] \in {"add", "commit"} /\ Continue(p, "restore") /\ UNCHANGED tick
           \/ /\ pc[p] = "sync" /\ stuck /\ tick[p].attempt <= Retries
              /\ Retry(p)
           \/ pc[p] = "syncPull" /\ Continue(p, "syncClean") /\ UNCHANGED tick
           \/ pc[p] = "syncClean" /\ stuck /\ Retry(p)
           \/ pc[p] \in {"syncQuit", "syncLast"} /\ stuck /\ Return(p, "failed")
        /\ UNCHANGED <<remote, clone, faults, blind, killedVars>>

\* What takes index.lock to change.
Indexed(c) == <<c.branch, c.detached, c.rebasing, c.staged, c.base>>

\* A step of StateSync; as long as index.lock is there none gets past it.
AtWork ==
    /\ Next /\ UNCHANGED killedVars
    /\ \A m \in Machines : indexLock[m] => Indexed(clone'[m]) = Indexed(clone[m])
    /\ \A p \in Procs : indexLock[Home[p]] /\ pc[p] = "add" => pc'[p] # "commit"

KilledNext ==
    \/ AtWork
    \/ \E m \in Machines : KillViewer(m) \/ OrphanEnds(m)
    \/ \E p \in Procs : KillPublisher(p) \/ KillCommand(p) \/ Refused(p)

allVars == <<vars, killedVars>>

KilledSpec == KilledInit /\ [][KilledNext]_allVars

\* An agent's loop keeps running and the service manager restarts it; the lock
\* is polled, so a wait that finds it free again and again gets it; a viewer's
\* pull is bounded by its timeout, and a command that outlived its parent by the
\* network's.  Failures are finitely many (MaxFaults).
KilledFairSpec ==
    /\ KilledSpec
    /\ \A p \in Agents : /\ WF_allVars((AtWork /\ Step(p)) \/ Refused(p))
                         /\ SF_allVars(AtWork /\ Acquire(p))
                         /\ WF_allVars(AtWork /\ Restart(p))
    /\ \A m \in Machines : /\ WF_allVars(AtWork /\ ViewPull(m))
                           /\ WF_allVars(OrphanEnds(m))
-------------------------------------------------------------------------------
KilledTypeOK ==
    /\ TypeOK
    /\ orphan \in [Machines -> Orphans \cup {None}]
    /\ indexLock \in [Machines -> BOOLEAN] /\ kills \in 0..MaxKills

\* Whatever command comes late, the branch of the clone holds what was published
\* for the machine, in the same order, and no report is older than the one before
\* (gitsync.go:330-378).
HistoryKept == Tracking /\ RemoteIsPrefix /\ BranchOrdered

\* "if the agent is publishing, the CLI skips git pull" (README.md:85): no pull
\* of a viewer runs in the clone during a tick.
PullSkipped ==
    \A m \in Machines :
        orphan[m] # None /\ orphan[m].cmd = "view"
            => \A p \in Procs : Home[p] = m => pc[p] \notin InLock

\* "abort before retrying so publishes self-recover instead of sticking"
\* (gitsync.go:341-342), after a command that was killed, too.
SelfRecovers ==
    \A m \in Machines : <>[](remote[m] # <<>> /\ Last(remote[m]).content = world[m])
-------------------------------------------------------------------------------
(* The inductive invariant behind the proofs of StateSyncProofs.             *)

\* What a late push would publish is the beginning of what the clone has.
LateIsOld ==
    \A m \in Machines :
        LET was == orphan[m].was.branch
        IN  orphan[m] # None =>
                /\ Len(was) <= Len(clone[m].branch)
                /\ \A i \in 1..Len(was) : was[i] = clone[m].branch[i]

KilledInv ==
    KilledTypeOK /\ SnapTyped /\ LockHeld /\ HistoryKept /\ ScanIsLatest /\ LateIsOld
===============================================================================
