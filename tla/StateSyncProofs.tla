--------------------------- MODULE StateSyncProofs ---------------------------
(* Theorems about StateSync, and about KilledGit and Doctor, which extend    *)
(* it, for every set of machines and processes and all bounds: type          *)
(* correctness, the sync lock, the backlog gate, the histories on branch and *)
(* remote, the board they show, what a tick commits to when it returns, the  *)
(* git commands that outlive their parents, and what doctor's OK claims.     *)
(* Each part strengthens the invariant of those before it; IInv is the       *)
(* conjunction for StateSync, KilledInv and DoctorInv are those for the      *)
(* other two.                                                                *)
EXTENDS KilledGit, Doctor, SequenceTheorems, TLAPS

\* The version of a file in a history of snapshots is a file.
LEMMA FileAtType ==
    ASSUME NEW s \in Seq(Snapshots)
    PROVE  FileAt(s) \in File
<1>1. CASE s = <<>>
    BY <1>1 DEF FileAt, File
<1>2. CASE s # <<>>
    <2>1. Len(s) \in 1..Len(s)
        BY <1>2
    <2> QED BY <1>2, <2>1 DEF FileAt, File, Last
<1> QED BY <1>1, <1>2

\* git rebase --abort yields a clone.
LEMMA AbortedType ==
    ASSUME NEW c \in Clones
    PROVE  Aborted(c) \in Clones
<1>1. FileAt(c.branch) \in File
    BY FileAtType DEF Clones
<1>2. <<>> \in Seq(Snapshots)
    OBVIOUS
<1> QED BY <1>1, <1>2 DEF Aborted, Clones

\* A fetch yields a clone.
LEMMA FetchedType ==
    ASSUME TypeOK, NEW m \in Machines, NEW c \in Clones
    PROVE  Fetched(c, m) \in Clones
<1>1. Len(remote[m]) \in Nat
    BY DEF TypeOK
<1> QED BY <1>1 DEF Fetched, Clones

\* Applying an autostash yields a clone.
LEMMA UnstashedType ==
    ASSUME NEW c \in Clones
    PROVE  Unstashed(c) \in Clones
BY DEF Unstashed, Clones, File

\* Publishing counts are naturals.
LEMMA PublishedType ==
    ASSUME TypeOK
    PROVE  Published \in [Machines -> Nat]
<1>1. \A m \in Machines : Len(remote[m]) \in Nat
    BY DEF TypeOK
<1> QED BY <1>1 DEF Published

\* A pull that succeeds yields a clone.
LEMMA PulledType ==
    ASSUME TypeOK, NEW m \in Machines, NEW c \in Clones
    PROVE  Pulled(c, m) \in Clones
<1>1. ASSUME NEW d \in Clones
      PROVE  [Fetched(d, m) EXCEPT !.base = Published] \in Clones
    <2>1. Fetched(d, m) \in Clones
        BY FetchedType
    <2> QED BY <2>1, PublishedType DEF Clones
<1>2. Unstashed(c) \in Clones
    BY UnstashedType
<1> QED BY <1>1, <1>2 DEF Pulled

\* A rebase that stalls yields a clone.
LEMMA StalledType ==
    ASSUME TypeOK, NEW m \in Machines, NEW c \in Clones,
           NEW k \in Len(remote[m])..Len(c.branch)
    PROVE  Stalled(c, m, k) \in Clones
<1>1. Fetched(c, m) \in Clones
    BY FetchedType
<1>2. SubSeq(c.branch, 1, k) \in Seq(Snapshots)
    <2>1. c.branch \in Seq(Snapshots) /\ Len(remote[m]) \in Nat
        BY DEF Clones, TypeOK
    <2>2. \A i \in 1..k : i \in 1..Len(c.branch)
        BY <2>1
    <2> QED BY <2>1, <2>2
<1>3. FileAt(SubSeq(c.branch, 1, k)) \in File
    BY <1>2, FileAtType
<1> QED BY <1>1, <1>2, <1>3 DEF Stalled, Clones

\* Whatever a broken pull leaves is a clone.
LEMMA BrokenPullsType ==
    ASSUME TypeOK, NEW m \in Machines, NEW c \in Clones
    PROVE  BrokenPulls(c, m) \subseteq Clones
BY FetchedType, PulledType, StalledType DEF BrokenPulls

\* Whatever a viewer's pull leaves is a clone.
LEMMA ViewPullsType ==
    ASSUME TypeOK, NEW m \in Machines, NEW c \in Clones
    PROVE  ViewPulls(c, m) \subseteq Clones
<1>1. Fetched(c, m) \in Clones
    BY FetchedType
<1>2. [Fetched(c, m) EXCEPT !.base = Published] \in Clones
    BY <1>1, PublishedType DEF Clones
<1> QED BY <1>1, <1>2 DEF ViewPulls

\* A commit yields a clone.
LEMMA CommittedType ==
    ASSUME NEW c \in Clones, NEW s \in Snapshots
    PROVE  Committed(c, s) \in Clones
<1>1. Append(c.branch, s) \in Seq(Snapshots) /\ Append(c.detached, s) \in Seq(Snapshots)
    BY DEF Clones
<1> QED BY <1>1 DEF Committed, Clones

\* A push leaves histories of snapshots on the remote.
LEMMA LandedType ==
    ASSUME TypeOK, NEW m \in Machines, CanPush(m)
    PROVE  Landed(m) \in [Machines -> Seq(Snapshots)]
<1>1. ASSUME NEW q \in Machines, q # m
      PROVE  SubSeq(remote[q], 1, clone[m].base[q]) \in Seq(Snapshots)
    <2>1. clone[m].base[q] = Len(remote[q]) /\ remote[q] \in Seq(Snapshots)
        BY <1>1 DEF CanPush, Integrated, TypeOK
    <2> QED BY <2>1
<1>2. clone[m].branch \in Seq(Snapshots)
    BY DEF TypeOK, Clones
<1> QED BY <1>1, <1>2 DEF Landed
-------------------------------------------------------------------------------
(* Type correctness.                                                         *)

TypeInv == TypeOK /\ SnapTyped

\* What TypeInv says of the processes, and of everything else.
ProcsOK ==
    /\ lock \in [Machines -> Procs \cup {None, Viewer}]
    /\ pc \in [Procs -> Labels]
    /\ ctxDone \in [Procs -> BOOLEAN]
    /\ tick \in [Procs -> Ticks]
    /\ outcome \in [Procs -> Outcomes]
    /\ SnapTyped

DataOK ==
    /\ now \in Nat
    /\ world \in [Machines -> Contents]
    /\ remote \in [Machines -> Seq(Snapshots)]
    /\ clone \in [Machines -> Clones]
    /\ faults \in Nat
    /\ blind \in [Machines -> Nat]

LEMMA TypeInvSplit == TypeInv <=> ProcsOK /\ DataOK
BY DEF TypeInv, TypeOK, ProcsOK, DataOK

\* The same of the next state.
LEMMA TypeInvNext == TypeInv' <=> ProcsOK' /\ DataOK'
BY DEF TypeInv, TypeOK, ProcsOK, DataOK

LEMMA NoTickType == NoTick \in Ticks
BY DEF NoTick, Ticks, Callers

\* A tick that goes on, with the same locals, keeps the processes typed.
LEMMA ContinueType ==
    ASSUME ProcsOK, NEW p \in Procs, NEW label \in Labels,
           Continue(p, label), UNCHANGED tick,
           label \in Stamped \cup {"build"} => pc[p] \in Stamped \cup {"build"}
    PROVE  ProcsOK' /\ UNCHANGED <<now, world>>
BY DEF ProcsOK, Continue, Outside, Goto, SnapTyped

\* A tick that returns keeps the processes typed.
LEMMA ReturnType ==
    ASSUME ProcsOK, NEW p \in Procs, NEW result \in Outcomes, Return(p, result)
    PROVE  ProcsOK' /\ UNCHANGED <<now, world>>
BY NoTickType, HomeIsMachine
   DEF ProcsOK, Return, Outside, Goto, SnapTyped, Stamped, InLock, Labels

\* Calling rebaseAndPush keeps the processes typed.
LEMMA CallSyncType ==
    ASSUME ProcsOK, NEW p \in Procs, NEW caller \in Callers, CallSync(p, caller),
           pc[p] \in Stamped
    PROVE  ProcsOK' /\ UNCHANGED <<now, world>>
<1> DEFINE t == [tick[p] EXCEPT !.attempt = 1, !.caller = caller]
<1>1. /\ tick' = [tick EXCEPT ![p] = t] /\ pc' = [pc EXCEPT ![p] = "sync"]
      /\ UNCHANGED <<lock, ctxDone, outcome, now, world>>
    BY DEF CallSync, Continue, Outside, Goto, ProcsOK, Ticks
<1>2. t \in Ticks /\ t.snap = tick[p].snap
    BY DEF ProcsOK, Ticks
<1>3. tick' \in [Procs -> Ticks] /\ pc' \in [Procs -> Labels]
    BY <1>1, <1>2 DEF ProcsOK, Labels, InLock
<1>4. \A q \in Procs : tick'[q].snap = tick[q].snap
    BY <1>1, <1>2 DEF ProcsOK
<1>5. tick[p].snap \in Snapshots
    BY DEF ProcsOK, SnapTyped
<1>6. SnapTyped'
    BY <1>1, <1>4, <1>5 DEF ProcsOK, SnapTyped
<1> QED BY <1>1, <1>3, <1>6 DEF ProcsOK

\* The next attempt keeps the processes typed.
LEMMA RetryType ==
    ASSUME ProcsOK, NEW p \in Procs, Retry(p), pc[p] \in Stamped
    PROVE  ProcsOK' /\ UNCHANGED <<now, world>>
BY DEF ProcsOK, Retry, Continue, Outside, Goto, SnapTyped, Stamped, InLock,
       Labels, Ticks

\* Counting a failure keeps the counter a natural.
LEMMA FailType ==
    ASSUME DataOK, NEW k, Fail(k)
    PROVE  faults' \in Nat
BY DEF DataOK, Fail

LEMMA SetCloneType ==
    ASSUME DataOK, NEW m \in Machines, NEW c \in Clones, SetClone(m, c)
    PROVE  clone' \in [Machines -> Clones]
BY DEF DataOK, SetClone

\* An abort, however it ends, leaves clones and the counter of failures typed.
LEMMA AbortStepType ==
    ASSUME DataOK, NEW p \in Procs, AbortRuns(p) \/ AbortFails(p)
    PROVE  clone' \in [Machines -> Clones] /\ faults' \in Nat
<1>1. Home[p] \in Machines /\ clone[Home[p]] \in Clones
    BY HomeIsMachine DEF DataOK
<1>2. CASE AbortRuns(p)
    BY <1>1, <1>2, AbortedType, SetCloneType DEF AbortRuns, GitRuns, DataOK
<1>3. CASE AbortFails(p)
    BY <1>3, FailType DEF AbortFails, GitFails, DataOK
<1> QED BY <1>2, <1>3

\* So does a pull.
LEMMA PullStepType ==
    ASSUME TypeOK, DataOK, NEW p \in Procs, NEW k,
           PullRuns(p) \/ PullRefused(p) \/ PullBreaks(p, k)
    PROVE  clone' \in [Machines -> Clones] /\ faults' \in Nat
<1>1. Home[p] \in Machines /\ clone[Home[p]] \in Clones
    BY HomeIsMachine DEF DataOK
<1>2. CASE PullRuns(p)
    BY <1>1, <1>2, PulledType, SetCloneType DEF PullRuns, GitRuns, DataOK
<1>3. CASE PullRefused(p)
    BY <1>3 DEF PullRefused, DataOK
<1>4. CASE PullBreaks(p, k)
    <2>1. faults' \in Nat
        BY <1>4, FailType DEF PullBreaks, GitFails, DataOK
    <2>2. CASE UNCHANGED clone
        BY <2>1, <2>2 DEF DataOK
    <2>3. CASE \E c \in BrokenPulls(clone[Home[p]], Home[p]) : SetClone(Home[p], c)
        BY <1>1, <2>1, <2>3, BrokenPullsType, SetCloneType
    <2> QED BY <1>4, <2>2, <2>3 DEF PullBreaks
<1> QED BY <1>2, <1>3, <1>4

\* Replacing the file on disk yields a clone.
LEMMA DiskType ==
    ASSUME NEW c \in Clones, NEW f \in File
    PROVE  [c EXCEPT !.disk = f] \in Clones
BY DEF Clones

LEMMA TickPreservesTypes ==
    ASSUME TypeInv, NEW p \in Procs,
           \/ TickAbort(p) \/ TickPull(p) \/ TickClean(p) \/ Scan(p)
    PROVE  TypeInv'
<1> USE DEF DataOK
<1>0. ProcsOK /\ DataOK /\ TypeOK
    BY TypeInvSplit DEF TypeInv
<1>1. Home[p] \in Machines /\ clone[Home[p]] \in Clones
    BY <1>0, HomeIsMachine
<1>2. ASSUME AfterTickPull(p)
      PROVE  ProcsOK' /\ UNCHANGED <<now, world>>
    BY <1>0, <1>2, ContinueType, ReturnType
       DEF AfterTickPull, Labels, InLock, Stamped, Outcomes
<1>3. CASE TickAbort(p)
    <2>1. clone' \in [Machines -> Clones] /\ faults' \in Nat
        BY <1>0, <1>3, AbortStepType DEF TickAbort
    <2>2. ProcsOK' /\ UNCHANGED <<now, world>>
        BY <1>0, <1>2, <1>3, ContinueType DEF TickAbort, Labels, InLock, Stamped
    <2> QED BY <1>0, <1>3, <2>1, <2>2, TypeInvNext DEF TickAbort
<1>4. CASE TickPull(p)
    <2>1. clone' \in [Machines -> Clones] /\ faults' \in Nat
        BY <1>0, <1>4, PullStepType DEF TickPull
    <2>2. ProcsOK' /\ UNCHANGED <<now, world>>
        BY <1>0, <1>4, ContinueType DEF TickPull, Labels, InLock, Stamped
    <2> QED BY <1>0, <1>4, <2>1, <2>2, TypeInvNext DEF TickPull
<1>5. CASE TickClean(p)
    <2>1. clone' \in [Machines -> Clones] /\ faults' \in Nat
        BY <1>0, <1>5, AbortStepType DEF TickClean
    <2> QED BY <1>0, <1>2, <1>5, <2>1, TypeInvNext DEF TickClean
<1>6. CASE Scan(p)
    <2>1. faults' \in Nat /\ UNCHANGED <<remote, clone, blind>>
        BY <1>0, <1>6, FailType DEF Scan, GitRuns, GitFails
    <2>2. ProcsOK' /\ UNCHANGED <<now, world>>
        <3>1. [content |-> world[Home[p]], at |-> now] \in Snapshots
            BY <1>0, <1>1 DEF Snapshots
        <3>2. CASE Continue(p, "build")
            <4> DEFINE t == [tick[p] EXCEPT !.snap =
                               [content |-> world[Home[p]], at |-> now]]
            <4>1. tick' = [tick EXCEPT ![p] = t]
                BY <1>0, <1>6, <3>2 DEF Scan, ProcsOK, Return, Continue, Goto
            <4>2. /\ pc' = [pc EXCEPT ![p] = "build"]
                  /\ UNCHANGED <<lock, ctxDone, outcome, now, world>>
                BY <3>2 DEF Continue, Outside, Goto
            <4>3. t \in Ticks /\ t.snap \in Snapshots
                BY <1>0, <3>1 DEF ProcsOK, Ticks
            <4>4. tick' \in [Procs -> Ticks] /\ pc' \in [Procs -> Labels]
                BY <1>0, <4>1, <4>2, <4>3 DEF ProcsOK, Labels, InLock
            <4>5. \A q \in Procs : q # p => tick'[q] = tick[q] /\ pc'[q] = pc[q]
                BY <1>0, <4>1, <4>2 DEF ProcsOK
            <4>6. tick'[p].snap \in Snapshots
                BY <1>0, <4>1, <4>3 DEF ProcsOK
            <4>7. SnapTyped'
                BY <1>0, <4>5, <4>6 DEF ProcsOK, SnapTyped
            <4> QED BY <1>0, <4>2, <4>4, <4>7 DEF ProcsOK
        <3>3. CASE Return(p, "failed")
            BY <1>0, <3>3, ReturnType DEF Outcomes
        <3> QED BY <1>6, <3>2, <3>3 DEF Scan
    <2> QED BY <1>0, <2>1, <2>2, TypeInvNext
<1> QED BY <1>3, <1>4, <1>5, <1>6

\* The outcomes, labels and callers the steps below use.
LEMMA Names ==
    /\ {"ok", "failed", "none"} \subseteq Outcomes
    /\ {"flush", "gate", "publish"} \subseteq Callers
    /\ InLock \subseteq Labels /\ Stamped \subseteq InLock
    /\ {"status", "revlist", "gate", "write", "add", "commit", "restore", "sync",
        "syncPull", "syncClean", "syncQuit", "syncPush", "syncLast"} = Stamped
    /\ {"idle", "waiting", "down", "build"} \subseteq Labels
    /\ {"idle", "waiting", "down", "build"} \cap Stamped = {}
    /\ {"idle", "waiting", "down"} \cap InLock = {}
BY DEF Outcomes, Callers, InLock, Labels, Stamped

LEMMA PublishPreservesTypes ==
    ASSUME TypeInv, NEW p \in Procs,
           \/ Build(p) \/ Status(p) \/ RevList(p) \/ Gate(p)
           \/ Write(p) \/ Add(p) \/ Commit(p) \/ Restore(p)
    PROVE  TypeInv'
<1> USE DEF DataOK
<1>0. ProcsOK /\ DataOK
    BY TypeInvSplit
<1>1. Home[p] \in Machines /\ clone[Home[p]] \in Clones /\ tick[p] \in Ticks
    BY <1>0, HomeIsMachine DEF ProcsOK
<1>2. pc[p] \in Stamped \cup {"build"} => tick[p].snap \in Snapshots
    BY <1>0 DEF ProcsOK, SnapTyped
<1>3. CASE Build(p)
    <2>1. CASE Return(p, "failed")
        BY <1>0, <1>3, <2>1, ReturnType, TypeInvNext, Names DEF Build
    <2>2. CASE ~ctxDone[p]
        <3>1. [tick[p].snap EXCEPT !.at = now] \in Snapshots
            BY <1>0, <1>2, <1>3 DEF Build, Snapshots
        <3>2. clone[Home[p]].disk \in File
            BY <1>1 DEF Clones
        <3>3. ProcsOK' /\ UNCHANGED <<now, world>>
            <4> DEFINE disk == clone[Home[p]].disk
                       snap == [tick[p].snap EXCEPT !.at = now]
            <4>1. tick' = [tick EXCEPT ![p].snap = snap, ![p].prev = disk]
                BY <1>3, <2>2 DEF Build
            <4>2. tick' \in [Procs -> Ticks] /\ tick'[p].snap = snap
                BY <1>0, <1>1, <3>1, <3>2, <4>1 DEF ProcsOK, Ticks
            <4>3. \A q \in Procs \ {p} : tick'[q] = tick[q]
                BY <1>0, <4>1 DEF ProcsOK
            <4>4. PICK label \in Stamped : Continue(p, label)
                BY <1>3, <2>2, Names DEF Build
            <4>5. SnapTyped'
                BY <1>0, <3>1, <4>2, <4>3, <4>4
                   DEF SnapTyped, ProcsOK, Continue, Goto
            <4> QED BY <1>0, <4>2, <4>4, <4>5, Names
                    DEF ProcsOK, Continue, Outside, Goto
        <3> QED BY <1>0, <1>3, <3>3, TypeInvNext DEF Build
    <2> QED BY <1>3, <2>1, <2>2 DEF Build
<1>4. CASE Status(p)
    <2>1. faults' \in Nat
        BY <1>0, <1>4, FailType DEF Status, GitRuns, GitFails
    <2>2. ProcsOK' /\ UNCHANGED <<now, world>>
        BY <1>0, <1>4, ContinueType, ReturnType, Names DEF Status
    <2> QED BY <1>0, <1>4, <2>1, <2>2, TypeInvNext DEF Status
<1>5. CASE RevList(p)
    <2>1. faults' \in Nat
        BY <1>0, <1>5, FailType DEF RevList, GitRuns, GitFails
    <2>2. ProcsOK' /\ UNCHANGED <<now, world>>
        BY <1>0, <1>5, CallSyncType, ReturnType, Names DEF RevList
    <2> QED BY <1>0, <1>5, <2>1, <2>2, TypeInvNext DEF RevList
<1>6. CASE Gate(p)
    <2>1. faults' \in Nat /\ blind' \in [Machines -> Nat]
        BY <1>0, <1>1, <1>6, FailType DEF Gate, GitRuns, GitFails
    <2>2. ProcsOK' /\ UNCHANGED <<now, world>>
        BY <1>0, <1>6, CallSyncType, ContinueType, Names DEF Gate
    <2> QED BY <1>0, <1>6, <2>1, <2>2, TypeInvNext DEF Gate
<1>7. ASSUME DamagedFile(p)
      PROVE  clone' \in [Machines -> Clones]
    <2>1. clone[Home[p]].disk \in File /\ Corrupt \in File
        BY <1>1 DEF Clones, File
    <2> QED BY <1>0, <1>1, <1>7, <2>1, DiskType, SetCloneType DEF DamagedFile
<1>8. CASE Write(p)
    <2>1. faults' \in Nat
        BY <1>0, <1>8, FailType DEF Write
    <2>2. tick[p].snap \in File
        BY <1>2, <1>8, Names DEF Write, File
    <2>3. clone' \in [Machines -> Clones]
        BY <1>0, <1>1, <1>7, <1>8, <2>2, DiskType, SetCloneType DEF Write
    <2>4. ProcsOK' /\ UNCHANGED <<now, world>>
        BY <1>0, <1>8, ContinueType, ReturnType, Names DEF Write
    <2> QED BY <1>0, <1>8, <2>1, <2>3, <2>4, TypeInvNext DEF Write
<1>9. CASE Add(p)
    <2>1. faults' \in Nat
        BY <1>0, <1>9, FailType DEF Add, GitRuns, GitFails
    <2>2. ASSUME NEW s \in File \cup {None}
          PROVE  [clone[Home[p]] EXCEPT !.staged = s] \in Clones
        BY <1>1 DEF Clones
    <2>3. (IF tick[p].snap = HeadFile(clone[Home[p]]) THEN None ELSE tick[p].snap)
             \in File \cup {None}
        BY <1>2, <1>9, Names DEF Add, File
    <2>4. clone' \in [Machines -> Clones]
        BY <1>0, <1>1, <1>9, <2>2, <2>3, SetCloneType DEF Add
    <2>5. ProcsOK' /\ UNCHANGED <<now, world>>
        BY <1>0, <1>9, ContinueType, Names DEF Add
    <2> QED BY <1>0, <1>9, <2>1, <2>4, <2>5, TypeInvNext DEF Add
<1>10. CASE Commit(p)
    <2>1. faults' \in Nat
        BY <1>0, <1>10, FailType DEF Commit, GitRuns, GitFails
    <2>2. Committed(clone[Home[p]], tick[p].snap) \in Clones
        BY <1>1, <1>2, <1>10, CommittedType, Names DEF Commit
    <2>3. clone' \in [Machines -> Clones]
        BY <1>0, <1>1, <1>10, <2>2, SetCloneType DEF Commit
    <2>4. ProcsOK' /\ UNCHANGED <<now, world>>
        BY <1>0, <1>10, CallSyncType, ContinueType, Names DEF Commit
    <2> QED BY <1>0, <1>10, <2>1, <2>3, <2>4, TypeInvNext DEF Commit
<1>11. CASE Restore(p)
    <2>1. faults' \in Nat
        BY <1>0, <1>11, FailType DEF Restore
    <2>2. Restored(tick[p]) \in File
        BY DEF Restored, File
    <2>3. clone' \in [Machines -> Clones]
        BY <1>0, <1>1, <1>7, <1>11, <2>2, DiskType, SetCloneType DEF Restore
    <2>4. ProcsOK' /\ UNCHANGED <<now, world>>
        BY <1>0, <1>11, ReturnType, Names DEF Restore
    <2> QED BY <1>0, <1>11, <2>1, <2>3, <2>4, TypeInvNext DEF Restore
<1> QED BY <1>3, <1>4, <1>5, <1>6, <1>8, <1>9, <1>10, <1>11

LEMMA SyncPreservesTypes ==
    ASSUME TypeInv, NEW p \in Procs,
           \/ Sync(p) \/ SyncPull(p) \/ SyncClean(p) \/ SyncQuit(p) \/ SyncPush(p)
    PROVE  TypeInv'
<1> USE DEF DataOK
<1>0. ProcsOK /\ DataOK /\ TypeOK
    BY TypeInvSplit DEF TypeInv
<1>1. Home[p] \in Machines /\ clone[Home[p]] \in Clones
    BY <1>0, HomeIsMachine
<1>2. CASE Sync(p)
    <2>1. clone' \in [Machines -> Clones] /\ faults' \in Nat
        BY <1>0, <1>2, AbortStepType, FailType DEF Sync
    <2>2. ProcsOK' /\ UNCHANGED <<now, world>>
        BY <1>0, <1>2, ContinueType, ReturnType, RetryType, Names DEF Sync
    <2> QED BY <1>0, <1>2, <2>1, <2>2, TypeInvNext DEF Sync
<1>3. CASE SyncPull(p)
    <2>1. clone' \in [Machines -> Clones] /\ faults' \in Nat
        BY <1>0, <1>3, PullStepType DEF SyncPull
    <2>2. ProcsOK' /\ UNCHANGED <<now, world>>
        BY <1>0, <1>3, ContinueType, Names DEF SyncPull
    <2> QED BY <1>0, <1>3, <2>1, <2>2, TypeInvNext DEF SyncPull
<1>4. CASE SyncClean(p)
    <2>1. clone' \in [Machines -> Clones] /\ faults' \in Nat
        BY <1>0, <1>4, AbortStepType DEF SyncClean
    <2>2. ProcsOK' /\ UNCHANGED <<now, world>>
        BY <1>0, <1>4, RetryType, ReturnType, Names DEF SyncClean
    <2> QED BY <1>0, <1>4, <2>1, <2>2, TypeInvNext DEF SyncClean
<1>5. CASE SyncQuit(p)
    <2>1. clone' \in [Machines -> Clones] /\ faults' \in Nat
        BY <1>0, <1>5, AbortStepType DEF SyncQuit
    <2>2. ProcsOK' /\ UNCHANGED <<now, world>>
        BY <1>0, <1>5, ReturnType, Names DEF SyncQuit
    <2> QED BY <1>0, <1>5, <2>1, <2>2, TypeInvNext DEF SyncQuit
<1>6. CASE SyncPush(p)
    <2>1. faults' \in Nat
        BY <1>0, <1>6, FailType DEF SyncPush, GitRuns, GitFails
    <2>2. remote' \in [Machines -> Seq(Snapshots)]
        BY <1>0, <1>1, <1>6, LandedType DEF SyncPush
    <2>3. Len(clone[Home[p]].branch) \in Nat
        BY <1>1 DEF Clones
    <2>4. [clone[Home[p]] EXCEPT !.tracked = Len(clone[Home[p]].branch)] \in Clones
        BY <1>1, <2>3 DEF Clones
    <2>5. clone' \in [Machines -> Clones]
        BY <1>0, <1>1, <1>6, <2>4, SetCloneType DEF SyncPush
    <2>6. ProcsOK' /\ UNCHANGED <<now, world>>
        BY <1>0, <1>6, ContinueType, ReturnType, RetryType, Names
           DEF SyncPush, SyncDone
    <2> QED BY <1>0, <1>6, <2>1, <2>2, <2>5, <2>6, TypeInvNext DEF SyncPush
<1> QED BY <1>2, <1>3, <1>4, <1>5, <1>6

\* The steps that start, end or cut short a tick.
LEMMA OtherPreservesTypes ==
    ASSUME TypeInv, NEW p \in Procs,
           \/ Start(p) \/ Acquire(p) \/ GiveUp(p)
           \/ Deadline(p) \/ Crash(p) \/ Restart(p)
    PROVE  TypeInv'
<1> USE DEF DataOK
<1>0. ProcsOK /\ DataOK /\ TypeOK
    BY TypeInvSplit DEF TypeInv
<1>1. Home[p] \in Machines /\ clone[Home[p]] \in Clones
    BY <1>0, HomeIsMachine
<1>2. CASE Start(p) \/ Acquire(p) \/ GiveUp(p) \/ Restart(p)
    <2>1. UNCHANGED <<now, world, remote, clone, faults, blind>>
        BY <1>2 DEF Start, Acquire, GiveUp, Restart
    <2>2. "tickAbort" \in Labels \ (Stamped \cup {"build"})
        BY DEF Labels, InLock, Stamped
    <2>3. PICK label \in Labels \ (Stamped \cup {"build"}) : Goto(p, label)
        BY <1>2, <2>2, Names DEF Start, Acquire, GiveUp, Restart
    <2>4. UNCHANGED tick
        BY <1>2 DEF Start, Acquire, GiveUp, Restart
    <2>5. pc' \in [Procs -> Labels] /\ SnapTyped'
        BY <1>0, <2>3, <2>4 DEF Goto, ProcsOK, SnapTyped
    <2>6. lock' \in [Machines -> Procs \cup {None, Viewer}]
        BY <1>0, <1>1, <1>2 DEF Start, Acquire, GiveUp, Restart, ProcsOK
    <2>7. ctxDone' \in [Procs -> BOOLEAN] /\ outcome' \in [Procs -> Outcomes]
        <3>1. CASE Start(p)
            BY <1>0, <3>1, Names DEF Start, ProcsOK
        <3>2. CASE Acquire(p)
            BY <1>0, <3>2, Names DEF Acquire, ProcsOK
        <3>3. CASE GiveUp(p)
            BY <1>0, <3>3, Names DEF GiveUp, ProcsOK
        <3>4. CASE Restart(p)
            BY <1>0, <3>4, Names DEF Restart, ProcsOK
        <3> QED BY <1>2, <3>1, <3>2, <3>3, <3>4
    <2>8. ProcsOK'
        BY <1>0, <2>4, <2>5, <2>6, <2>7 DEF ProcsOK
    <2> QED BY <1>0, <2>1, <2>8, TypeInvNext
<1>3. CASE Deadline(p)
    <2>1. ProcsOK' /\ faults' \in Nat
        BY <1>0, <1>3, FailType DEF Deadline, ProcsOK, SnapTyped
    <2> QED BY <1>0, <1>3, <2>1, TypeInvNext DEF Deadline
<1>4. CASE Crash(p)
    <2>1. faults' \in Nat
        BY <1>0, <1>4, FailType DEF Crash
    <2>2. clone' \in [Machines -> Clones]
        BY <1>0, <1>1, <1>4, DiskType, SetCloneType DEF Crash, File
    <2>3. ProcsOK'
        BY <1>0, <1>4, NoTickType, Names DEF Crash, Goto, ProcsOK, SnapTyped
    <2> QED BY <1>0, <1>4, <2>1, <2>2, <2>3, TypeInvNext DEF Crash
<1> QED BY <1>2, <1>3, <1>4

LEMMA InitTypes == Init => TypeInv
<1> SUFFICES ASSUME Init PROVE TypeInv
    OBVIOUS
<1>1. <<>> \in Seq(Snapshots) /\ Missing \in File
    BY DEF File
<1>2. clone \in [Machines -> Clones]
    BY <1>1 DEF Init, Clones
<1>3. ProcsOK
    BY NoTickType, Names DEF Init, ProcsOK, SnapTyped
<1>4. DataOK
    BY <1>1, <1>2 DEF Init, DataOK
<1> QED BY <1>3, <1>4, TypeInvSplit

LEMMA NextTypes == TypeInv /\ [Next]_vars => TypeInv'
<1> SUFFICES ASSUME TypeInv, [Next]_vars PROVE TypeInv'
    OBVIOUS
<1>1. CASE UNCHANGED vars
    BY <1>1 DEF vars, TypeInv, TypeOK, SnapTyped
<1>2. CASE Clock
    <2>1. now' \in Nat
        BY <1>2 DEF Clock, TypeInv, TypeOK
    <2> QED BY <1>2, <2>1 DEF Clock, TypeInv, TypeOK, SnapTyped
<1>3. ASSUME NEW m \in Machines, Work(m) \/ View(m)
      PROVE  TypeInv'
    <2>1. CASE Work(m)
        BY <2>1 DEF Work, TypeInv, TypeOK, SnapTyped
    <2>2. CASE View(m)
        <3>1. CASE ViewLock(m)
            BY <3>1 DEF ViewLock, TypeInv, TypeOK, SnapTyped
        <3>2. CASE ViewPull(m)
            <4>1. clone[m] \in Clones /\ TypeOK
                BY DEF TypeInv, TypeOK
            <4>2. clone' \in [Machines -> Clones]
                BY <3>2, <4>1, ViewPullsType DEF ViewPull, SetClone, TypeOK
            <4> QED BY <3>2, <4>2 DEF ViewPull, TypeInv, TypeOK, SnapTyped
        <3> QED BY <2>2, <3>1, <3>2 DEF View
    <2> QED BY <1>3, <2>1, <2>2
<1>4. ASSUME NEW p \in Procs, Step(p) \/ Deadline(p) \/ Crash(p) \/ Restart(p)
      PROVE  TypeInv'
    BY <1>4, TickPreservesTypes, PublishPreservesTypes, SyncPreservesTypes,
       OtherPreservesTypes DEF Step
<1> QED BY <1>1, <1>2, <1>3, <1>4 DEF Next

\* Every variable keeps its type: in particular the files, histories and index
\* entries that pulls, aborts and restores put back are ones that were there.
THEOREM TypeCorrect == Spec => []TypeOK
<1>1. Spec => []TypeInv
    BY InitTypes, NextTypes, PTL DEF Spec
<1>2. TypeInv => TypeOK
    BY DEF TypeInv
<1> QED BY <1>1, <1>2, PTL
-------------------------------------------------------------------------------
(* The sync lock.                                                            *)

\* The steps of a process that is inside its tick.
TickStep(p) ==
    \/ TickAbort(p) \/ TickPull(p) \/ TickClean(p) \/ Scan(p)
    \/ Build(p) \/ Status(p) \/ RevList(p) \/ Gate(p)
    \/ Write(p) \/ Add(p) \/ Commit(p) \/ Restore(p)
    \/ Sync(p) \/ SyncPull(p) \/ SyncClean(p) \/ SyncQuit(p) \/ SyncPush(p)

\* Inside a tick, a step goes on under the lock or returns and frees it.
LEMMA TickStepShape ==
    ASSUME NEW p \in Procs, TickStep(p)
    PROVE  /\ pc[p] \in InLock
           /\ \/ \E label \in InLock : Continue(p, label)
              \/ \E result \in Outcomes : Return(p, result)
<1> USE Names DEF CallSync, Retry, AfterTickPull, InLock
<1>1. CASE TickAbort(p) \/ TickPull(p) \/ TickClean(p) \/ Scan(p)
    BY <1>1 DEF TickAbort, TickPull, TickClean, Scan
<1>2. CASE Build(p) \/ Status(p) \/ RevList(p) \/ Gate(p)
    BY <1>2 DEF Build, Status, RevList, Gate
<1>3. CASE Write(p) \/ Add(p) \/ Commit(p) \/ Restore(p)
    BY <1>3 DEF Write, Add, Commit, Restore
<1>4. CASE Sync(p) \/ SyncPull(p) \/ SyncClean(p) \/ SyncQuit(p) \/ SyncPush(p)
    BY <1>4 DEF Sync, SyncPull, SyncClean, SyncQuit, SyncPush, SyncDone
<1> QED BY <1>1, <1>2, <1>3, <1>4 DEF TickStep

LEMMA InitLock == Init => LockHeld
BY Names DEF Init, LockHeld

LEMMA NextLock == TypeOK /\ LockHeld /\ [Next]_vars => LockHeld'
<1> SUFFICES ASSUME TypeOK, LockHeld, [Next]_vars PROVE LockHeld'
    OBVIOUS
<1> USE HomeIsMachine DEF TypeOK, LockHeld
<1>1. CASE UNCHANGED vars
    BY <1>1 DEF vars
<1>2. CASE Clock \/ \E m \in Machines : Work(m)
    BY <1>2 DEF Clock, Work
<1>3. ASSUME NEW m \in Machines, View(m)
      PROVE  LockHeld'
    \* A viewer takes a lock nobody holds, and frees only its own.
    BY <1>3, MarkersAreDistinct DEF View, ViewLock, ViewPull, LockFree
<1>4. ASSUME NEW p \in Procs, TickStep(p)
      PROVE  LockHeld'
    <2>1. CASE \E label \in InLock : Continue(p, label)
        BY <1>4, <2>1, TickStepShape DEF Continue, Goto
    <2>2. CASE \E result \in Outcomes : Return(p, result)
        \* Nobody else on this machine is inside a tick: it would hold the lock.
        <3>1. /\ pc' = [pc EXCEPT ![p] = "idle"]
              /\ lock' = [lock EXCEPT ![Home[p]] = None]
              /\ lock[Home[p]] = p
            BY <1>4, <2>2, TickStepShape DEF Return, Goto
        <3> QED BY <3>1, Names
    <2> QED BY <1>4, <2>1, <2>2, TickStepShape
<1>5. ASSUME NEW p \in Procs, Acquire(p)
      PROVE  LockHeld'
    BY <1>5, MarkersAreDistinct DEF Acquire, LockFree, Goto
<1>6. ASSUME NEW p \in Procs, Start(p) \/ GiveUp(p) \/ Restart(p)
      PROVE  LockHeld'
    <2>1. UNCHANGED lock /\ \E label \in {"idle", "waiting"} : Goto(p, label)
        BY <1>6 DEF Start, GiveUp, Restart
    <2> QED BY <2>1, Names DEF Goto
<1>7. ASSUME NEW p \in Procs, Deadline(p)
      PROVE  LockHeld'
    BY <1>7 DEF Deadline
<1>8. ASSUME NEW p \in Procs, Crash(p)
      PROVE  LockHeld'
    BY <1>8, Names DEF Crash, Goto
<1> QED BY <1>1, <1>2, <1>3, <1>4, <1>5, <1>6, <1>7, <1>8
        DEF Next, Step, TickStep

\* Whoever is inside a tick holds the sync lock of its machine (sync_lock.go).
THEOREM LockCorrect == Spec => []LockHeld
BY TypeCorrect, InitLock, NextLock, PTL DEF Spec

\* The sync lock serializes every writer of a clone: two ticks of one machine
\* never overlap, nor a tick and a viewer's pull, whatever fails or crashes.
THEOREM SerializedCorrect == Spec => []Serialized
<1>1. LockHeld => Serialized
    BY MarkersAreDistinct DEF LockHeld, Serialized
<1> QED BY <1>1, LockCorrect, PTL
-------------------------------------------------------------------------------
(* What a step can change of the committed history.                          *)

\* Clone d of machine m has the branch of clone c, and a tracking ref that is
\* that of c or a fresh one.
Keeps(c, d, m) ==
    d.branch = c.branch /\ d.tracked \in {c.tracked, Len(remote[m])}

LEMMA AbortedKeeps ==
    ASSUME NEW c \in Clones, NEW m
    PROVE  Keeps(c, Aborted(c), m)
BY DEF Keeps, Aborted, Clones

LEMMA FetchedKeeps ==
    ASSUME NEW c \in Clones, NEW m
    PROVE  Keeps(c, Fetched(c, m), m)
BY DEF Keeps, Fetched, Clones

LEMMA UnstashedKeeps ==
    ASSUME NEW c \in Clones
    PROVE  Unstashed(c).branch = c.branch
BY DEF Unstashed, Clones

LEMMA PulledKeeps ==
    ASSUME NEW c \in Clones, NEW m
    PROVE  Keeps(c, Pulled(c, m), m)
<1>1. ASSUME NEW d \in Clones
      PROVE  LET f == [Fetched(d, m) EXCEPT !.base = Published]
             IN  f.branch = d.branch /\ f.tracked = Len(remote[m])
    BY DEF Fetched, Clones
<1> QED BY <1>1, UnstashedType, UnstashedKeeps DEF Keeps, Pulled

LEMMA StalledKeeps ==
    ASSUME NEW c \in Clones, NEW m, NEW k
    PROVE  Keeps(c, Stalled(c, m, k), m)
BY DEF Keeps, Stalled, Fetched, Clones

LEMMA BrokenPullsKeep ==
    ASSUME NEW c \in Clones, NEW m, NEW d \in BrokenPulls(c, m)
    PROVE  Keeps(c, d, m)
<1>1. Keeps(c, c, m)
    BY DEF Keeps
<1> QED BY <1>1, FetchedKeeps, PulledKeeps, StalledKeeps DEF BrokenPulls

LEMMA ViewPullsKeep ==
    ASSUME NEW c \in Clones, NEW m, NEW d \in ViewPulls(c, m)
    PROVE  Keeps(c, d, m)
<1>1. Keeps(c, c, m)
    BY DEF Keeps
<1>2. Keeps(c, [Fetched(c, m) EXCEPT !.base = Published], m)
    BY DEF Keeps, Fetched, Clones
<1> QED BY <1>1, <1>2, FetchedKeeps DEF ViewPulls

\* Changing the file or its index entry keeps the history.
LEMMA FileKeeps ==
    ASSUME NEW c \in Clones, NEW m, NEW f
    PROVE  /\ Keeps(c, [c EXCEPT !.disk = f], m)
           /\ Keeps(c, [c EXCEPT !.staged = f], m)
           /\ [c EXCEPT !.disk = f].rebasing = c.rebasing
           /\ [c EXCEPT !.staged = f].rebasing = c.rebasing
BY DEF Keeps, Clones

\* A step inside a tick changes no other machine's clone.
LEMMA TickStepLocal ==
    ASSUME NEW p \in Procs, TickStep(p)
    PROVE  UNCHANGED clone \/ \E c : SetClone(Home[p], c)
<1>1. CASE TickAbort(p) \/ TickClean(p) \/ Scan(p)
    BY <1>1 DEF TickAbort, TickClean, Scan, AbortRuns, AbortFails
<1>2. CASE TickPull(p)
    BY <1>2 DEF TickPull, PullRuns, PullRefused, PullBreaks
<1>3. CASE Build(p) \/ Status(p) \/ RevList(p) \/ Gate(p)
    BY <1>3 DEF Build, Status, RevList, Gate
<1>4. CASE Write(p) \/ Add(p) \/ Commit(p) \/ Restore(p)
    BY <1>4 DEF Write, Add, Commit, Restore, DamagedFile
<1>5. CASE Sync(p) \/ SyncClean(p) \/ SyncQuit(p)
    BY <1>5 DEF Sync, SyncClean, SyncQuit, AbortRuns, AbortFails
<1>6. CASE SyncPull(p)
    BY <1>6 DEF SyncPull, PullRuns, PullRefused, PullBreaks
<1>7. CASE SyncPush(p)
    BY <1>7 DEF SyncPush
<1> QED BY <1>1, <1>2, <1>3, <1>4, <1>5, <1>6, <1>7 DEF TickStep

\* The steps of a tick other than committing and pushing leave the histories
\* alone: they may only refresh the tracking ref.
LEMMA QuietStep ==
    ASSUME TypeOK, NEW p \in Procs, TickStep(p), ~Commit(p), ~SyncPush(p)
    PROVE  UNCHANGED remote /\ \A m \in Machines : Keeps(clone[m], clone'[m], m)
<1> DEFINE h == Home[p]
<1>1. h \in Machines /\ clone \in [Machines -> Clones]
    BY HomeIsMachine DEF TypeOK
<1>2. \A m \in Machines : clone[m] \in Clones /\ Keeps(clone[m], clone[m], m)
    BY <1>1 DEF Keeps
<1>3. ASSUME NEW c, Keeps(clone[h], c, h), SetClone(h, c)
      PROVE  \A m \in Machines : Keeps(clone[m], clone'[m], m)
    BY <1>1, <1>2, <1>3 DEF SetClone
<1>4. ASSUME UNCHANGED clone
      PROVE  \A m \in Machines : Keeps(clone[m], clone'[m], m)
    BY <1>2, <1>4
<1>5. ASSUME AbortRuns(p) \/ AbortFails(p)
      PROVE  \A m \in Machines : Keeps(clone[m], clone'[m], m)
    BY <1>1, <1>2, <1>3, <1>4, <1>5, AbortedKeeps DEF AbortRuns, AbortFails
<1>6. ASSUME NEW k, PullRuns(p) \/ PullRefused(p) \/ PullBreaks(p, k)
      PROVE  \A m \in Machines : Keeps(clone[m], clone'[m], m)
    <2>1. CASE PullRuns(p)
        BY <1>1, <1>2, <1>3, <2>1, PulledKeeps DEF PullRuns
    <2>2. CASE PullRefused(p)
        BY <1>4, <2>2 DEF PullRefused
    <2>3. CASE PullBreaks(p, k)
        BY <1>1, <1>2, <1>3, <1>4, <2>3, BrokenPullsKeep DEF PullBreaks
    <2> QED BY <1>6, <2>1, <2>2, <2>3
<1>7. CASE TickAbort(p) \/ TickClean(p) \/ SyncClean(p) \/ SyncQuit(p)
    BY <1>5, <1>7 DEF TickAbort, TickClean, SyncClean, SyncQuit
<1>8. CASE TickPull(p) \/ SyncPull(p)
    BY <1>6, <1>8 DEF TickPull, SyncPull
<1>9. CASE Scan(p) \/ Build(p) \/ Status(p) \/ RevList(p) \/ Gate(p)
    BY <1>4, <1>9 DEF Scan, Build, Status, RevList, Gate
<1>10. CASE Write(p) \/ Add(p) \/ Restore(p)
    BY <1>1, <1>2, <1>3, <1>4, <1>10, FileKeeps
       DEF Write, Add, Restore, DamagedFile
<1>11. CASE Sync(p)
    BY <1>4, <1>5, <1>11 DEF Sync
<1> QED BY <1>7, <1>8, <1>9, <1>10, <1>11
        DEF TickStep, TickAbort, TickPull, TickClean, Scan, Build, Status,
            RevList, Gate, Write, Add, Restore, Sync, SyncPull, SyncClean, SyncQuit

\* A commit is appended to the branch, or to the detached HEAD of a rebase.
LEMMA CommitStep ==
    ASSUME TypeOK, NEW p \in Procs, Commit(p)
    PROVE  /\ UNCHANGED <<remote, blind>>
           /\ \/ UNCHANGED clone
              \/ ~ctxDone[p] /\ SetClone(Home[p], Committed(clone[Home[p]], tick[p].snap))
BY DEF Commit, GitRuns, GitFails

LEMMA CommittedHistory ==
    ASSUME NEW c \in Clones, NEW s
    PROVE  /\ Committed(c, s).tracked = c.tracked
           /\ Committed(c, s).rebasing = c.rebasing
           /\ Committed(c, s).branch \in {c.branch, Append(c.branch, s)}
           /\ c.rebasing => Committed(c, s).branch = c.branch
BY DEF Committed, Clones

\* An accepted push loses nothing another machine published.
LEMMA LandedOthers ==
    ASSUME TypeOK, NEW m \in Machines, CanPush(m), NEW q \in Machines, q # m
    PROVE  Landed(m)[q] = remote[q]
<1>1. clone[m].base[q] = Len(remote[q]) /\ remote[q] \in Seq(Snapshots)
    BY DEF CanPush, Integrated, TypeOK
<1>2. SubSeq(remote[q], 1, Len(remote[q])) = remote[q]
    BY <1>1
<1> QED BY <1>1, <1>2 DEF Landed

\* A push puts the branch on the remote or changes nothing there; the caller
\* goes on to write only after it was accepted.
LEMMA PushStep ==
    ASSUME TypeOK, NEW p \in Procs, SyncPush(p)
    PROVE  LET h == Home[p]
           IN  /\ UNCHANGED blind
               /\ \A q \in Machines : clone'[q].branch = clone[q].branch
               /\ \A q \in Machines \ {h} :
                      clone'[q] = clone[q] /\ remote'[q] = remote[q]
               /\ remote'[h] \in {remote[h], clone[h].branch}
               /\ \/ clone'[h].tracked = clone[h].tracked /\ pc'[p] # "write"
                  \/ /\ remote'[h] = clone[h].branch
                     /\ clone'[h].tracked = Len(clone[h].branch)
<1> DEFINE h == Home[p]
<1>1. h \in Machines /\ clone \in [Machines -> Clones] /\ clone[h] \in Clones
    BY HomeIsMachine DEF TypeOK
<1>2. ASSUME remote' = Landed(h), CanPush(h)
      PROVE  /\ \A q \in Machines \ {h} : remote'[q] = remote[q]
             /\ remote'[h] = clone[h].branch
    BY <1>1, <1>2, LandedOthers DEF Landed
<1>3. CASE /\ CanPush(h) /\ remote' = Landed(h)
           /\ SetClone(h, [clone[h] EXCEPT !.tracked = Len(clone[h].branch)])
    <2>1. /\ clone'[h].branch = clone[h].branch
          /\ clone'[h].tracked = Len(clone[h].branch)
          /\ \A q \in Machines \ {h} : clone'[q] = clone[q]
        BY <1>1, <1>3 DEF SetClone, Clones
    <2> QED BY <1>2, <1>3, <2>1 DEF SyncPush
<1>4. CASE /\ UNCHANGED clone /\ (Retry(p) \/ Return(p, "failed"))
           /\ UNCHANGED remote \/ (CanPush(h) /\ remote' = Landed(h))
    <2>1. pc'[p] # "write"
        BY <1>4 DEF Retry, Continue, Return, Goto, TypeOK
    <2> QED BY <1>2, <1>4, <2>1 DEF SyncPush
<1> QED BY <1>3, <1>4 DEF SyncPush

\* The steps of the environment leave the histories alone too.
LEMMA QuietEnvironment ==
    ASSUME TypeOK, [Next]_vars, \A p \in Procs : ~TickStep(p)
    PROVE  /\ UNCHANGED <<remote, blind>>
           /\ \A m \in Machines : Keeps(clone[m], clone'[m], m)
<1>1. \A m \in Machines : clone[m] \in Clones /\ Keeps(clone[m], clone[m], m)
    BY DEF TypeOK, Keeps
<1>2. ASSUME UNCHANGED <<remote, blind, clone>>
      PROVE  /\ UNCHANGED <<remote, blind>>
             /\ \A m \in Machines : Keeps(clone[m], clone'[m], m)
    BY <1>1, <1>2
<1>3. CASE UNCHANGED vars \/ Clock \/ \E m \in Machines : Work(m) \/ ViewLock(m)
    BY <1>2, <1>3 DEF vars, Clock, Work, ViewLock
<1>4. ASSUME NEW m \in Machines, NEW c, SetClone(m, c), Keeps(clone[m], c, m)
      PROVE  \A q \in Machines : Keeps(clone[q], clone'[q], q)
    BY <1>1, <1>4 DEF SetClone, TypeOK
<1>5. ASSUME NEW m \in Machines, ViewPull(m)
      PROVE  /\ UNCHANGED <<remote, blind>>
             /\ \A q \in Machines : Keeps(clone[q], clone'[q], q)
    BY <1>1, <1>4, <1>5, ViewPullsKeep DEF ViewPull
<1>6. ASSUME NEW p \in Procs,
             Start(p) \/ Acquire(p) \/ GiveUp(p) \/ Deadline(p) \/ Restart(p)
      PROVE  UNCHANGED <<remote, blind, clone>>
    BY <1>6 DEF Start, Acquire, GiveUp, Deadline, Restart
<1>7. ASSUME NEW p \in Procs, Crash(p)
      PROVE  /\ UNCHANGED <<remote, blind>>
             /\ \A m \in Machines : Keeps(clone[m], clone'[m], m)
    <2>1. Home[p] \in Machines
        BY HomeIsMachine
    <2>2. UNCHANGED <<remote, blind>>
        BY <1>7 DEF Crash
    <2>3. Keeps(clone[Home[p]], [clone[Home[p]] EXCEPT !.disk = Corrupt], Home[p])
        BY <1>1, <2>1, FileKeeps
    <2> QED BY <1>1, <1>4, <1>7, <2>1, <2>2, <2>3 DEF Crash
<1> QED BY <1>2, <1>3, <1>5, <1>6, <1>7 DEF Next, Step, TickStep, View
-------------------------------------------------------------------------------
(* The backlog gate.                                                         *)

LEMMA HistoryTypes ==
    ASSUME TypeOK, NEW m \in Machines
    PROVE  /\ clone[m] \in Clones /\ clone[m].branch \in Seq(Snapshots)
           /\ clone[m].tracked \in Nat /\ Len(clone[m].branch) \in Nat
           /\ remote[m] \in Seq(Snapshots) /\ Len(remote[m]) \in Nat
           /\ blind[m] \in Nat
BY DEF TypeOK, Clones

LEMMA NextTracking == TypeOK /\ Tracking /\ [Next]_vars => Tracking'
<1> SUFFICES ASSUME TypeOK, Tracking, [Next]_vars, NEW m \in Machines
             PROVE  /\ clone'[m].tracked <= Len(remote'[m])
                    /\ Len(remote'[m]) <= Len(clone'[m].branch)
    BY DEF Tracking
<1>1. /\ clone[m].tracked <= Len(remote[m])
      /\ Len(remote[m]) <= Len(clone[m].branch)
    BY DEF Tracking
<1>2. ASSUME UNCHANGED remote, Keeps(clone[m], clone'[m], m)
      PROVE  /\ clone'[m].tracked <= Len(remote'[m])
             /\ Len(remote'[m]) <= Len(clone'[m].branch)
    BY <1>1, <1>2, HistoryTypes DEF Keeps
<1>3. CASE \A p \in Procs : ~TickStep(p)
    BY <1>2, <1>3, QuietEnvironment
<1>4. ASSUME NEW p \in Procs, TickStep(p), ~Commit(p), ~SyncPush(p)
      PROVE  /\ clone'[m].tracked <= Len(remote'[m])
             /\ Len(remote'[m]) <= Len(clone'[m].branch)
    BY <1>2, <1>4, QuietStep
<1>5. ASSUME NEW p \in Procs, Commit(p)
      PROVE  /\ clone'[m].tracked <= Len(remote'[m])
             /\ Len(remote'[m]) <= Len(clone'[m].branch)
    <2>1. CASE UNCHANGED clone
        BY <1>1, <1>5, <2>1, CommitStep
    <2>2. CASE SetClone(Home[p], Committed(clone[Home[p]], tick[p].snap))
        <3>1. CASE m # Home[p]
            BY <1>1, <1>5, <2>2, <3>1, CommitStep DEF SetClone, TypeOK
        <3>2. CASE m = Home[p]
            <4> DEFINE b == clone[m].branch
                       s == tick[p].snap
            <4>1. clone'[m] = Committed(clone[m], s) /\ remote'[m] = remote[m]
                BY <1>5, <2>2, <3>2, CommitStep DEF SetClone, TypeOK
            <4>2. clone'[m].tracked = clone[m].tracked
                BY <4>1, CommittedHistory, HistoryTypes
            <4>3. clone'[m].branch \in {b, Append(b, s)}
                BY <4>1, CommittedHistory, HistoryTypes
            <4>4. b \in Seq(Snapshots) /\ Len(b) \in Nat /\ Len(remote[m]) \in Nat
                BY HistoryTypes
            <4>5. Len(Append(b, s)) = Len(b) + 1
                BY <4>4
            <4>6. Len(clone'[m].branch) \in {Len(b), Len(b) + 1}
                BY <4>3, <4>5
            <4> HIDE DEF b, s
            <4>7. Len(b) <= Len(clone'[m].branch)
                BY <4>4, <4>6
            <4>8. Len(remote[m]) <= Len(b)
                BY <1>1 DEF b
            <4>9. Len(remote[m]) <= Len(clone'[m].branch)
                BY <4>4, <4>6, <4>8
            <4> QED BY <1>1, <4>1, <4>2, <4>9
        <3> QED BY <3>1, <3>2
    <2> QED BY <1>5, <2>1, <2>2, CommitStep
<1>6. ASSUME NEW p \in Procs, SyncPush(p)
      PROVE  /\ clone'[m].tracked <= Len(remote'[m])
             /\ Len(remote'[m]) <= Len(clone'[m].branch)
    <2>1. CASE m # Home[p]
        BY <1>1, <1>6, <2>1, PushStep
    <2>2. CASE m = Home[p]
        BY <1>1, <1>6, <2>2, PushStep, HistoryTypes
    <2> QED BY <2>1, <2>2
<1> QED BY <1>3, <1>4, <1>5, <1>6

\* Only the process inside a tick of a machine changes its clone.
LEMMA ClonePrivate ==
    ASSUME TypeOK, LockHeld, [Next]_vars, NEW q \in Procs, pc[q] \in InLock,
           ~TickStep(q), pc'[q] \in InLock
    PROVE  clone'[Home[q]] = clone[Home[q]] /\ pc'[q] = pc[q] /\ ctxDone'[q] \in {ctxDone[q], TRUE}
<1> DEFINE h == Home[q]
<1>1. h \in Machines /\ lock[h] = q /\ lock[h] # Viewer /\ lock[h] # None
    BY HomeIsMachine, MarkersAreDistinct DEF LockHeld
<1>2. CASE UNCHANGED vars \/ Clock \/ \E m \in Machines : Work(m)
    BY <1>2 DEF vars, Clock, Work
<1>3. ASSUME NEW m \in Machines, View(m)
      PROVE  /\ clone'[h] = clone[h] /\ UNCHANGED <<pc, ctxDone>>
    BY <1>1, <1>3 DEF View, ViewLock, ViewPull, SetClone, TypeOK, LockFree
<1>4. ASSUME NEW p \in Procs, p # q, TickStep(p)
      PROVE  /\ clone'[h] = clone[h] /\ pc'[q] = pc[q] /\ ctxDone'[q] = ctxDone[q]
    <2>1. Home[p] # h /\ Home[p] \in Machines
        BY <1>1, <1>4, TickStepShape, HomeIsMachine DEF LockHeld
    <2>2. clone'[h] = clone[h]
        BY <1>1, <1>4, <2>1, TickStepLocal DEF SetClone, TypeOK
    <2>3. pc'[q] = pc[q] /\ ctxDone'[q] = ctxDone[q]
        BY <1>4, TickStepShape DEF Continue, Return, Goto, TypeOK
    <2> QED BY <2>2, <2>3
<1>5. ASSUME NEW p \in Procs,
             Start(p) \/ Acquire(p) \/ GiveUp(p) \/ Deadline(p) \/ Restart(p)
      PROVE  /\ clone'[h] = clone[h] /\ pc'[q] = pc[q]
             /\ ctxDone'[q] \in {ctxDone[q], TRUE}
    <2>1. CASE Start(p)
        BY <2>1, Names DEF Start, Goto, TypeOK
    <2>2. CASE Acquire(p)
        BY <2>2, Names DEF Acquire, Goto, TypeOK
    <2>3. CASE GiveUp(p)
        BY <2>3, Names DEF GiveUp, Goto, TypeOK
    <2>4. CASE Deadline(p)
        BY <2>4 DEF Deadline, TypeOK
    <2>5. CASE Restart(p)
        BY <2>5, Names DEF Restart, Goto, TypeOK
    <2> QED BY <1>5, <2>1, <2>2, <2>3, <2>4, <2>5
<1>6. ASSUME NEW p \in Procs, Crash(p)
      PROVE  /\ clone'[h] = clone[h] /\ pc'[q] = pc[q] /\ ctxDone'[q] = ctxDone[q]
    <2>1. p # q
        BY <1>6, Names DEF Crash, Goto, TypeOK
    <2>2. pc[p] \in {"write", "restore"} => Home[p] # h
        BY <1>1, <2>1, Names DEF LockHeld
    <2>3. Home[p] \in Machines
        BY HomeIsMachine
    <2> QED BY <1>1, <1>6, <2>1, <2>2, <2>3 DEF Crash, Goto, SetClone, TypeOK
<1> QED BY <1>2, <1>3, <1>4, <1>5, <1>6 DEF Next, Step, TickStep, vars

\* A process is past the head of its tick only by its own steps.
LEMMA OwnProgress ==
    ASSUME TypeOK, [Next]_vars, NEW q \in Procs, ~TickStep(q),
           pc'[q] \in InLock \ {"tickAbort"}
    PROVE  pc[q] = pc'[q]
<1>1. CASE UNCHANGED vars \/ Clock \/ \E m \in Machines : Work(m) \/ View(m)
    BY <1>1 DEF vars, Clock, Work, View, ViewLock, ViewPull
<1>2. ASSUME NEW p \in Procs, p # q, TickStep(p)
      PROVE  pc[q] = pc'[q]
    BY <1>2, TickStepShape DEF Continue, Return, Goto, TypeOK
<1>3. ASSUME NEW p \in Procs,
             Start(p) \/ GiveUp(p) \/ Restart(p) \/ Crash(p) \/ Acquire(p)
      PROVE  pc[q] = pc'[q]
    <2>1. \E label \in {"idle", "waiting", "down", "tickAbort"} : Goto(p, label)
        BY <1>3 DEF Start, GiveUp, Restart, Crash, Acquire
    <2> QED BY <2>1, Names DEF Goto, TypeOK
<1>4. ASSUME NEW p \in Procs, Deadline(p)
      PROVE  pc[q] = pc'[q]
    BY <1>4 DEF Deadline
<1> QED BY <1>1, <1>2, <1>3, <1>4 DEF Next, Step, TickStep

\* The count of skipped gates never goes down.
LEMMA BlindGrows ==
    ASSUME TypeOK, [Next]_vars, NEW m \in Machines
    PROVE  blind[m] <= blind'[m]
<1>1. blind[m] \in Nat
    BY HistoryTypes
<1>2. CASE \A p \in Procs : ~TickStep(p)
    BY <1>1, <1>2, QuietEnvironment
<1>3. ASSUME NEW p \in Procs, Gate(p)
      PROVE  blind[m] <= blind'[m]
    <2>1. blind' = blind \/ blind' = [blind EXCEPT ![Home[p]] = @ + 1]
        BY <1>3 DEF Gate
    <2>2. blind'[m] \in {blind[m], blind[m] + 1}
        BY <2>1 DEF TypeOK
    <2> QED BY <1>1, <2>2
<1>4. ASSUME NEW p \in Procs, TickStep(p), ~Gate(p)
      PROVE  UNCHANGED blind
    BY <1>4 DEF TickStep, TickAbort, TickPull, TickClean, Scan, Build, Status,
                RevList, Write, Add, Commit, Restore, Sync, SyncPull, SyncClean,
                SyncQuit, SyncPush
<1> QED BY <1>1, <1>2, <1>3, <1>4

\* Where a step of a tick leads past the gate, the gate is passed.
LEMMA StepPassesGate ==
    ASSUME RemoteSeeded, TypeOK, Tracking, BacklogBounded, GatePassed,
           NEW q \in Procs, TickStep(q), pc'[q] \in {"write", "add", "commit"}
    PROVE  LET m == Home[q]
           IN  \/ ctxDone'[q] \/ clone'[m].rebasing
               \/ Ahead(clone'[m]) <= blind'[m]
<1> DEFINE m == Home[q]
           c == clone[m]
<1>1. m \in Machines /\ c \in Clones
    BY HomeIsMachine DEF TypeOK
<1>2. /\ c.tracked \in Nat /\ Len(c.branch) \in Nat /\ blind[m] \in Nat
      /\ Ahead(c) <= 1 + blind[m]
    BY <1>1, HistoryTypes DEF BacklogBounded
<1>3. ASSUME NEW label, Continue(q, label)
      PROVE  pc'[q] = label /\ UNCHANGED ctxDone
    BY <1>3 DEF Continue, Goto, TypeOK
<1>4. ASSUME NEW result, Return(q, result)
      PROVE  FALSE
    BY <1>4 DEF Return, Goto, TypeOK
<1>5. CASE Gate(q)
    <2>1. UNCHANGED <<clone, ctxDone>> /\ pc'[q] \in {"write", "sync"}
        BY <1>3, <1>5 DEF Gate, CallSync
    <2>2. CASE GitRuns(q) /\ UNCHANGED blind
        <3>1. ~KnownBacklog(c)
            BY <1>3, <1>5, <2>1, <2>2 DEF Gate, CallSync, GitFails, GitRuns, Fail,
                                          TypeOK
        <3> QED BY <1>2, <2>1, <2>2, <3>1 DEF KnownBacklog, Ahead
    <2>3. CASE ctxDone[q]
        BY <2>1, <2>3
    <2>4. CASE blind' = [blind EXCEPT ![m] = @ + 1]
        <3>1. blind'[m] = blind[m] + 1
            BY <1>1, <2>4 DEF TypeOK
        <3> QED BY <1>2, <2>1, <3>1 DEF Ahead
    <2> QED BY <1>5, <2>2, <2>3, <2>4 DEF Gate
<1>6. CASE Write(q) \/ Add(q)
    <2>1. UNCHANGED <<blind, ctxDone>> /\ pc[q] \in {"write", "add"}
        BY <1>3, <1>4, <1>6 DEF Write, Add
    <2>2. /\ clone'[m].branch = c.branch /\ clone'[m].tracked = c.tracked
          /\ clone'[m].rebasing = c.rebasing
        <3>1. CASE Write(q)
            <4>1. SetClone(m, [c EXCEPT !.disk = tick[q].snap])
                BY <1>4, <3>1 DEF Write
            <4>2. clone'[m] = [c EXCEPT !.disk = tick[q].snap]
                BY <1>1, <4>1 DEF SetClone, TypeOK
            <4> QED BY <1>1, <4>2 DEF Clones
        <3>2. CASE Add(q)
            <4> DEFINE s == IF tick[q].snap = HeadFile(c) THEN None ELSE tick[q].snap
            <4>1. SetClone(m, [c EXCEPT !.staged = s]) \/ UNCHANGED clone
                BY <3>2 DEF Add
            <4> HIDE DEF s
            <4>2. clone'[m] = [c EXCEPT !.staged = s] \/ clone'[m] = c
                BY <1>1, <4>1 DEF SetClone, TypeOK
            <4> QED BY <1>1, <4>2 DEF Clones
        <3> QED BY <1>6, <3>1, <3>2
    <2> QED BY <2>1, <2>2 DEF GatePassed, Ahead
<1>7. CASE SyncPush(q)
    <2>1. pc'[q] = "write"
        BY <1>3, <1>4, <1>7 DEF SyncPush, SyncDone, Retry
    <2>2. /\ clone'[m].branch = c.branch /\ clone'[m].tracked = Len(c.branch)
          /\ UNCHANGED blind
        BY <1>1, <1>7, <2>1, PushStep
    <2> QED BY <1>2, <2>2 DEF Ahead
<1>8. ASSUME ~Gate(q), ~Write(q), ~Add(q), ~SyncPush(q)
      PROVE  FALSE
    <2>1. CASE TickAbort(q) \/ TickPull(q) \/ TickClean(q) \/ Scan(q) \/ Build(q)
               \/ Status(q) \/ RevList(q)
        BY <1>3, <1>4, <2>1 DEF TickAbort, TickPull, TickClean, Scan, Build,
                                Status, RevList, AfterTickPull, CallSync
    <2>2. CASE Commit(q) \/ Restore(q) \/ Sync(q) \/ SyncPull(q) \/ SyncClean(q)
               \/ SyncQuit(q)
        BY <1>3, <1>4, <2>2 DEF Commit, Restore, Sync, SyncPull, SyncClean,
                                SyncQuit, CallSync, Retry
    <2> QED BY <1>8, <2>1, <2>2 DEF TickStep
<1> QED BY <1>5, <1>6, <1>7, <1>8

LEMMA NextGate ==
    ASSUME RemoteSeeded, TypeOK, TypeOK', LockHeld, Tracking, BacklogBounded,
           GatePassed, [Next]_vars
    PROVE  GatePassed'
<1> SUFFICES ASSUME NEW q \in Procs, pc'[q] \in {"write", "add", "commit"}
             PROVE  LET m == Home[q]
                    IN  \/ ctxDone'[q] \/ clone'[m].rebasing
                        \/ Ahead(clone'[m]) <= blind'[m]
    BY DEF GatePassed, Ahead
<1>1. CASE TickStep(q)
    BY <1>1, StepPassesGate
<1>2. CASE ~TickStep(q)
    <2> DEFINE m == Home[q]
    <2>1. pc'[q] = pc[q] /\ pc[q] \in InLock
        BY <1>2, OwnProgress DEF InLock
    <2>2. clone'[m] = clone[m] /\ ctxDone'[q] \in {ctxDone[q], TRUE}
        BY <1>2, <2>1, ClonePrivate
    <2>3. m \in Machines
        BY HomeIsMachine
    <2>4. /\ Len(clone[m].branch) \in Nat /\ clone[m].tracked \in Nat
          /\ blind[m] \in Nat /\ blind[m] <= blind'[m]
        BY <2>3, BlindGrows, HistoryTypes
    <2>5. \/ ctxDone[q] \/ clone[m].rebasing
          \/ Ahead(clone[m]) <= blind[m]
        BY <2>1 DEF GatePassed
    <2>6. CASE Ahead(clone[m]) <= blind[m]
        <3>1. blind'[m] \in Nat
            BY <2>3 DEF TypeOK
        <3> QED BY <2>2, <2>4, <2>6, <3>1 DEF Ahead
    <2> QED BY <2>2, <2>5, <2>6
<1> QED BY <1>1, <1>2

\* A backlog only shrinks when the tracking ref moves up.
LEMMA BacklogArithmetic ==
    ASSUME NEW b \in Nat, NEW t \in Nat, NEW r \in Nat, NEW k \in Nat,
           NEW l \in Nat, t <= r, k <= l, b - t <= 1 + k
    PROVE  b - r <= 1 + l /\ b - t <= 1 + l
OBVIOUS

LEMMA NextBacklog ==
    ASSUME TypeOK, TypeOK', Tracking, BacklogBounded, GatePassed, [Next]_vars
    PROVE  BacklogBounded'
<1> SUFFICES ASSUME NEW m \in Machines
             PROVE  Ahead(clone'[m]) <= 1 + blind'[m]
    BY DEF BacklogBounded, Ahead
<1>1. /\ clone[m].tracked \in Nat /\ Len(clone[m].branch) \in Nat
      /\ Len(remote[m]) \in Nat /\ blind[m] \in Nat /\ blind'[m] \in Nat
      /\ clone'[m].tracked \in Nat /\ Len(clone'[m].branch) \in Nat
      /\ clone[m].tracked <= Len(remote[m])
      /\ Ahead(clone[m]) <= 1 + blind[m] /\ blind[m] <= blind'[m]
    BY HistoryTypes, BlindGrows DEF Tracking, BacklogBounded, TypeOK, Clones
<1>0. ASSUME Ahead(clone'[m]) = Ahead(clone[m])
      PROVE  Ahead(clone'[m]) <= 1 + blind'[m]
    <2>1. Ahead(clone[m]) \in Int
        BY <1>1 DEF Ahead
    <2> QED BY <1>0, <1>1, <2>1
<1>2. ASSUME Keeps(clone[m], clone'[m], m)
      PROVE  Ahead(clone'[m]) <= 1 + blind'[m]
    <2>1. clone'[m].branch = clone[m].branch
        BY <1>2 DEF Keeps
    <2>2. CASE clone'[m].tracked = clone[m].tracked
        BY <1>0, <2>1, <2>2 DEF Ahead
    <2>3. CASE clone'[m].tracked = Len(remote[m])
        <3>1. Ahead(clone'[m]) = Len(clone[m].branch) - Len(remote[m])
            BY <2>1, <2>3 DEF Ahead
        <3>2. Len(clone[m].branch) - clone[m].tracked <= 1 + blind[m]
            BY <1>1 DEF Ahead
        <3>3. Len(clone[m].branch) - Len(remote[m]) <= 1 + blind'[m]
            BY <1>1, <3>2, BacklogArithmetic
        <3> QED BY <3>1, <3>3
    <2> QED BY <1>2, <2>2, <2>3 DEF Keeps
<1>3. CASE \A p \in Procs : ~TickStep(p)
    BY <1>2, <1>3, QuietEnvironment
<1>4. ASSUME NEW p \in Procs, TickStep(p), ~Commit(p), ~SyncPush(p)
      PROVE  Ahead(clone'[m]) <= 1 + blind'[m]
    BY <1>2, <1>4, QuietStep
<1>5. ASSUME NEW p \in Procs, Commit(p)
      PROVE  Ahead(clone'[m]) <= 1 + blind'[m]
    <2>1. CASE UNCHANGED clone
        BY <1>0, <2>1
    <2>2. CASE /\ ~ctxDone[p]
               /\ SetClone(Home[p], Committed(clone[Home[p]], tick[p].snap))
        <3>1. CASE m # Home[p]
            <4>1. clone'[m] = clone[m]
                BY <2>2, <3>1 DEF SetClone, TypeOK
            <4> QED BY <1>0, <4>1
        <3>2. CASE m = Home[p]
            <4> DEFINE b == clone[m].branch
                       s == tick[p].snap
            <4>1. clone'[m] = Committed(clone[m], s)
                BY <2>2, <3>2 DEF SetClone, TypeOK
            <4>2. clone'[m].tracked = clone[m].tracked
                BY <4>1, CommittedHistory, HistoryTypes
            <4>3. CASE clone'[m].branch = b
                <5>1. Ahead(clone'[m]) = Ahead(clone[m])
                    BY <4>2, <4>3 DEF Ahead
                <5> QED BY <1>0, <5>1
            <4>4. CASE clone'[m].branch = Append(b, s) /\ ~clone[m].rebasing
                <5>1. Ahead(clone[m]) <= blind[m]
                    BY <1>5, <2>2, <3>2, <4>4 DEF GatePassed, Commit
                <5>2. Len(clone'[m].branch) = Len(b) + 1
                    BY <4>4, HistoryTypes
                <5>3. Ahead(clone'[m]) = Ahead(clone[m]) + 1
                    BY <1>1, <4>2, <5>2 DEF Ahead
                <5>4. Ahead(clone[m]) \in Int
                    BY <1>1 DEF Ahead
                <5> HIDE DEF b, s
                <5> QED BY <1>1, <5>1, <5>3, <5>4
            <4> QED BY <4>1, <4>3, <4>4, CommittedHistory, HistoryTypes
        <3> QED BY <3>1, <3>2
    <2> QED BY <1>5, <2>1, <2>2, CommitStep
<1>6. ASSUME NEW p \in Procs, SyncPush(p)
      PROVE  Ahead(clone'[m]) <= 1 + blind'[m]
    <2>1. clone'[m].branch = clone[m].branch
        BY <1>6, PushStep
    <2>2. clone'[m].tracked \in {clone[m].tracked, Len(clone[m].branch)}
        BY <1>6, PushStep
    <2>3. CASE clone'[m].tracked = clone[m].tracked
        BY <1>0, <2>1, <2>3 DEF Ahead
    <2>4. CASE clone'[m].tracked = Len(clone[m].branch)
        <3>1. Ahead(clone'[m]) = 0
            BY <1>1, <2>1, <2>4 DEF Ahead
        <3> QED BY <1>1, <3>1
    <2> QED BY <2>2, <2>3, <2>4
<1> QED BY <1>3, <1>4, <1>5, <1>6

LEMMA InitBacklog == Init => Tracking /\ GatePassed /\ BacklogBounded
<1> SUFFICES ASSUME Init PROVE Tracking /\ GatePassed /\ BacklogBounded
    OBVIOUS
<1>1. \A m \in Machines :
          /\ clone[m].branch = <<>> /\ clone[m].tracked = 0
          /\ remote[m] = <<>> /\ blind[m] = 0
    BY DEF Init
<1>2. Len(<<>>) = 0
    OBVIOUS
<1> QED BY <1>1, <1>2 DEF Init, Tracking, GatePassed, BacklogBounded, Ahead

\* On a remote that has a branch, a clone holds at most one commit the remote
\* lacks, plus one for each time the gate could not count: a push that keeps
\* failing cannot pile up commits, however ticks, crashes and viewers interleave.
THEOREM BacklogCorrect ==
    ASSUME RemoteSeeded
    PROVE  Spec => []BacklogBounded
<1> DEFINE Inv == Tracking /\ GatePassed /\ BacklogBounded
<1>1. Init => Inv
    BY InitBacklog
<1>2. TypeOK /\ TypeOK' /\ LockHeld /\ Inv /\ [Next]_vars => Inv'
    BY NextTracking, NextGate, NextBacklog
<1>3. Spec => []Inv
    BY <1>1, <1>2, TypeCorrect, LockCorrect, PTL DEF Spec
<1>4. Inv => BacklogBounded
    OBVIOUS
<1> QED BY <1>3, <1>4, PTL
-------------------------------------------------------------------------------
(* The histories: what is published is a prefix of what is committed, and    *)
(* both are in the order of time.                                            *)

\* A step inside a tick changes the locals of its own process only.
LEMMA TickStepLocals ==
    ASSUME TypeOK, NEW p \in Procs, TickStep(p), NEW q \in Procs \ {p}
    PROVE  tick'[q] = tick[q]
<1> USE DEF TypeOK, CallSync, Retry, Return, AfterTickPull
<1>1. CASE TickAbort(p) \/ TickPull(p) \/ TickClean(p) \/ Scan(p)
    BY <1>1 DEF TickAbort, TickPull, TickClean, Scan
<1>2. CASE Build(p) \/ Status(p) \/ RevList(p) \/ Gate(p)
    BY <1>2 DEF Build, Status, RevList, Gate
<1>3. CASE Write(p) \/ Add(p) \/ Commit(p) \/ Restore(p)
    BY <1>3 DEF Write, Add, Commit, Restore
<1>4. CASE Sync(p) \/ SyncPull(p) \/ SyncClean(p) \/ SyncQuit(p) \/ SyncPush(p)
    BY <1>4 DEF Sync, SyncPull, SyncClean, SyncQuit, SyncPush, SyncDone
<1> QED BY <1>1, <1>2, <1>3, <1>4 DEF TickStep

\* Only the process inside a tick changes its locals.
LEMMA LocalsPrivate ==
    ASSUME TypeOK, [Next]_vars, NEW q \in Procs, ~TickStep(q), pc'[q] \in InLock
    PROVE  tick'[q] = tick[q]
<1>1. CASE UNCHANGED vars \/ Clock \/ \E m \in Machines : Work(m) \/ View(m)
    BY <1>1 DEF vars, Clock, Work, View, ViewLock, ViewPull
<1>2. ASSUME NEW p \in Procs, p # q, TickStep(p)
      PROVE  tick'[q] = tick[q]
    BY <1>2, TickStepLocals
<1>3. ASSUME NEW p \in Procs,
             Start(p) \/ Acquire(p) \/ GiveUp(p) \/ Deadline(p) \/ Restart(p)
      PROVE  tick'[q] = tick[q]
    BY <1>3 DEF Start, Acquire, GiveUp, Deadline, Restart
<1>4. ASSUME NEW p \in Procs, Crash(p)
      PROVE  tick'[q] = tick[q]
    <2>1. p # q
        BY <1>4, Names DEF Crash, Goto, TypeOK
    <2> QED BY <1>4, <2>1 DEF Crash, TypeOK
<1> QED BY <1>1, <1>2, <1>3, <1>4 DEF Next, Step, TickStep

\* Once it is stamped, a scan and the file read with it stay for the tick.
LEMMA StampKept ==
    ASSUME TypeOK, NEW p \in Procs, TickStep(p), ~Build(p), pc'[p] \in Stamped
    PROVE  /\ pc[p] \in Stamped
           /\ tick'[p].snap = tick[p].snap /\ tick'[p].prev = tick[p].prev
<1> DEFINE Kept == /\ pc[p] \in Stamped
                   /\ tick'[p].snap = tick[p].snap /\ tick'[p].prev = tick[p].prev
<1>1. tick[p] \in Ticks /\ tick \in [Procs -> Ticks] /\ pc \in [Procs -> Labels]
    BY DEF TypeOK
<1>2. ASSUME NEW label, Continue(p, label)
      PROVE  pc'[p] = label
    BY <1>1, <1>2 DEF Continue, Goto
<1>3. ASSUME NEW result, Return(p, result)
      PROVE  FALSE
    BY <1>1, <1>3, Names DEF Return, Goto, Stamped, InLock
<1>4. ASSUME NEW c, CallSync(p, c)
      PROVE  tick'[p].snap = tick[p].snap /\ tick'[p].prev = tick[p].prev
    BY <1>1, <1>4 DEF CallSync, Ticks
<1>5. ASSUME Retry(p)
      PROVE  tick'[p].snap = tick[p].snap /\ tick'[p].prev = tick[p].prev
    BY <1>1, <1>5 DEF Retry, Ticks
<1>6. CASE TickAbort(p) \/ TickPull(p) \/ TickClean(p) \/ Scan(p)
    <2>1. pc'[p] \in {"tickPull", "tickClean", "scan", "build"}
        BY <1>2, <1>3, <1>6 DEF TickAbort, TickPull, TickClean, Scan, AfterTickPull
    <2> QED BY <2>1 DEF Stamped, InLock
<1>7. CASE Status(p) \/ RevList(p) \/ Gate(p)
    BY <1>3, <1>4, <1>7 DEF Status, RevList, Gate, Stamped, InLock
<1>8. CASE Write(p) \/ Add(p) \/ Commit(p) \/ Restore(p)
    BY <1>3, <1>4, <1>8 DEF Write, Add, Commit, Restore, Stamped, InLock
<1>9. CASE Sync(p) \/ SyncPull(p) \/ SyncClean(p) \/ SyncQuit(p)
    BY <1>3, <1>5, <1>9 DEF Sync, SyncPull, SyncClean, SyncQuit, Stamped, InLock
<1>10. CASE SyncPush(p)
    BY <1>3, <1>5, <1>10 DEF SyncPush, SyncDone, Stamped, InLock
<1> QED BY <1>6, <1>7, <1>8, <1>9, <1>10 DEF TickStep

\* A commit adds to the branch of its own machine or to no branch.
LEMMA CommitBranch ==
    ASSUME TypeOK, NEW p \in Procs, Commit(p), NEW m \in Machines
    PROVE  /\ UNCHANGED remote
           /\ \/ clone'[m].branch = clone[m].branch
              \/ /\ Home[p] = m
                 /\ clone'[m].branch = Append(clone[m].branch, tick[p].snap)
<1>1. UNCHANGED remote
    BY CommitStep
<1>2. CASE UNCHANGED clone
    BY <1>1, <1>2
<1>3. CASE SetClone(Home[p], Committed(clone[Home[p]], tick[p].snap))
    <2>1. CASE m # Home[p]
        BY <1>1, <1>3, <2>1 DEF SetClone, TypeOK
    <2>2. CASE m = Home[p]
        <3>1. clone'[m] = Committed(clone[m], tick[p].snap)
            BY <1>3, <2>2 DEF SetClone, TypeOK
        <3> QED BY <1>1, <2>2, <3>1, CommittedHistory, HistoryTypes
    <2> QED BY <2>1, <2>2
<1> QED BY <1>2, <1>3, CommitStep

\* What a step does to the histories of machine m: nothing, or its branch gets
\* on the remote, or a process of m commits its snapshot.
LEMMA HistoryStep ==
    ASSUME TypeOK, [Next]_vars, NEW m \in Machines
    PROVE  \/ /\ clone'[m].branch = clone[m].branch
              /\ remote'[m] \in {remote[m], clone[m].branch}
           \/ /\ remote'[m] = remote[m]
              /\ \E p \in Procs :
                    /\ Commit(p) /\ Home[p] = m
                    /\ clone'[m].branch = Append(clone[m].branch, tick[p].snap)
<1>1. CASE \A p \in Procs : ~TickStep(p)
    BY <1>1, QuietEnvironment DEF Keeps
<1>2. ASSUME NEW p \in Procs, TickStep(p), ~Commit(p), ~SyncPush(p)
      PROVE  clone'[m].branch = clone[m].branch /\ UNCHANGED remote
    BY <1>2, QuietStep DEF Keeps
<1>3. ASSUME NEW p \in Procs, SyncPush(p)
      PROVE  /\ clone'[m].branch = clone[m].branch
             /\ remote'[m] \in {remote[m], clone[m].branch}
    BY <1>3, PushStep, HomeIsMachine
<1>4. ASSUME NEW p \in Procs, Commit(p)
      PROVE  /\ UNCHANGED remote
             /\ \/ clone'[m].branch = clone[m].branch
                \/ /\ Home[p] = m
                   /\ clone'[m].branch = Append(clone[m].branch, tick[p].snap)
    BY <1>4, CommitBranch
<1> QED BY <1>1, <1>2, <1>3, <1>4

\* Time does not go back.
LEMMA TimeGrows ==
    ASSUME TypeOK, [Next]_vars
    PROVE  now' \in Nat /\ now <= now'
<1>1. now \in Nat
    BY DEF TypeOK
<1>2. CASE UNCHANGED now
    BY <1>1, <1>2
<1>3. CASE Clock \/ \E m \in Machines : Work(m)
    BY <1>1, <1>3 DEF Clock, Work
<1>4. ASSUME NEW m \in Machines, View(m)
      PROVE  UNCHANGED now
    BY <1>4 DEF View, ViewLock, ViewPull
<1>5. ASSUME NEW p \in Procs, TickStep(p)
      PROVE  UNCHANGED now
    BY <1>5, TickStepShape DEF Continue, Return, Outside
<1>6. ASSUME NEW p \in Procs, Start(p) \/ Acquire(p) \/ GiveUp(p) \/ Deadline(p)
                              \/ Crash(p) \/ Restart(p)
      PROVE  UNCHANGED now
    BY <1>6 DEF Start, Acquire, GiveUp, Deadline, Crash, Restart
<1>7. CASE UNCHANGED vars
    BY <1>2, <1>7 DEF vars
<1> QED BY <1>2, <1>3, <1>4, <1>5, <1>6, <1>7 DEF Next, Step, TickStep

LEMMA NextPrefix ==
    ASSUME TypeOK, Tracking, RemoteIsPrefix, [Next]_vars
    PROVE  RemoteIsPrefix'
<1> SUFFICES ASSUME NEW m \in Machines, NEW i \in 1..Len(remote'[m])
             PROVE  remote'[m][i] = clone'[m].branch[i]
    BY DEF RemoteIsPrefix
<1>1. /\ clone[m].branch \in Seq(Snapshots) /\ remote[m] \in Seq(Snapshots)
      /\ Len(remote[m]) <= Len(clone[m].branch)
      /\ \A j \in 1..Len(remote[m]) : remote[m][j] = clone[m].branch[j]
    BY HistoryTypes DEF Tracking, RemoteIsPrefix
<1>2. ASSUME NEW s, clone'[m].branch = Append(clone[m].branch, s),
             remote'[m] = remote[m]
      PROVE  remote'[m][i] = clone'[m].branch[i]
    <2>1. i \in 1..Len(clone[m].branch)
        BY <1>1, <1>2
    <2> QED BY <1>1, <1>2, <2>1
<1> QED BY <1>1, <1>2, HistoryStep

\* A process that commits has a stamped scan.
LEMMA CommitIsStamped ==
    ASSUME TypeOK, SnapTyped, NEW p \in Procs, Commit(p)
    PROVE  pc[p] \in Stamped /\ tick[p].snap \in Snapshots /\ TickStep(p)
<1>1. pc[p] = "commit" /\ TickStep(p)
    BY DEF Commit, TickStep
<1> QED BY <1>1, Names DEF SnapTyped, Stamped, InLock

LEMMA NextOrdered ==
    ASSUME TypeOK, SnapTyped, BranchOrdered, ScanIsLatest, [Next]_vars
    PROVE  BranchOrdered'
<1> SUFFICES ASSUME NEW m \in Machines
             PROVE  LET b == clone'[m].branch
                    IN  /\ \A i, j \in 1..Len(b) : i <= j => b[i].at <= b[j].at
                        /\ \A i \in 1..Len(b) : b[i].at <= now'
    BY DEF BranchOrdered
<1> DEFINE b == clone[m].branch
<1>1. /\ b \in Seq(Snapshots) /\ now \in Nat
      /\ \A i, j \in 1..Len(b) : i <= j => b[i].at <= b[j].at
      /\ \A i \in 1..Len(b) : b[i].at <= now
    BY HistoryTypes DEF BranchOrdered, TypeOK
<1>2. now' \in Nat /\ now <= now' /\ \A i \in 1..Len(b) : b[i].at \in Nat
    <2>1. \A i \in 1..Len(b) : b[i] \in Snapshots
        BY <1>1
    <2>2. \A s \in Snapshots : s.at \in Nat
        BY DEF Snapshots
    <2> HIDE DEF b
    <2> QED BY <2>1, <2>2, TimeGrows
<1>3. CASE clone'[m].branch = b
    BY <1>1, <1>2, <1>3
<1>4. ASSUME NEW p \in Procs, Commit(p), Home[p] = m,
             clone'[m].branch = Append(b, tick[p].snap)
      PROVE  /\ \A i, j \in 1..Len(clone'[m].branch) :
                    i <= j => clone'[m].branch[i].at <= clone'[m].branch[j].at
             /\ \A i \in 1..Len(clone'[m].branch) : clone'[m].branch[i].at <= now'
    <2> DEFINE s == tick[p].snap
               a == clone'[m].branch
    <2>1. s.at \in Nat /\ s.at <= now /\ \A i \in 1..Len(b) : b[i].at <= s.at
        BY <1>4, CommitIsStamped DEF ScanIsLatest, Snapshots
    <2>2. /\ Len(a) = Len(b) + 1 /\ a[Len(b) + 1] = s
          /\ \A i \in 1..Len(b) : a[i] = b[i]
        BY <1>1, <1>4
    <2>3. Len(b) \in Nat
        BY <1>1
    <2>4. \A i \in 1..Len(a) : i \in 1..Len(b) \/ i = Len(b) + 1
        BY <2>2, <2>3
    <2> HIDE DEF s, a, b
    <2>5. \A i \in 1..Len(a) : a[i].at <= s.at /\ a[i].at \in Nat
        <3> SUFFICES ASSUME NEW i \in 1..Len(a)
                     PROVE  a[i].at <= s.at /\ a[i].at \in Nat
            OBVIOUS
        <3>1. CASE i = Len(b) + 1
            BY <2>1, <2>2, <3>1
        <3>2. CASE i \in 1..Len(b)
            BY <1>2, <2>1, <2>2, <3>2
        <3> QED BY <2>4, <3>1, <3>2
    <2>6. ASSUME NEW i \in 1..Len(a), NEW j \in 1..Len(a), i <= j
          PROVE  a[i].at <= a[j].at
        <3>1. CASE j = Len(b) + 1
            BY <2>2, <2>5, <3>1
        <3>2. CASE j \in 1..Len(b)
            <4>1. i \in 1..Len(b)
                BY <2>3, <2>4, <2>6, <3>2
            <4> QED BY <1>1, <2>2, <2>6, <3>2, <4>1 DEF b
        <3> QED BY <2>4, <3>1, <3>2
    <2>7. \A i \in 1..Len(a) : a[i].at <= now'
        BY <1>1, <1>2, <2>1, <2>5
    <2> QED BY <2>6, <2>7 DEF a
<1> QED BY <1>3, <1>4, HistoryStep

LEMMA NextLatest ==
    ASSUME TypeOK, TypeOK', SnapTyped, SnapTyped', LockHeld, BranchOrdered,
           ScanIsLatest, [Next]_vars
    PROVE  ScanIsLatest'
<1> SUFFICES ASSUME NEW p \in Procs, pc'[p] \in Stamped
             PROVE  /\ tick'[p].snap.at <= now'
                    /\ \A i \in 1..Len(clone'[Home[p]].branch) :
                           clone'[Home[p]].branch[i].at <= tick'[p].snap.at
    BY DEF ScanIsLatest
<1> DEFINE m == Home[p]
           b == clone[m].branch
           s == tick[p].snap
<1>1. /\ m \in Machines /\ b \in Seq(Snapshots) /\ clone[m] \in Clones
      /\ now \in Nat /\ now' \in Nat /\ now <= now'
    BY HomeIsMachine, HistoryTypes, TimeGrows DEF TypeOK
<1>2. ASSUME pc[p] \in Stamped, tick'[p].snap = s, clone'[m].branch = b
      PROVE  /\ tick'[p].snap.at <= now'
             /\ \A i \in 1..Len(clone'[m].branch) :
                    clone'[m].branch[i].at <= tick'[p].snap.at
    <2>1. /\ s.at <= now /\ \A i \in 1..Len(b) : b[i].at <= s.at
          /\ s \in Snapshots
        BY <1>2 DEF ScanIsLatest, SnapTyped
    <2>2. s.at <= now'
        BY <1>1, <2>1 DEF Snapshots
    <2> QED BY <1>2, <2>1, <2>2
<1>3. CASE TickStep(p) /\ Build(p)
    <2>1. UNCHANGED <<clone, now>> /\ tick'[p].snap.at = now
        BY <1>3, Names DEF Build, Return, Continue, Goto, Outside, TypeOK, Ticks,
                           Stamped, InLock, SnapTyped, Snapshots
    <2> QED BY <1>1, <2>1 DEF BranchOrdered
<1>4. CASE TickStep(p) /\ Commit(p)
    <2>1. /\ pc[p] \in Stamped /\ tick'[p].snap = s /\ s \in Snapshots
          /\ s.at <= now /\ \A i \in 1..Len(b) : b[i].at <= s.at
        BY <1>4, StampKept, CommitIsStamped DEF ScanIsLatest, Build, Commit
    <2>2. CASE clone'[m].branch = b
        BY <1>2, <2>1, <2>2
    <2>3. CASE clone'[m].branch = Append(b, s)
        <3>1. \A i \in 1..Len(Append(b, s)) : Append(b, s)[i].at <= s.at
            BY <1>1, <2>1 DEF Snapshots
        <3>2. s.at <= now'
            BY <1>1, <2>1 DEF Snapshots
        <3> QED BY <2>1, <2>3, <3>1, <3>2
    <2> QED BY <1>1, <1>4, <2>2, <2>3, CommitBranch
<1>5. CASE TickStep(p) /\ ~Build(p) /\ ~Commit(p)
    <2>1. pc[p] \in Stamped /\ tick'[p].snap = s
        BY <1>5, StampKept
    <2>2. clone'[m].branch = b
        BY <1>1, <1>5, QuietStep, PushStep DEF Keeps
    <2> QED BY <1>2, <2>1, <2>2
<1>6. CASE ~TickStep(p)
    <2>1. pc'[p] \in InLock \ {"tickAbort"}
        BY DEF Stamped
    <2>2. pc[p] = pc'[p] /\ pc[p] \in InLock
        BY <1>6, <2>1, OwnProgress
    <2>3. clone'[m] = clone[m] /\ tick'[p] = tick[p]
        BY <1>6, <2>1, <2>2, ClonePrivate, LocalsPrivate
    <2> QED BY <1>2, <2>2, <2>3
<1> QED BY <1>3, <1>4, <1>5, <1>6

HistoryInv == Tracking /\ RemoteIsPrefix /\ BranchOrdered /\ ScanIsLatest

LEMMA InitHistory == Init => HistoryInv
<1> SUFFICES ASSUME Init PROVE HistoryInv
    OBVIOUS
<1>1. \A m \in Machines :
          clone[m].branch = <<>> /\ clone[m].tracked = 0 /\ remote[m] = <<>>
    BY DEF Init
<1>2. \A p \in Procs : pc[p] \notin Stamped
    BY Names DEF Init
<1>3. Len(<<>>) = 0
    OBVIOUS
<1> QED BY <1>1, <1>2, <1>3
        DEF HistoryInv, Tracking, RemoteIsPrefix, BranchOrdered, ScanIsLatest

\* What is published for a machine is a prefix of what it committed, and both are
\* in the order of the scans, whatever pulls, aborts and viewers do to the clone.
THEOREM HistoryCorrect == Spec => [](TypeInv /\ LockHeld /\ HistoryInv)
<1> DEFINE Inv == TypeInv /\ LockHeld /\ HistoryInv
<1>1. Init => Inv
    BY InitTypes, InitLock, InitHistory
<1>2. Inv /\ [Next]_vars => Inv'
    <2> SUFFICES ASSUME Inv, [Next]_vars PROVE Inv'
        OBVIOUS
    <2>1. TypeInv'
        BY NextTypes
    <2>2. LockHeld'
        BY NextLock DEF TypeInv
    <2>3. Tracking' /\ RemoteIsPrefix' /\ BranchOrdered'
        BY NextTracking, NextPrefix, NextOrdered DEF TypeInv, HistoryInv
    <2>4. ScanIsLatest'
        BY <2>1, NextLatest DEF TypeInv, HistoryInv
    <2> QED BY <2>1, <2>2, <2>3, <2>4 DEF HistoryInv
<1> QED BY <1>1, <1>2, PTL DEF Spec

-------------------------------------------------------------------------------
(* The board.                                                                *)

\* Where one machine's history on the remote grows within its branch, the board
\* has a publish of that machine or does not change.
LEMMA BoardGrows ==
    ASSUME TypeOK, RemoteIsPrefix, BranchOrdered, NEW h \in Machines,
           \A q \in Machines \ {h} : remote'[q] = remote[q],
           remote'[h] \in Seq(Snapshots),
           Len(remote[h]) <= Len(remote'[h]),
           Len(remote'[h]) <= Len(clone[h].branch),
           \A i \in 1..Len(remote'[h]) : remote'[h][i] = clone[h].branch[i]
    PROVE  [Board!Next]_Shown
<1> DEFINE b == clone[h].branch
           r == remote[h]
           s == remote'[h]
<1>1. \A q \in Machines \ {h} : Shown'[q] = Shown[q]
    BY DEF Shown
<1>2. CASE s = <<>>
    <2>1. r = <<>>
        BY <1>2, HistoryTypes
    <2>2. Shown'[h] = Shown[h]
        BY <1>2, <2>1 DEF Shown
    <2> QED BY <1>1, <2>2 DEF Shown
<1>3. CASE s # <<>>
    <2>1. /\ Len(s) \in 1..Len(b) /\ Len(s) \in Nat /\ s[Len(s)] = b[Len(s)]
          /\ Shown'[h] = s[Len(s)] /\ s[Len(s)] \in Snapshots
        BY <1>3, HistoryTypes DEF Shown, Last
    <2>2. ASSUME Shown[h] # None
          PROVE  Shown[h].at <= Shown'[h].at
        <3>1. r # <<>> /\ Shown[h] = r[Len(r)]
            BY <2>2 DEF Shown, Last
        <3>2. Len(r) \in 1..Len(r)
            BY <3>1, HistoryTypes
        <3>3. r[Len(r)] = b[Len(r)] /\ Len(r) \in 1..Len(b)
            BY <2>1, <3>2, HistoryTypes DEF RemoteIsPrefix
        <3> QED BY <2>1, <3>1, <3>3 DEF BranchOrdered
    <2>3. Shown' = [Shown EXCEPT ![h] = Shown'[h]]
        BY <1>1 DEF Shown
    <2>4. Board!Publish(h)
        BY <2>1, <2>2, <2>3 DEF Board!Publish, Board!Snapshots, Snapshots
    <2> QED BY <2>4 DEF Board!Next
<1> QED BY <1>2, <1>3

LEMMA NextBoard ==
    ASSUME TypeOK, TypeOK', Tracking, RemoteIsPrefix, BranchOrdered, [Next]_vars
    PROVE  [Board!Next]_Shown
<1>1. ASSUME NEW p \in Procs, SyncPush(p)
      PROVE  [Board!Next]_Shown
    <2> DEFINE h == Home[p]
    <2>1. /\ h \in Machines /\ \A q \in Machines \ {h} : remote'[q] = remote[q]
          /\ remote'[h] \in {remote[h], clone[h].branch}
        BY <1>1, HomeIsMachine, PushStep
    <2>2. /\ remote'[h] \in Seq(Snapshots) /\ clone[h].branch \in Seq(Snapshots)
          /\ remote[h] \in Seq(Snapshots) /\ Len(remote[h]) <= Len(clone[h].branch)
        BY <2>1, HistoryTypes DEF Tracking, TypeOK
    <2>3. /\ Len(remote[h]) <= Len(remote'[h])
          /\ Len(remote'[h]) <= Len(clone[h].branch)
          /\ \A i \in 1..Len(remote'[h]) : remote'[h][i] = clone[h].branch[i]
        BY <2>1, <2>2 DEF RemoteIsPrefix
    <2> QED BY <2>1, <2>2, <2>3, BoardGrows
<1>2. ASSUME \A p \in Procs : ~SyncPush(p)
      PROVE  [Board!Next]_Shown
    <2>1. UNCHANGED remote
        BY <1>2, QuietEnvironment, QuietStep, CommitStep
    <2> QED BY <2>1 DEF Shown
<1> QED BY <1>1, <1>2

LEMMA InitBoard == Init => Board!Init
BY DEF Init, Board!Init, Shown

\* The published snapshots form a board: a machine's entry is replaced only by a
\* publish of that machine, and never by an older snapshot.
THEOREM BoardCorrect == Spec => BoardSpec
<1>1. TypeInv /\ TypeInv' /\ LockHeld /\ HistoryInv /\ [Next]_vars
        => [Board!Next]_Shown
    BY NextBoard DEF TypeInv, HistoryInv
<1> QED BY <1>1, InitBoard, HistoryCorrect, PTL DEF Spec, BoardSpec, Board!Spec
-------------------------------------------------------------------------------
(* What a tick finds and leaves while git rebase --abort works.              *)

\* The effects of the step operators on their own process.
LEMMA OwnEffects ==
    ASSUME TypeOK, NEW p \in Procs
    PROVE  /\ \A c : SetClone(Home[p], c) => clone'[Home[p]] = c
           /\ \A label : Continue(p, label) =>
                  /\ pc'[p] = label /\ ctxDone'[p] = ctxDone[p]
                  /\ outcome'[p] = outcome[p]
           /\ \A result : Return(p, result) =>
                  pc'[p] = "idle" /\ outcome'[p] = result
BY HomeIsMachine DEF TypeOK, SetClone, Continue, Return, Goto

\* Inside its tick, a process is disturbed by nobody.
LEMMA Undisturbed ==
    ASSUME TypeOK, LockHeld, [Next]_vars, NEW p \in Procs, ~TickStep(p),
           pc'[p] \in InLock \ {"tickAbort"}
    PROVE  /\ pc'[p] = pc[p] /\ tick'[p] = tick[p]
           /\ clone'[Home[p]] = clone[Home[p]]
<1>1. pc'[p] = pc[p] /\ pc[p] \in InLock
    BY OwnProgress
<1> QED BY <1>1, ClonePrivate, LocalsPrivate

\* An autostash exists only during a rebase.
Settled(c) == c.rebasing \/ c.stash = None

\* What the operators on clones do to an unfinished rebase.
LEMMA RebaseEffects ==
    ASSUME NEW c \in Clones, NEW m
    PROVE  /\ ~Aborted(c).rebasing
           /\ Settled(c) => Settled(Aborted(c))
           /\ ~c.rebasing => Aborted(c) = c
           /\ Pulled(c, m).rebasing = c.rebasing
           /\ Pulled(c, m).stash = c.stash
           /\ Settled(c) => \A d \in BrokenPulls(c, m) \cup ViewPulls(c, m) : Settled(d)
<1>1. /\ ~Aborted(c).rebasing
      /\ Settled(c) => Settled(Aborted(c))
      /\ ~c.rebasing => Aborted(c) = c
    BY DEF Aborted, Clones, Settled
<1>2. /\ Unstashed(c).rebasing = c.rebasing /\ Unstashed(c).stash = c.stash
      /\ Unstashed(c) \in Clones
    BY UnstashedType DEF Unstashed, Clones
<1>3. ASSUME NEW d \in Clones
      PROVE  /\ Fetched(d, m).rebasing = d.rebasing
             /\ Fetched(d, m).stash = d.stash
             /\ [Fetched(d, m) EXCEPT !.base = Published].rebasing = d.rebasing
             /\ [Fetched(d, m) EXCEPT !.base = Published].stash = d.stash
    BY DEF Fetched, Clones
<1>4. Pulled(c, m).rebasing = c.rebasing /\ Pulled(c, m).stash = c.stash
    BY <1>2, <1>3 DEF Pulled
<1>5. ASSUME NEW k
      PROVE  Stalled(c, m, k).rebasing
    BY DEF Stalled, Fetched, Clones
<1>6. Settled(c) => \A d \in BrokenPulls(c, m) \cup ViewPulls(c, m) : Settled(d)
    BY <1>3, <1>4, <1>5 DEF Settled, BrokenPulls, ViewPulls
<1> QED BY <1>1, <1>4, <1>6

\* Clone d has the unfinished rebase, or none, of clone c.
SameRebase(c, d) == d.rebasing = c.rebasing /\ d.stash = c.stash

LEMMA FieldEffects ==
    ASSUME NEW c \in Clones, NEW f
    PROVE  /\ SameRebase(c, [c EXCEPT !.disk = f])
           /\ SameRebase(c, [c EXCEPT !.staged = f])
           /\ SameRebase(c, [c EXCEPT !.tracked = f])
           /\ SameRebase(c, Committed(c, f))
<1>1. SameRebase(c, [c EXCEPT !.disk = f]) /\ SameRebase(c, [c EXCEPT !.staged = f])
    BY DEF Clones, SameRebase
<1>2. SameRebase(c, [c EXCEPT !.tracked = f])
    BY DEF Clones, SameRebase
<1>3. SameRebase(c, Committed(c, f))
    BY DEF Clones, Committed, SameRebase
<1> QED BY <1>1, <1>2, <1>3

\* Inside a tick, only aborts and pulls begin or end a rebase.
LEMMA TickKeepsRebase ==
    ASSUME TypeOK, NEW p \in Procs,
           \/ Scan(p) \/ Build(p) \/ Status(p) \/ RevList(p) \/ Gate(p)
           \/ Write(p) \/ Add(p) \/ Commit(p) \/ Restore(p) \/ SyncPush(p)
    PROVE  SameRebase(clone[Home[p]], clone'[Home[p]])
<1> DEFINE h == Home[p]
           c == clone[h]
<1>0. c \in Clones /\ SameRebase(c, c)
    BY HomeIsMachine DEF TypeOK, SameRebase
<1>1. CASE Scan(p) \/ Build(p) \/ Status(p) \/ RevList(p) \/ Gate(p)
    BY <1>0, <1>1 DEF Scan, Build, Status, RevList, Gate
<1>2. CASE Write(p) \/ Restore(p)
    <2>1. UNCHANGED clone \/ \E f : SetClone(h, [c EXCEPT !.disk = f])
        BY <1>2 DEF Write, Restore, DamagedFile
    <2>2. \A f : SetClone(h, f) => clone'[h] = f
        BY OwnEffects
    <2> QED BY <1>0, <2>1, <2>2, FieldEffects
<1>3. CASE Add(p)
    <2>1. UNCHANGED clone \/ \E f : SetClone(h, [c EXCEPT !.staged = f])
        BY <1>3 DEF Add
    <2>2. \A f : SetClone(h, f) => clone'[h] = f
        BY OwnEffects
    <2> QED BY <1>0, <2>1, <2>2, FieldEffects
<1>4. CASE Commit(p)
    <2>1. \A f : SetClone(h, f) => clone'[h] = f
        BY OwnEffects
    <2> QED BY <1>0, <1>4, <2>1, FieldEffects, CommitStep
<1>5. CASE SyncPush(p)
    <2>1. SetClone(h, [c EXCEPT !.tracked = Len(c.branch)]) \/ UNCHANGED clone
        BY <1>5 DEF SyncPush
    <2>2. \A f : SetClone(h, f) => clone'[h] = f
        BY OwnEffects
    <2> QED BY <1>0, <2>1, <2>2, FieldEffects
<1> QED BY <1>1, <1>2, <1>3, <1>4, <1>5

LEMMA TickSettled ==
    ASSUME TypeOK, NEW p \in Procs, TickStep(p), Settled(clone[Home[p]])
    PROVE  Settled(clone'[Home[p]])
<1> DEFINE c == clone[Home[p]]
           d == clone'[Home[p]]
<1>0. c \in Clones
    BY HomeIsMachine DEF TypeOK
<1>1. CASE SameRebase(c, d)
    BY <1>1 DEF SameRebase, Settled
<1>2. CASE AbortRuns(p)
    <2>1. d = Aborted(c)
        BY <1>2, OwnEffects DEF AbortRuns
    <2> QED BY <1>0, <2>1, RebaseEffects
<1>3. CASE PullRuns(p)
    BY <1>0, <1>3, OwnEffects, RebaseEffects DEF PullRuns, Settled
<1>4. CASE UNCHANGED clone
    BY <1>4
<1>5. CASE \E k : PullBreaks(p, k)
    BY <1>0, <1>5, OwnEffects, RebaseEffects DEF PullBreaks
<1>6. CASE TickAbort(p) \/ TickClean(p) \/ Sync(p) \/ SyncClean(p) \/ SyncQuit(p)
    BY <1>2, <1>4, <1>6 DEF TickAbort, TickClean, Sync, SyncClean, SyncQuit, AbortFails
<1>7. CASE TickPull(p) \/ SyncPull(p)
    BY <1>3, <1>4, <1>5, <1>7 DEF TickPull, SyncPull, PullRefused
<1> QED BY <1>1, <1>6, <1>7, TickKeepsRebase DEF TickStep

LEMMA NextSettled ==
    ASSUME TypeOK, [Next]_vars, NEW m \in Machines, Settled(clone[m])
    PROVE  Settled(clone'[m])
<1>0. clone[m] \in Clones /\ clone \in [Machines -> Clones]
    BY DEF TypeOK
<1>1. ASSUME NEW p \in Procs, TickStep(p)
      PROVE  Settled(clone'[m])
    <2>1. CASE Home[p] = m
        BY <1>1, <2>1, TickSettled
    <2>2. CASE Home[p] # m
        BY <1>0, <1>1, <2>2, TickStepLocal DEF SetClone
    <2> QED BY <2>1, <2>2
<1>2. ASSUME NEW q \in Machines, View(q)
      PROVE  Settled(clone'[m])
    BY <1>0, <1>2, RebaseEffects DEF View, ViewLock, ViewPull, SetClone
<1>3. ASSUME NEW p \in Procs, Crash(p)
      PROVE  Settled(clone'[m])
    <2>1. clone'[m] \in {clone[m], [clone[m] EXCEPT !.disk = Corrupt]}
        BY <1>0, <1>3 DEF Crash, SetClone
    <2>2. SameRebase(clone[m], [clone[m] EXCEPT !.disk = Corrupt])
        BY <1>0, FieldEffects
    <2> QED BY <2>1, <2>2 DEF Settled, SameRebase
<1>4. ASSUME NEW p \in Procs,
             Start(p) \/ Acquire(p) \/ GiveUp(p) \/ Deadline(p) \/ Restart(p)
      PROVE  UNCHANGED clone
    BY <1>4 DEF Start, Acquire, GiveUp, Deadline, Restart
<1>5. CASE UNCHANGED vars \/ Clock \/ \E q \in Machines : Work(q)
    BY <1>5 DEF vars, Clock, Work
<1> QED BY <1>1, <1>2, <1>3, <1>4, <1>5 DEF Next, Step, TickStep

MayRebase == {"tickAbort", "tickClean", "syncClean", "syncQuit"}

\* A step of a tick leaves no rebase unfinished where the next does not expect it.
LEMMA StepUnstuck ==
    ASSUME TypeOK, "abort" \notin Faulty, NEW p \in Procs, TickStep(p),
           pc[p] \in InLock \ MayRebase => ~clone[Home[p]].rebasing,
           pc'[p] \in InLock \ MayRebase
    PROVE  ~clone'[Home[p]].rebasing
<1> DEFINE h == Home[p]
           c == clone[h]
           d == clone'[h]
<1>1. c \in Clones
    BY HomeIsMachine DEF TypeOK
<1>2. AbortRuns(p) => ~d.rebasing
    <2>1. AbortRuns(p) => d = Aborted(c)
        BY OwnEffects DEF AbortRuns
    <2> QED BY <1>1, <2>1, RebaseEffects
<1>3. AbortFails(p) => ctxDone[p] /\ c.rebasing
    BY DEF AbortFails, GitFails, Fail
<1>4. /\ \A label : Continue(p, label) => pc'[p] = label
      /\ \A result : ~Return(p, result)
    BY OwnEffects DEF InLock
<1>5. CASE TickAbort(p) \/ TickClean(p) \/ SyncClean(p) \/ SyncQuit(p)
    BY <1>2, <1>3, <1>4, <1>5
       DEF TickAbort, TickClean, SyncClean, SyncQuit, AfterTickPull
<1>6. CASE Sync(p)
    <2>1. ~c.rebasing
        BY <1>6 DEF Sync, InLock, MayRebase
    <2> QED BY <1>2, <1>3, <1>4, <1>6, <2>1 DEF Sync
<1>7. CASE TickPull(p) \/ SyncPull(p)
    <2>1. PullRuns(p)
        BY <1>4, <1>7 DEF TickPull, SyncPull, MayRebase
    <2>2. d = Pulled(c, h) /\ ~c.rebasing
        BY <2>1, OwnEffects DEF PullRuns
    <2> QED BY <1>1, <2>2, RebaseEffects
<1>8. CASE \/ Scan(p) \/ Build(p) \/ Status(p) \/ RevList(p) \/ Gate(p)
           \/ Write(p) \/ Add(p) \/ Commit(p) \/ Restore(p) \/ SyncPush(p)
    <2>1. pc[p] \in InLock \ MayRebase
        BY <1>8 DEF Scan, Build, Status, RevList, Gate, Write, Add, Commit,
                    Restore, SyncPush, InLock, MayRebase
    <2>2. SameRebase(c, d)
        BY <1>8, TickKeepsRebase
    <2> QED BY <2>1, <2>2 DEF SameRebase
<1> QED BY <1>5, <1>6, <1>7, <1>8 DEF TickStep

LEMMA NextUnstuck ==
    ASSUME TypeOK, LockHeld, "abort" \notin Faulty, Unstuck, [Next]_vars
    PROVE  Unstuck'
<1>1. ASSUME NEW m \in Machines
      PROVE  Settled(clone'[m])
    BY NextSettled DEF Unstuck, Settled
<1>2. ASSUME NEW p \in Procs, pc'[p] \in InLock \ MayRebase
      PROVE  ~clone'[Home[p]].rebasing
    <2>1. pc[p] \in InLock \ MayRebase => ~clone[Home[p]].rebasing
        BY DEF Unstuck, MayRebase
    <2>2. CASE TickStep(p)
        BY <1>2, <2>1, <2>2, StepUnstuck
    <2>3. CASE ~TickStep(p)
        BY <1>2, <2>1, <2>3, Undisturbed DEF MayRebase
    <2> QED BY <2>2, <2>3
<1> QED BY <1>1, <1>2 DEF Unstuck, Settled, MayRebase

-------------------------------------------------------------------------------
(* What is pushed.                                                           *)

\* Process p has committed what it scanned, or there was nothing new in it.
Covered(b, s) == b # <<>> /\ ~NeedsCommit(Last(b), s)

\* The scan itself covers the scan.
LEMMA JustCommitted ==
    ASSUME NEW b \in Seq(Snapshots), NEW s \in Snapshots
    PROVE  Covered(Append(b, s), s)
<1>1. Append(b, s) # <<>> /\ Last(Append(b, s)) = s
    BY DEF Last
<1>2. s.at \in Nat /\ Heartbeat \in Nat \ {0}
    BY BoundsAreNaturals DEF Snapshots
<1>3. ~NeedsCommit(s, s)
    BY <1>2 DEF NeedsCommit
<1> QED BY <1>1, <1>3 DEF Covered

\* The commits of a clone that the remote lacks are commits.
LEMMA AheadIsCommitted ==
    ASSUME TypeOK, Tracking, NEW m \in Machines, Ahead(clone[m]) # 0
    PROVE  clone[m].branch # <<>>
<1>1. /\ clone[m].tracked \in Nat /\ Len(remote[m]) \in Nat
      /\ Len(clone[m].branch) \in Nat
      /\ clone[m].tracked <= Len(remote[m]) /\ Len(remote[m]) <= Len(clone[m].branch)
    BY HistoryTypes DEF Tracking
<1> QED BY <1>1 DEF Ahead

\* What Pushable says of one process.
PushableAt(p) ==
    LET c == clone[Home[p]]
        s == tick[p].snap
    IN  /\ pc[p] \in InSync => c.branch # <<>>
        /\ pc[p] = "status" => c.disk = tick[p].prev /\ ~NeedsCommit(c.disk, s)
        /\ pc[p] = "revlist" \/ (pc[p] \in InSync /\ tick[p].caller # "gate") =>
               Covered(c.branch, s)

LEMMA StepPushable ==
    ASSUME TypeOK, SnapTyped, Tracking, "abort" \notin Faulty, Unstuck,
           NEW p \in Procs, TickStep(p), PushableAt(p)
    PROVE  PushableAt(p)'
<1> DEFINE h == Home[p]
           c == clone[h]
           d == clone'[h]
           t == tick[p]
           u == tick'[p]
<1>0. /\ h \in Machines /\ c \in Clones /\ t \in Ticks /\ c.branch \in Seq(Snapshots)
    BY HomeIsMachine, HistoryTypes DEF TypeOK
<1>1. /\ \A label : Continue(p, label) => pc'[p] = label
      /\ \A result : Return(p, result) => pc'[p] = "idle"
    BY OwnEffects
<1>2. ASSUME NEW caller, CallSync(p, caller)
      PROVE  /\ pc'[p] = "sync" /\ u.caller = caller
             /\ u.snap = t.snap /\ u.prev = t.prev
    BY <1>0, <1>1, <1>2 DEF CallSync, TypeOK, Ticks
<1>3. ASSUME Retry(p)
      PROVE  /\ pc'[p] = "sync" /\ u.caller = t.caller
             /\ u.snap = t.snap /\ u.prev = t.prev
    BY <1>0, <1>1, <1>3 DEF Retry, TypeOK, Ticks
<1>4. CASE TickAbort(p) \/ TickPull(p) \/ TickClean(p) \/ Scan(p)
    <2>1. pc'[p] \in {"tickPull", "tickClean", "scan", "build", "idle"}
        BY <1>1, <1>4 DEF TickAbort, TickPull, TickClean, Scan, AfterTickPull
    <2> QED BY <2>1 DEF PushableAt, InSync
<1>5. CASE Write(p) \/ Add(p) \/ Restore(p)
    <2>1. pc'[p] \in {"add", "commit", "restore", "idle"}
        BY <1>1, <1>5 DEF Write, Add, Restore
    <2> QED BY <2>1 DEF PushableAt, InSync
<1>6. CASE Build(p)
    <2>1. CASE pc'[p] \notin {"status"}
        <3>1. pc'[p] \in {"gate", "idle"}
            BY <1>1, <1>6, <2>1 DEF Build
        <3> QED BY <3>1 DEF PushableAt, InSync
    <2>2. CASE pc'[p] = "status"
        <3>1. /\ d = c /\ u.prev = c.disk /\ ~NeedsCommit(c.disk, u.snap)
            BY <1>0, <1>1, <1>6, <2>2 DEF Build, TypeOK, Ticks
        <3> QED BY <2>2, <3>1 DEF PushableAt, InSync
    <2> QED BY <2>1, <2>2
<1>7. CASE Status(p)
    <2>1. CASE pc'[p] = "revlist"
        <3>1. /\ d = c /\ u = t /\ ~Dirty(c) /\ pc[p] = "status"
            BY <1>1, <1>7, <2>1 DEF Status
        <3>2. ~c.rebasing
            BY <3>1 DEF Unstuck, InLock
        <3>3. c.disk = FileAt(c.branch) /\ ~NeedsCommit(c.disk, t.snap)
            BY <3>1, <3>2 DEF Dirty, HeadFile, PushableAt
        <3>4. c.disk \in Snapshots /\ Missing \notin Snapshots
            BY <3>3, MarkersAreDistinct DEF NeedsCommit
        <3>5. Covered(c.branch, t.snap)
            BY <3>3, <3>4 DEF FileAt, Covered
        <3> QED BY <2>1, <3>1, <3>5 DEF PushableAt, InSync
    <2>2. CASE pc'[p] # "revlist"
        <3>1. pc'[p] \in {"gate", "idle"}
            BY <1>1, <1>7, <2>2 DEF Status
        <3> QED BY <3>1 DEF PushableAt, InSync
    <2> QED BY <2>1, <2>2
<1>8. CASE RevList(p)
    <2>1. CASE CallSync(p, "flush")
        <3>1. d = c /\ pc[p] = "revlist"
            BY <1>8 DEF RevList
        <3>2. Covered(c.branch, t.snap)
            BY <3>1 DEF PushableAt
        <3>3. c.branch # <<>>
            BY <3>2 DEF Covered
        <3> QED BY <1>2, <2>1, <3>1, <3>2, <3>3 DEF PushableAt, InSync
    <2>2. CASE ~CallSync(p, "flush")
        <3>1. pc'[p] = "idle"
            BY <1>1, <1>8, <2>2 DEF RevList
        <3> QED BY <3>1 DEF PushableAt, InSync
    <2> QED BY <2>1, <2>2
<1>9. CASE Gate(p)
    <2>1. CASE CallSync(p, "gate") /\ KnownBacklog(c)
        <3>1. d = c
            BY <1>9 DEF Gate
        <3>2. Ahead(c) # 0
            BY <1>0, <2>1, HistoryTypes DEF KnownBacklog, Ahead
        <3>3. c.branch # <<>>
            BY <1>0, <3>2, AheadIsCommitted
        <3> QED BY <1>2, <2>1, <3>1, <3>3 DEF PushableAt, InSync
    <2>2. CASE Continue(p, "write")
        <3>1. pc'[p] = "write"
            BY <1>1, <2>2
        <3> QED BY <3>1 DEF PushableAt, InSync
    <2> QED BY <1>9, <2>1, <2>2 DEF Gate
<1>10. CASE Commit(p)
    <2>1. CASE CallSync(p, "publish") /\ SetClone(h, Committed(c, t.snap))
        <3>1. pc[p] = "commit" /\ t.snap \in Snapshots
            BY <1>10, CommitIsStamped DEF Commit
        <3>2. ~c.rebasing
            BY <3>1 DEF Unstuck, InLock
        <3>3. d = Committed(c, t.snap)
            BY <2>1, OwnEffects
        <3>4. d.branch = Append(c.branch, t.snap)
            BY <1>0, <3>2, <3>3 DEF Committed, Clones
        <3>5. Covered(d.branch, t.snap)
            BY <1>0, <3>1, <3>4, JustCommitted
        <3>6. d.branch # <<>>
            BY <3>5 DEF Covered
        <3> QED BY <1>2, <2>1, <3>5, <3>6 DEF PushableAt, InSync
    <2>2. CASE Continue(p, "restore")
        <3>1. pc'[p] = "restore"
            BY <1>1, <2>2
        <3> QED BY <3>1 DEF PushableAt, InSync
    <2> QED BY <1>10, <2>1, <2>2 DEF Commit
<1>11. CASE Sync(p) \/ SyncPull(p) \/ SyncClean(p) \/ SyncQuit(p) \/ SyncPush(p)
    <2>1. pc[p] \in InSync
        BY <1>11 DEF Sync, SyncPull, SyncClean, SyncQuit, SyncPush, InSync
    <2>2. d.branch = c.branch
        <3>1. CASE SyncPush(p)
            BY <1>0, <3>1, PushStep
        <3>2. CASE ~SyncPush(p)
            <4>1. TickStep(p) /\ ~Commit(p)
                BY <1>11, <2>1 DEF TickStep, Commit, InSync
            <4> QED BY <1>0, <3>2, <4>1, QuietStep DEF Keeps
        <3> QED BY <3>1, <3>2
    <2>3. CASE pc'[p] \in InSync
        <3>1. u.caller = t.caller /\ u.snap = t.snap
            BY <1>1, <1>3, <1>11, <2>3
               DEF Sync, SyncPull, SyncClean, SyncQuit, SyncPush, SyncDone, InSync
        <3> QED BY <2>1, <2>2, <2>3, <3>1 DEF PushableAt, InSync
    <2>4. CASE pc'[p] \notin InSync
        <3>1. pc'[p] \in {"write", "idle"}
            BY <1>1, <1>3, <1>11, <2>4
               DEF Sync, SyncPull, SyncClean, SyncQuit, SyncPush, SyncDone, InSync
        <3> QED BY <3>1 DEF PushableAt, InSync
    <2> QED BY <2>3, <2>4
<1> QED BY <1>4, <1>5, <1>6, <1>7, <1>8, <1>9, <1>10, <1>11 DEF TickStep

LEMMA NextPushable ==
    ASSUME TypeOK, SnapTyped, LockHeld, Tracking, "abort" \notin Faulty, Unstuck,
           Pushable, [Next]_vars
    PROVE  Pushable'
<1>1. ASSUME NEW p \in Procs
      PROVE  PushableAt(p)'
    <2>1. PushableAt(p)
        BY DEF Pushable, PushableAt, Covered
    <2>2. CASE TickStep(p)
        BY <2>1, <2>2, StepPushable
    <2>3. CASE ~TickStep(p) /\ pc'[p] \in {"status", "revlist"} \cup InSync
        <3>1. pc'[p] \in InLock \ {"tickAbort"}
            BY <2>3 DEF InSync, InLock
        <3> QED BY <2>1, <2>3, <3>1, Undisturbed DEF PushableAt
    <2>4. CASE pc'[p] \notin {"status", "revlist"} \cup InSync
        BY <2>4 DEF PushableAt
    <2> QED BY <2>2, <2>3, <2>4
<1> QED BY <1>1 DEF Pushable, PushableAt, Covered
-------------------------------------------------------------------------------
(* What the file on disk claims.                                             *)

\* What is on a branch, and what the tick found, backs a file.
LEMMA BackedBy ==
    ASSUME NEW c, NEW prev, NEW f \in {FileAt(c.branch), prev, None, Missing, Corrupt}
    PROVE  Backed(f, c, prev)
<1>1. CASE f \in {FileAt(c.branch), prev}
    <2>1. f \in Snapshots => f.at <= f.at
        BY DEF Snapshots
    <2> QED BY <1>1, <2>1 DEF Backed
<1>2. CASE f \in {None, Missing, Corrupt}
    BY <1>2, MarkersAreDistinct DEF Backed
<1> QED BY <1>1, <1>2

\* A file stays backed on the same branch.
LEMMA BackedStays ==
    ASSUME NEW c, NEW d, d.branch = c.branch, NEW prev, NEW f, Backed(f, c, prev)
    PROVE  Backed(f, d, prev)
BY DEF Backed

\* A snapshot that is on the branch is backed by the last one.
LEMMA BackedOnBranch ==
    ASSUME NEW c, NEW prev, c.branch \in Seq(Snapshots), NEW k \in 1..Len(c.branch),
           \A i, j \in 1..Len(c.branch) : i <= j => c.branch[i].at <= c.branch[j].at
    PROVE  Backed(c.branch[k], c, prev)
<1> DEFINE b == c.branch
<1>1. b # <<>> /\ FileAt(b) = b[Len(b)]
    BY DEF FileAt, Last
<1>2. Len(b) \in 1..Len(b) /\ k <= Len(b) /\ b[Len(b)] \in Snapshots
    BY <1>1
<1>3. b[k].at <= b[Len(b)].at
    BY <1>2
<1> QED BY <1>1, <1>2, <1>3 DEF Backed

\* Clone c claims nothing new.
HonestClone(c, prev) == Backed(c.disk, c, prev) /\ Backed(c.stash, c, prev)

LEMMA AbortedHonest ==
    ASSUME NEW c \in Clones, NEW prev, HonestClone(c, prev)
    PROVE  HonestClone(Aborted(c), prev)
<1>1. CASE ~c.rebasing
    BY <1>1 DEF Aborted
<1>2. CASE c.rebasing
    <2> DEFINE d == Aborted(c)
    <2>1. /\ d.branch = c.branch /\ d.stash = None
          /\ d.disk = IF c.stash = None THEN FileAt(c.branch) ELSE c.stash
        BY <1>2 DEF Aborted, Clones
    <2>2. Backed(d.disk, c, prev)
        BY <2>1, BackedBy DEF HonestClone
    <2>3. Backed(d.stash, c, prev)
        BY <2>1, BackedBy
    <2> HIDE DEF d
    <2>4. HonestClone(d, prev)
        BY <2>1, <2>2, <2>3, BackedStays DEF HonestClone
    <2> QED BY <2>4 DEF d
<1> QED BY <1>1, <1>2

LEMMA FetchedHonest ==
    ASSUME NEW c \in Clones, NEW m, NEW prev, HonestClone(c, prev)
    PROVE  /\ HonestClone(Fetched(c, m), prev)
           /\ HonestClone([Fetched(c, m) EXCEPT !.base = Published], prev)
<1> DEFINE d == Fetched(c, m)
           e == [d EXCEPT !.base = Published]
<1>1. /\ d.branch = c.branch /\ d.disk = c.disk /\ d.stash = c.stash
      /\ e.branch = c.branch /\ e.disk = c.disk /\ e.stash = c.stash
    BY DEF Fetched, Clones
<1> HIDE DEF d, e
<1>2. HonestClone(d, prev) /\ HonestClone(e, prev)
    BY <1>1, BackedStays DEF HonestClone
<1> QED BY <1>2 DEF d, e

\* With a commit on the branch, applying the autostash of a pull is unstaging.
LEMMA PulledHonest ==
    ASSUME NEW c \in Clones, NEW m, NEW prev, HonestClone(c, prev), c.branch # <<>>
    PROVE  HonestClone(Pulled(c, m), prev)
<1> DEFINE d == Unstashed(c)
<1>1. /\ d.branch = c.branch /\ d.disk = c.disk /\ d.stash = c.stash
      /\ d \in Clones
    BY UnstashedType DEF Unstashed, Clones
<1>2. HonestClone(d, prev)
    BY <1>1, BackedStays DEF HonestClone
<1> QED BY <1>1, <1>2, FetchedHonest DEF Pulled

LEMMA StalledHonest ==
    ASSUME NEW c \in Clones, NEW m, NEW prev, HonestClone(c, prev),
           NEW k \in 0..Len(c.branch),
           \A i, j \in 1..Len(c.branch) : i <= j => c.branch[i].at <= c.branch[j].at
    PROVE  HonestClone(Stalled(c, m, k), prev)
<1> DEFINE d == Stalled(c, m, k)
           b == c.branch
           f == FileAt(SubSeq(b, 1, k))
<1>1. /\ d.branch = b /\ d.disk = f /\ d.stash \in {None, c.disk}
    BY DEF Stalled, Fetched, Clones
<1>2. b \in Seq(Snapshots)
    BY DEF Clones
<1>3. Backed(f, c, prev)
    <2>1. CASE k = 0
        <3>1. f = Missing
            BY <1>2, <2>1 DEF FileAt
        <3> QED BY <3>1, BackedBy
    <2>2. CASE k # 0
        <3>1. f = b[k] /\ k \in 1..Len(b)
            BY <1>2, <2>2 DEF FileAt, Last
        <3> QED BY <1>2, <3>1, BackedOnBranch
    <2> QED BY <2>1, <2>2
<1>4. Backed(d.stash, c, prev)
    BY <1>1, BackedBy DEF HonestClone
<1> HIDE DEF d, f
<1>5. HonestClone(d, prev)
    BY <1>1, <1>3, <1>4, BackedStays DEF HonestClone
<1> QED BY <1>5 DEF d

LEMMA BrokenPullsHonest ==
    ASSUME TypeOK, NEW m \in Machines, NEW c \in Clones, NEW prev,
           HonestClone(c, prev), c.branch # <<>>,
           \A i, j \in 1..Len(c.branch) : i <= j => c.branch[i].at <= c.branch[j].at,
           NEW d \in BrokenPulls(c, m)
    PROVE  HonestClone(d, prev)
<1>1. Len(remote[m]) \in Nat /\ Len(c.branch) \in Nat
    BY HistoryTypes DEF Clones
<1>2. \A k \in Len(remote[m])..Len(c.branch) : k \in 0..Len(c.branch)
    BY <1>1
<1>3. \A k \in Len(remote[m])..Len(c.branch) : HonestClone(Stalled(c, m, k), prev)
    BY <1>2, StalledHonest
<1> QED BY <1>3, FetchedHonest, PulledHonest DEF BrokenPulls

\* What Honest says of one process.
HonestAt(p) ==
    LET c == clone[Home[p]]
        t == tick[p]
    IN  /\ pc[p] \in {"status", "revlist", "gate", "write"} \cup InSync =>
               HonestClone(c, t.prev)
        /\ pc[p] \in {"add", "commit"} => c.disk = t.snap

LEMMA StepHonest ==
    ASSUME TypeOK, SnapTyped, BranchOrdered, "abort" \notin Faulty, Unstuck,
           NEW p \in Procs, TickStep(p), PushableAt(p), HonestAt(p)
    PROVE  HonestAt(p)'
<1> DEFINE h == Home[p]
           c == clone[h]
           d == clone'[h]
           t == tick[p]
           u == tick'[p]
           Before == {"status", "revlist", "gate", "write"} \cup InSync
<1>0. /\ h \in Machines /\ c \in Clones /\ t \in Ticks
      /\ \A i, j \in 1..Len(c.branch) : i <= j => c.branch[i].at <= c.branch[j].at
    BY HomeIsMachine DEF TypeOK, BranchOrdered
<1>1. /\ \A label : Continue(p, label) => pc'[p] = label
      /\ \A result : Return(p, result) => pc'[p] = "idle"
    BY OwnEffects
<1>2. ASSUME NEW caller, CallSync(p, caller)
      PROVE  pc'[p] = "sync" /\ u.snap = t.snap /\ u.prev = t.prev
    BY <1>0, <1>1, <1>2 DEF CallSync, TypeOK, Ticks
<1>3. ASSUME Retry(p)
      PROVE  pc'[p] = "sync" /\ u.snap = t.snap /\ u.prev = t.prev
    BY <1>0, <1>1, <1>3 DEF Retry, TypeOK, Ticks
<1>4. ASSUME pc[p] \in Before, d = c, u.prev = t.prev, pc'[p] \in Before
      PROVE  HonestAt(p)'
    BY <1>4 DEF HonestAt, InSync
<1>5. CASE TickAbort(p) \/ TickPull(p) \/ TickClean(p) \/ Scan(p) \/ Restore(p)
    <2>1. pc'[p] \in {"tickPull", "tickClean", "scan", "build", "idle"}
        BY <1>1, <1>5 DEF TickAbort, TickPull, TickClean, Scan, Restore, AfterTickPull
    <2> QED BY <2>1 DEF HonestAt, InSync
<1>6. CASE Build(p)
    <2>1. CASE pc'[p] = "idle"
        BY <2>1 DEF HonestAt, InSync
    <2>2. CASE pc'[p] # "idle"
        <3>1. d = c /\ u.prev = c.disk /\ pc[p] = "build" /\ pc'[p] \in {"gate", "status"}
            BY <1>0, <1>1, <1>6, <2>2 DEF Build, TypeOK, Ticks
        <3>2. c.stash = None
            BY <1>0, <3>1 DEF Unstuck, InLock
        <3>3. HonestClone(c, c.disk)
            BY <3>2, BackedBy DEF HonestClone
        <3> QED BY <3>1, <3>3 DEF HonestAt, InSync
    <2> QED BY <2>1, <2>2
<1>7. CASE Status(p) \/ RevList(p) \/ Gate(p)
    <2>1. CASE pc'[p] = "idle"
        BY <2>1 DEF HonestAt, InSync
    <2>2. CASE pc'[p] # "idle"
        <3>1. /\ d = c /\ u.prev = t.prev
              /\ pc[p] \in Before /\ pc'[p] \in Before
            BY <1>1, <1>2, <1>7, <2>2 DEF Status, RevList, Gate, InSync
        <3> QED BY <1>4, <3>1
    <2> QED BY <2>1, <2>2
<1>8. CASE Write(p)
    <2>1. CASE SetClone(h, [c EXCEPT !.disk = t.snap]) /\ Continue(p, "add")
        <3>1. d = [c EXCEPT !.disk = t.snap]
            BY <2>1, OwnEffects
        <3>2. d.disk = t.snap /\ u = t /\ pc'[p] = "add"
            BY <1>0, <1>1, <1>8, <2>1, <3>1 DEF Write, Clones, Return, Continue
        <3> QED BY <3>2 DEF HonestAt, InSync
    <2>2. CASE Return(p, "failed")
        BY <1>1, <2>2 DEF HonestAt, InSync
    <2> QED BY <1>8, <2>1, <2>2 DEF Write
<1>9. CASE Add(p)
    <2>1. CASE pc'[p] = "commit"
        <3>1. pc[p] = "add" /\ u = t /\ \E f : SetClone(h, [c EXCEPT !.staged = f])
            BY <1>1, <1>9, <2>1 DEF Add
        <3>2. PICK f : d = [c EXCEPT !.staged = f]
            BY <3>1, OwnEffects
        <3>3. d.disk = c.disk
            BY <1>0, <3>2 DEF Clones
        <3> QED BY <2>1, <3>1, <3>3 DEF HonestAt, InSync
    <2>2. CASE pc'[p] = "restore"
        BY <2>2 DEF HonestAt, InSync
    <2> QED BY <1>1, <1>9, <2>1, <2>2 DEF Add
<1>10. CASE Commit(p)
    <2>1. CASE CallSync(p, "publish") /\ SetClone(h, Committed(c, t.snap))
        <3>1. pc[p] = "commit"
            BY <1>10 DEF Commit
        <3>2. ~c.rebasing /\ c.stash = None /\ c.disk = t.snap
            BY <1>0, <3>1 DEF Unstuck, InLock, HonestAt
        <3>3. d = Committed(c, t.snap)
            BY <2>1, OwnEffects
        <3>4. /\ d.branch = Append(c.branch, t.snap)
              /\ d.disk = t.snap /\ d.stash = None
            BY <1>0, <3>2, <3>3 DEF Committed, Clones
        <3>5. FileAt(d.branch) = t.snap
            BY <1>0, <3>4 DEF FileAt, Last, Clones
        <3>6. HonestClone(d, t.prev)
            BY <3>4, <3>5, BackedBy DEF HonestClone
        <3> QED BY <1>2, <2>1, <3>6 DEF HonestAt, InSync
    <2>2. CASE Continue(p, "restore")
        BY <1>1, <2>2 DEF HonestAt, InSync
    <2> QED BY <1>10, <2>1, <2>2 DEF Commit
<1>11. CASE Sync(p) \/ SyncPull(p) \/ SyncClean(p) \/ SyncQuit(p) \/ SyncPush(p)
    <2>1. pc[p] \in InSync /\ HonestClone(c, t.prev) /\ c.branch # <<>>
        BY <1>11 DEF Sync, SyncPull, SyncClean, SyncQuit, SyncPush, InSync,
                     HonestAt, PushableAt
    <2>2. CASE pc'[p] = "idle"
        BY <2>2 DEF HonestAt, InSync
    <2>3. CASE pc'[p] # "idle"
        <3>1. pc'[p] \in InSync \cup {"write"} /\ u.prev = t.prev
            BY <1>1, <1>3, <1>11, <2>3
               DEF Sync, SyncPull, SyncClean, SyncQuit, SyncPush, SyncDone, InSync
        <3>2. HonestClone(d, t.prev)
            <4>1. CASE AbortRuns(p)
                <5>1. d = Aborted(c)
                    BY <4>1, OwnEffects DEF AbortRuns
                <5> QED BY <1>0, <2>1, <5>1, AbortedHonest
            <4>2. CASE PullRuns(p)
                <5>1. d = Pulled(c, h)
                    BY <4>2, OwnEffects DEF PullRuns
                <5> QED BY <1>0, <2>1, <5>1, PulledHonest
            <4>3. CASE \E k : PullBreaks(p, k)
                <5>1. d = c \/ d \in BrokenPulls(c, h)
                    BY <4>3, OwnEffects DEF PullBreaks
                <5> QED BY <1>0, <2>1, <5>1, BrokenPullsHonest
            <4>4. CASE UNCHANGED clone
                BY <2>1, <4>4
            <4>5. CASE SetClone(h, [c EXCEPT !.tracked = Len(c.branch)])
                <5>1. d = [c EXCEPT !.tracked = Len(c.branch)]
                    BY <4>5, OwnEffects
                <5>2. d.branch = c.branch /\ d.disk = c.disk /\ d.stash = c.stash
                    BY <1>0, <5>1 DEF Clones
                <5> QED BY <2>1, <5>2, BackedStays DEF HonestClone
            <4>6. CASE Sync(p) \/ SyncClean(p) \/ SyncQuit(p)
                BY <4>1, <4>4, <4>6 DEF Sync, SyncClean, SyncQuit, AbortFails
            <4>7. CASE SyncPull(p)
                BY <4>2, <4>3, <4>4, <4>7 DEF SyncPull, PullRefused
            <4>8. CASE SyncPush(p)
                BY <4>4, <4>5, <4>8 DEF SyncPush
            <4> QED BY <1>11, <4>6, <4>7, <4>8
        <3> QED BY <3>1, <3>2 DEF HonestAt, InSync
    <2> QED BY <2>2, <2>3
<1> QED BY <1>5, <1>6, <1>7, <1>8, <1>9, <1>10, <1>11 DEF TickStep

LEMMA NextHonest ==
    ASSUME TypeOK, SnapTyped, LockHeld, BranchOrdered, "abort" \notin Faulty,
           Unstuck, Pushable, Honest, [Next]_vars
    PROVE  Honest'
<1>1. ASSUME NEW p \in Procs
      PROVE  HonestAt(p)'
    <2> DEFINE At == {"status", "revlist", "gate", "write", "add", "commit"} \cup InSync
    <2>1. PushableAt(p) /\ HonestAt(p)
        BY DEF Pushable, PushableAt, Covered, Honest, HonestAt, HonestClone
    <2>2. CASE TickStep(p)
        BY <2>1, <2>2, StepHonest
    <2>3. CASE ~TickStep(p) /\ pc'[p] \in At
        <3>1. pc'[p] \in InLock \ {"tickAbort"}
            BY <2>3 DEF InSync, InLock
        <3> QED BY <2>1, <2>3, <3>1, Undisturbed DEF HonestAt
    <2>4. CASE pc'[p] \notin At
        BY <2>4 DEF HonestAt
    <2> QED BY <2>2, <2>3, <2>4
<1> QED BY <1>1 DEF Honest, HonestAt, HonestClone
-------------------------------------------------------------------------------
(* The inductive invariant, and what it says of single steps.                *)

LEMMA InitTick == Init => Unstuck /\ Pushable /\ Honest
<1> SUFFICES ASSUME Init PROVE Unstuck /\ Pushable /\ Honest
    OBVIOUS
<1>1. \A m \in Machines : ~clone[m].rebasing /\ clone[m].stash = None
    BY DEF Init
<1>2. \A p \in Procs : pc[p] = "idle"
    BY DEF Init
<1> QED BY <1>1, <1>2, HomeIsMachine DEF Unstuck, Pushable, Honest, InSync, InLock

LEMMA InitIInv == Init => IInv
BY InitTypes, InitLock, InitHistory, InitBacklog, InitTick
   DEF IInv, TypeInv, HistoryInv

LEMMA NextIInv == IInv /\ [Next]_vars => IInv'
<1> SUFFICES ASSUME IInv, [Next]_vars PROVE IInv'
    OBVIOUS
<1>0. TypeInv /\ TypeOK /\ SnapTyped /\ LockHeld /\ HistoryInv
    BY DEF IInv, TypeInv, HistoryInv
<1>1. TypeOK' /\ SnapTyped'
    BY <1>0, NextTypes DEF TypeInv
<1>2. LockHeld'
    BY <1>0, NextLock
<1>3. Tracking' /\ RemoteIsPrefix' /\ BranchOrdered' /\ ScanIsLatest'
    BY <1>0, <1>1, NextTracking, NextPrefix, NextOrdered, NextLatest DEF HistoryInv
<1>4. ASSUME RemoteSeeded
      PROVE  GatePassed' /\ BacklogBounded'
    BY <1>0, <1>1, <1>4, NextGate, NextBacklog DEF IInv, HistoryInv
<1>5. ASSUME "abort" \notin Faulty
      PROVE  Unstuck' /\ Pushable' /\ Honest'
    BY <1>0, <1>5, NextUnstuck, NextPushable, NextHonest DEF IInv, HistoryInv
<1> QED BY <1>1, <1>2, <1>3, <1>4, <1>5 DEF IInv

\* All of the above, and what a tick knows of its scan and of the file on disk at
\* every label, hold in every state that can be reached.
THEOREM InvariantCorrect == Spec => []IInv
BY InitIInv, NextIInv, PTL DEF Spec

\* Only the process itself ends its tick, and only a tick that has found nothing
\* to push or has pushed ends well.
LEMMA EndsWell ==
    ASSUME TypeOK, [Next]_vars, NEW p \in Procs, outcome[p] # "ok", outcome'[p] = "ok"
    PROVE  RevList(p) \/ SyncPush(p)
<1>0. outcome \in [Procs -> Outcomes]
    BY DEF TypeOK
<1>1. CASE UNCHANGED vars \/ Clock \/ \E m \in Machines : Work(m) \/ View(m)
    BY <1>1 DEF vars, Clock, Work, View, ViewLock, ViewPull
<1>2. ASSUME NEW q \in Procs,
             \/ Start(q) \/ Acquire(q) \/ GiveUp(q) \/ Deadline(q) \/ Restart(q)
             \/ Crash(q)
      PROVE  FALSE
    BY <1>0, <1>2 DEF Start, Acquire, GiveUp, Deadline, Restart, Crash
<1>3. ASSUME NEW q \in Procs, TickStep(q), q # p
      PROVE  FALSE
    BY <1>0, <1>3, TickStepShape DEF Continue, Return
<1>4. ASSUME TickStep(p), ~RevList(p), ~SyncPush(p)
      PROVE  FALSE
    <2>1. /\ \A label : ~Continue(p, label)
          /\ \A result : Return(p, result) => result = "ok"
        BY OwnEffects
    <2>2. ~AfterTickPull(p)
        BY <2>1 DEF AfterTickPull
    <2>3. CASE \/ TickAbort(p) \/ TickPull(p) \/ TickClean(p) \/ Scan(p)
               \/ Build(p) \/ Status(p) \/ Gate(p)
        BY <2>1, <2>2, <2>3 DEF TickAbort, TickPull, TickClean, Scan, Build, Status,
                                Gate, CallSync
    <2>4. CASE Write(p) \/ Add(p) \/ Commit(p) \/ Restore(p)
        BY <2>1, <2>4 DEF Write, Add, Commit, Restore, CallSync
    <2>5. CASE Sync(p) \/ SyncPull(p) \/ SyncClean(p) \/ SyncQuit(p)
        BY <2>1, <2>5 DEF Sync, SyncPull, SyncClean, SyncQuit, Retry
    <2> QED BY <1>4, <2>3, <2>4, <2>5 DEF TickStep
<1> QED BY <1>1, <1>2, <1>3, <1>4 DEF Next, Step, TickStep

\* What covers a scan reports it and is not a heartbeat old.
LEMMA CoveredMeans ==
    ASSUME NEW b, NEW s, Covered(b, s), b \in Seq(Snapshots), s \in Snapshots
    PROVE  b # <<>> /\ Last(b).content = s.content /\ s.at - Last(b).at < Heartbeat
<1>1. Last(b) \in Snapshots /\ b # <<>>
    BY DEF Covered, NeedsCommit
<1>2. Last(b).at \in Nat /\ s.at \in Nat /\ Heartbeat \in Nat
    BY <1>1, BoundsAreNaturals DEF Snapshots
<1> QED BY <1>1, <1>2 DEF Covered, NeedsCommit

\* A tick that returns nil leaves its scan on the remote.
LEMMA StepPublishes ==
    ASSUME IInv, "abort" \notin Faulty, [Next]_vars,
           NEW p \in Procs, outcome[p] # "ok", outcome'[p] = "ok"
    PROVE  LET r == remote'[Home[p]]
               s == tick[p].snap
           IN  /\ r # <<>> /\ Last(r).content = s.content
               /\ s.at - Last(r).at < Heartbeat
<1> DEFINE h == Home[p]
           c == clone[h]
           b == c.branch
           s == tick[p].snap
<1>1. /\ TypeOK /\ SnapTyped /\ Tracking /\ RemoteIsPrefix /\ Unstuck /\ PushableAt(p)
      /\ h \in Machines
    BY HomeIsMachine DEF IInv, Pushable, PushableAt, Covered
<1>2. /\ \A label : ~Continue(p, label)
      /\ \A result : Return(p, result) => result = "ok"
    BY <1>1, OwnEffects
<1>3. ~CallSync(p, "flush") /\ ~Retry(p)
    BY <1>2 DEF CallSync, Retry
<1>4. b \in Seq(Snapshots) /\ remote[h] \in Seq(Snapshots)
    BY <1>1, HistoryTypes
<1>5. CASE RevList(p)
    <2>1. pc[p] = "revlist" /\ remote' = remote
        BY <1>5 DEF RevList
    <2>2. ~c.rebasing /\ Covered(b, s) /\ s \in Snapshots
        BY <1>1, <2>1, Names DEF Unstuck, InLock, PushableAt, SnapTyped
    <2>3. Ahead(c) = 0
        BY <1>2, <1>3, <1>5, <2>2 DEF RevList
    <2>4. Len(remote[h]) = Len(b)
        BY <1>1, <2>3, HistoryTypes DEF Tracking, Ahead
    <2>5. remote[h] = b
        BY <1>1, <1>4, <2>4 DEF RemoteIsPrefix
    <2> QED BY <1>4, <2>1, <2>2, <2>5, CoveredMeans
<1>6. CASE SyncPush(p)
    <2>1. pc[p] = "syncPush" /\ remote' = Landed(h) /\ tick[p].caller # "gate"
        BY <1>2, <1>3, <1>6 DEF SyncPush, SyncDone
    <2>2. Covered(b, s) /\ s \in Snapshots
        BY <1>1, <2>1, Names DEF PushableAt, InSync, SnapTyped, Stamped, InLock
    <2>3. remote'[h] = b
        BY <1>1, <2>1 DEF Landed
    <2> QED BY <1>4, <2>2, <2>3, CoveredMeans
<1> QED BY <1>1, <1>5, <1>6, EndsWell

\* As long as git rebase --abort works, a tick of which runAgentTick says that
\* it published has its scan on the remote, in whatever order ticks, viewers,
\* crashes and other machines' pushes come.
THEOREM NilCorrect ==
    ASSUME "abort" \notin Faulty
    PROVE  Spec => NilMeansPublished
<1>1. IInv /\ [Next]_vars =>
        [\A p \in Procs :
           outcome[p] # "ok" /\ outcome'[p] = "ok" =>
              LET r == remote'[Home[p]]
                  s == tick[p].snap
              IN  /\ r # <<>>
                  /\ Last(r).content = s.content
                  /\ s.at - Last(r).at < Heartbeat]_vars
    BY StepPublishes
<1> QED BY <1>1, InvariantCorrect, PTL DEF Spec, NilMeansPublished

\* A tick that has its scan fails by a step of its own.
LEMMA FailsByItself ==
    ASSUME TypeOK, LockHeld, [Next]_vars, NEW p \in Procs, pc[p] \in Stamped,
           pc'[p] = "idle", outcome'[p] = "failed"
    PROVE  TickStep(p)
<1>0. pc \in [Procs -> Labels] /\ pc[p] # "idle" /\ pc[p] \in InLock
    BY Names DEF TypeOK
<1>1. CASE UNCHANGED vars \/ Clock \/ \E m \in Machines : Work(m) \/ View(m)
    BY <1>0, <1>1 DEF vars, Clock, Work, View, ViewLock, ViewPull
<1>2. ASSUME NEW q \in Procs, TickStep(q), q # p
      PROVE  FALSE
    BY <1>0, <1>2, TickStepShape DEF Continue, Return, Goto
<1>3. ASSUME NEW q \in Procs,
             \/ Start(q) \/ Acquire(q) \/ GiveUp(q) \/ Deadline(q) \/ Restart(q)
             \/ Crash(q)
      PROVE  FALSE
    BY <1>0, <1>3, Names DEF Start, Acquire, GiveUp, Deadline, Restart, Crash, Goto
<1> QED BY <1>1, <1>2, <1>3 DEF Next, Step, TickStep

\* The file claims no later scan than f.
Claims(disk, f) == f \in Snapshots /\ disk.at <= f.at

LEMMA StepClaims ==
    ASSUME IInv, "abort" \notin Faulty, [Next]_vars, NEW p \in Procs,
           pc[p] \in Stamped, pc'[p] = "idle", outcome'[p] = "failed",
           clone'[Home[p]].disk \in Snapshots
    PROVE  LET c == clone'[Home[p]]
           IN  \/ Claims(c.disk, FileAt(c.branch)) \/ Claims(c.disk, tick[p].prev)
               \/ pc[p] = "restore" /\ faults' # faults
<1> DEFINE h == Home[p]
           c == clone[h]
           d == clone'[h]
           t == tick[p]
<1>1. /\ TypeOK /\ LockHeld /\ BranchOrdered /\ Unstuck /\ HonestAt(p)
      /\ h \in Machines /\ c \in Clones
    BY HomeIsMachine DEF IInv, Honest, HonestAt, HonestClone, TypeOK
<1>2. TickStep(p)
    BY <1>1, FailsByItself
<1>3. ASSUME Backed(d.disk, d, t.prev)
      PROVE  Claims(d.disk, FileAt(d.branch)) \/ Claims(d.disk, t.prev)
    BY <1>3 DEF Backed, Claims
<1>4. \A label : Continue(p, label) => label = "idle"
    BY <1>1, OwnEffects
<1>5. CASE Status(p) \/ RevList(p)
    <2>1. d = c /\ pc[p] \in {"status", "revlist"}
        BY <1>5 DEF Status, RevList
    <2> QED BY <1>1, <1>3, <2>1 DEF HonestAt, HonestClone
<1>6. CASE Write(p)
    <2>1. pc[p] = "write" /\ DamagedFile(p)
        BY <1>4, <1>6 DEF Write
    <2>2. PICK f \in {c.disk, Corrupt} : SetClone(h, [c EXCEPT !.disk = f])
        BY <2>1 DEF DamagedFile
    <2>3. d = [c EXCEPT !.disk = f]
        BY <1>1, <2>2, OwnEffects
    <2>4. d.disk = f /\ d.branch = c.branch
        BY <1>1, <2>3 DEF Clones
    <2>5. d.disk = c.disk
        BY <2>4, MarkersAreDistinct
    <2>6. Backed(c.disk, c, t.prev)
        BY <1>1, <2>1 DEF HonestAt, HonestClone
    <2> QED BY <1>3, <2>4, <2>5, <2>6, BackedStays
<1>7. CASE Restore(p)
    <2>1. CASE SetClone(h, [c EXCEPT !.disk = Restored(t)])
        <3>1. d = [c EXCEPT !.disk = Restored(t)]
            BY <1>1, <2>1, OwnEffects
        <3>2. d.disk = Restored(t)
            BY <1>1, <3>1 DEF Clones
        <3>3. d.disk = t.prev
            BY <3>2, MarkersAreDistinct DEF Restored
        <3>4. d.disk.at <= d.disk.at
            BY DEF Snapshots
        <3> QED BY <3>3, <3>4 DEF Claims
    <2>2. CASE Fail("restore") /\ pc[p] = "restore"
        <3>1. faults \in Nat /\ faults' = faults + 1
            BY <1>1, <2>2 DEF Fail, TypeOK
        <3> QED BY <2>2, <3>1
    <2> QED BY <1>7, <2>1, <2>2 DEF Restore
<1>8. CASE Sync(p) \/ SyncClean(p) \/ SyncQuit(p) \/ SyncPush(p)
    <2>1. pc[p] \in InSync
        BY <1>8 DEF Sync, SyncClean, SyncQuit, SyncPush, InSync
    <2>2. HonestClone(c, t.prev)
        BY <1>1, <2>1 DEF HonestAt
    <2>3. ~SyncDone(p)
        <3>1. ~Return(p, "ok")
            BY <1>1, OwnEffects
        <3> QED BY <1>4, <3>1 DEF SyncDone
    <2>4. UNCHANGED clone \/ AbortRuns(p)
        BY <1>8, <2>3 DEF Sync, SyncClean, SyncQuit, SyncPush, AbortFails
    <2>5. d = c \/ d = Aborted(c)
        BY <1>1, <2>4, OwnEffects DEF AbortRuns
    <2>6. HonestClone(d, t.prev)
        BY <1>1, <2>2, <2>5, AbortedHonest
    <2> QED BY <1>3, <2>6 DEF HonestClone
<1>9. ASSUME \/ TickAbort(p) \/ TickPull(p) \/ TickClean(p) \/ Scan(p) \/ Build(p)
             \/ Gate(p) \/ Add(p) \/ Commit(p) \/ SyncPull(p)
      PROVE  FALSE
    <2>1. pc[p] \notin {"tickAbort", "tickPull", "tickClean", "scan", "build"}
        BY DEF Stamped
    <2>2. CASE TickAbort(p) \/ TickPull(p) \/ TickClean(p) \/ Scan(p) \/ Build(p)
        BY <2>1, <2>2 DEF TickAbort, TickPull, TickClean, Scan, Build
    <2>3. CASE Gate(p) \/ Add(p) \/ Commit(p) \/ SyncPull(p)
        BY <1>4, <2>3 DEF Gate, Add, Commit, SyncPull, CallSync
    <2> QED BY <1>9, <2>2, <2>3
<1> QED BY <1>2, <1>5, <1>6, <1>7, <1>8, <1>9 DEF TickStep

\* As long as git rebase --abort works, a tick that fails leaves no file behind
\* that is later than what is committed and than what it found, unless the
\* restore of that file failed as well.
THEOREM FreshnessCorrect ==
    ASSUME "abort" \notin Faulty
    PROVE  Spec => FreshnessClock
<1>1. IInv /\ [Next]_vars =>
        [\A p \in Procs :
           LET c == clone'[Home[p]]
               claims(f) == f \in Snapshots /\ c.disk.at <= f.at
           IN  /\ pc[p] \in Stamped /\ pc'[p] = "idle" /\ outcome'[p] = "failed"
               /\ c.disk \in Snapshots
               => \/ claims(FileAt(c.branch)) \/ claims(tick[p].prev)
                  \/ pc[p] = "restore" /\ faults' # faults]_vars
    BY StepClaims DEF Claims
<1> QED BY <1>1, InvariantCorrect, PTL DEF Spec, FreshnessClock
-------------------------------------------------------------------------------
(* KilledGit: the histories survive commands that outlive the process that  *)
(* started them.  A step is a step of StateSync, the end of a late command,  *)
(* or a refusal.                                                             *)

\* History b is history a, perhaps with snapshots added.
Extends(a, b) == Len(a) <= Len(b) /\ \A i \in 1..Len(a) : a[i] = b[i]

LEMMA ExtendsTransitive ==
    ASSUME NEW a \in Seq(Snapshots), NEW b \in Seq(Snapshots),
           NEW c \in Seq(Snapshots), Extends(a, b), Extends(b, c)
    PROVE  Extends(a, c)
<1>1. Len(a) \in Nat /\ Len(b) \in Nat /\ Len(c) \in Nat
    OBVIOUS
<1> QED BY <1>1 DEF Extends

\* A branch only grows.
LEMMA BranchGrows ==
    ASSUME TypeOK, [Next]_vars, NEW m \in Machines
    PROVE  Extends(clone[m].branch, clone'[m].branch)
<1> DEFINE b == clone[m].branch
<1>1. b \in Seq(Snapshots) /\ Len(b) \in Nat
    BY HistoryTypes
<1>2. CASE clone'[m].branch = b
    BY <1>1, <1>2 DEF Extends
<1>3. ASSUME NEW s, clone'[m].branch = Append(b, s)
      PROVE  Extends(b, clone'[m].branch)
    BY <1>1, <1>3 DEF Extends
<1> QED BY <1>2, <1>3, HistoryStep

\* An orphan that is None or a command begins with a clone.
LEMMA OrphanType ==
    ASSUME KilledTypeOK, NEW m \in Machines, orphan[m] # None
    PROVE  /\ orphan[m] \in Orphans /\ orphan[m].was \in Clones
           /\ orphan[m].was.branch \in Seq(Snapshots)
BY DEF KilledTypeOK, Orphans, Clones
-------------------------------------------------------------------------------
(* The steps that are not steps of StateSync.                                *)

\* What happens to the clone of machine m when no publisher commits or pushes.
QuietHistory ==
    /\ UNCHANGED <<remote, now>>
    /\ \A m \in Machines : Keeps(clone[m], clone'[m], m)

LEMMA QuietHistoryKept ==
    ASSUME TypeOK, HistoryKept, QuietHistory
    PROVE  HistoryKept'
<1>1. \A m \in Machines : clone'[m].branch = clone[m].branch
    BY DEF QuietHistory, Keeps
<1>2. RemoteIsPrefix' /\ BranchOrdered'
    BY <1>1 DEF QuietHistory, HistoryKept, RemoteIsPrefix, BranchOrdered
<1>3. ASSUME NEW m \in Machines
      PROVE  /\ clone'[m].tracked <= Len(remote'[m])
             /\ Len(remote'[m]) <= Len(clone'[m].branch)
    BY HistoryTypes DEF QuietHistory, Keeps, HistoryKept, Tracking
<1> QED BY <1>2, <1>3 DEF HistoryKept, Tracking

\* A late pull, of a publisher or a viewer, leaves a clone with its history.
LEMMA LatePullKeeps ==
    ASSUME TypeOK, NEW m \in Machines, NEW was,
           NEW c \in ViewPulls(clone[m], m) \cup LatePulls(m, was), SetClone(m, c)
    PROVE  /\ clone' \in [Machines -> Clones]
           /\ \A q \in Machines : Keeps(clone[q], clone'[q], q)
<1>1. clone[m] \in Clones /\ clone \in [Machines -> Clones]
    BY DEF TypeOK
<1>2. c \in Clones
    BY <1>1, ViewPullsType, BrokenPullsType, FetchedType DEF LatePulls
<1>3. Keeps(clone[m], c, m) /\ \A q \in Machines : Keeps(clone[q], clone[q], q)
    <2>1. \A q \in Machines : Keeps(clone[q], clone[q], q)
        BY DEF Keeps
    <2> QED BY <1>1, <2>1, ViewPullsKeep, BrokenPullsKeep, FetchedKeeps DEF LatePulls
<1> QED BY <1>1, <1>2, <1>3 DEF SetClone

\* A late push that is accepted publishes what was on the branch, and takes
\* nothing away.
LEMMA LatePushStep ==
    ASSUME KilledInv, NEW m \in Machines, orphan[m] # None,
           LatePushLands(m, orphan[m].was), remote' = LateBranch(m, orphan[m].was)
    PROVE  /\ remote' \in [Machines -> Seq(Snapshots)]
           /\ \A q \in Machines \ {m} : remote'[q] = remote[q]
           /\ Extends(remote[m], remote'[m])
           /\ Extends(remote'[m], clone[m].branch)
<1> DEFINE was == orphan[m].was
<1>1. /\ TypeOK /\ was \in Clones /\ was.branch \in Seq(Snapshots)
      /\ clone[m].branch \in Seq(Snapshots) /\ remote[m] \in Seq(Snapshots)
    BY OrphanType, HistoryTypes DEF KilledInv, KilledTypeOK
<1>2. ASSUME NEW q \in Machines \ {m}
      PROVE  remote'[q] = remote[q] /\ remote[q] \in Seq(Snapshots)
    <2>1. was.base[q] = Len(remote[q]) /\ remote[q] \in Seq(Snapshots)
        BY <1>1, HistoryTypes DEF LatePushLands
    <2>2. SubSeq(remote[q], 1, Len(remote[q])) = remote[q]
        BY <2>1
    <2> QED BY <2>1, <2>2 DEF LateBranch
<1>3. remote'[m] = was.branch
    BY DEF LateBranch
<1>4. Extends(was.branch, clone[m].branch)
    BY DEF KilledInv, LateIsOld, Extends
<1>5. Extends(remote[m], was.branch)
    <2>1. Len(remote[m]) <= Len(was.branch)
        BY DEF LatePushLands
    <2>2. \A i \in 1..Len(remote[m]) : remote[m][i] = clone[m].branch[i]
        BY DEF KilledInv, HistoryKept, RemoteIsPrefix
    <2>3. Len(remote[m]) \in Nat /\ Len(was.branch) \in Nat
        BY <1>1
    <2> QED BY <1>4, <2>1, <2>2, <2>3 DEF Extends
<1>6. remote' \in [Machines -> Seq(Snapshots)]
    <2>1. \A q \in Machines : remote'[q] \in Seq(Snapshots)
        BY <1>1, <1>2, <1>3
    <2>2. DOMAIN remote' = Machines /\ remote' = [q \in Machines |-> remote'[q]]
        BY DEF LateBranch
    <2> QED BY <2>1, <2>2
<1> QED BY <1>2, <1>3, <1>4, <1>5, <1>6

LEMMA LatePushKept ==
    ASSUME KilledInv, NEW m \in Machines, orphan[m] # None,
           LatePushLands(m, orphan[m].was), remote' = LateBranch(m, orphan[m].was),
           UNCHANGED <<clone, now>>
    PROVE  HistoryKept'
<1>1. TypeOK /\ Tracking /\ RemoteIsPrefix /\ BranchOrdered
    BY DEF KilledInv, KilledTypeOK, HistoryKept
<1>2. /\ remote' \in [Machines -> Seq(Snapshots)]
      /\ \A q \in Machines \ {m} : remote'[q] = remote[q]
      /\ Extends(remote[m], remote'[m])
      /\ Extends(remote'[m], clone[m].branch)
    BY LatePushStep
<1>3. BranchOrdered'
    BY <1>1 DEF BranchOrdered
<1>4. ASSUME NEW q \in Machines
      PROVE  /\ clone[q].tracked <= Len(remote'[q])
             /\ Len(remote'[q]) <= Len(clone[q].branch)
             /\ \A i \in 1..Len(remote'[q]) : remote'[q][i] = clone[q].branch[i]
    <2>1. CASE q # m
        BY <1>1, <1>2, <2>1 DEF Tracking, RemoteIsPrefix
    <2>2. CASE q = m
        <3>1. clone[m].tracked \in Nat /\ Len(remote[m]) \in Nat /\ Len(remote'[m]) \in Nat
            BY <1>1, <1>2, HistoryTypes
        <3> QED BY <1>1, <1>2, <2>2, <3>1 DEF Tracking, Extends
    <2> QED BY <2>1, <2>2
<1> QED BY <1>3, <1>4 DEF HistoryKept, Tracking, RemoteIsPrefix

\* A viewer that is killed frees its lock and changes nothing else here.
LEMMA ViewerStep ==
    ASSUME KilledInv, NEW m \in Machines, KillViewer(m)
    PROVE  /\ TypeOK' /\ SnapTyped' /\ LockHeld' /\ HistoryKept' /\ ScanIsLatest'
           /\ UNCHANGED <<clone, remote>>
<1>1. /\ TypeOK /\ SnapTyped /\ LockHeld /\ HistoryKept /\ ScanIsLatest
      /\ UNCHANGED <<now, world, remote, clone, pc, ctxDone, tick, outcome, faults,
                     blind>>
      /\ lock[m] = Viewer /\ lock' = [lock EXCEPT ![m] = None]
    BY DEF KillViewer, KilledInv, KilledTypeOK
<1>2. TypeOK' /\ SnapTyped' /\ ScanIsLatest'
    BY <1>1 DEF TypeOK, SnapTyped, ScanIsLatest
<1>3. LockHeld'
    BY <1>1, HomeIsMachine, MarkersAreDistinct DEF LockHeld, TypeOK
<1>4. HistoryKept'
    BY <1>1 DEF HistoryKept, Tracking, RemoteIsPrefix, BranchOrdered
<1> QED BY <1>1, <1>2, <1>3, <1>4

\* A late command changes its machine's clone as a pull does, or the remote as a
\* push does.
LEMMA LateStep ==
    ASSUME KilledInv, NEW m \in Machines, OrphanEnds(m)
    PROVE  /\ TypeOK' /\ SnapTyped' /\ LockHeld' /\ HistoryKept' /\ ScanIsLatest'
           /\ \A q \in Machines : clone'[q].branch = clone[q].branch
<1>1. /\ TypeOK /\ SnapTyped /\ LockHeld /\ HistoryKept /\ ScanIsLatest
      /\ UNCHANGED <<now, world, lock, pc, ctxDone, tick, outcome, faults, blind>>
    BY DEF OrphanEnds, KilledInv, KilledTypeOK
<1>2. /\ clone' \in [Machines -> Clones] /\ remote' \in [Machines -> Seq(Snapshots)]
      /\ HistoryKept'
      /\ \A q \in Machines : clone'[q].branch = clone[q].branch
    <2>1. CASE UNCHANGED <<remote, clone>>
        BY <1>1, <2>1
           DEF TypeOK, HistoryKept, Tracking, RemoteIsPrefix, BranchOrdered
    <2>2. CASE /\ UNCHANGED remote
               /\ \E c \in ViewPulls(clone[m], m) \cup LatePulls(m, orphan[m].was) :
                     SetClone(m, c)
        <3>1. /\ clone' \in [Machines -> Clones]
              /\ \A q \in Machines : Keeps(clone[q], clone'[q], q)
            BY <1>1, <2>2, LatePullKeeps
        <3>2. QuietHistory
            BY <1>1, <2>2, <3>1 DEF QuietHistory
        <3> QED BY <1>1, <2>2, <3>1, <3>2, QuietHistoryKept DEF TypeOK, Keeps
    <2>3. CASE /\ LatePushLands(m, orphan[m].was) /\ orphan[m] # None
               /\ remote' = LateBranch(m, orphan[m].was)
               /\ UNCHANGED clone
        BY <1>1, <2>3, LatePushStep, LatePushKept DEF TypeOK
    <2> QED BY <2>1, <2>2, <2>3 DEF OrphanEnds
<1>3. TypeOK' /\ SnapTyped' /\ LockHeld'
    BY <1>1, <1>2 DEF TypeOK, SnapTyped, LockHeld
<1>4. ScanIsLatest'
    BY <1>1, <1>2, HomeIsMachine DEF ScanIsLatest
<1> QED BY <1>2, <1>3, <1>4

\* A command that finds index.lock is one the tick goes on or ends without.
LEMMA RefusedShape ==
    ASSUME NEW p \in Procs, Refused(p)
    PROVE  /\ pc[p] \in InLock /\ UNCHANGED <<remote, clone, faults, blind, killedVars>>
           /\ \/ /\ \E label \in InLock :
                        /\ Continue(p, label)
                        /\ label \in Stamped \cup {"build"} => pc[p] \in Stamped
                 /\ UNCHANGED tick
              \/ Retry(p) /\ pc[p] \in Stamped
              \/ Return(p, "failed")
BY DEF Refused, AfterTickPull, InLock, Stamped

LEMMA RefusedStep ==
    ASSUME KilledInv, NEW p \in Procs, Refused(p)
    PROVE  TypeOK' /\ SnapTyped' /\ LockHeld' /\ HistoryKept' /\ ScanIsLatest'
<1>1. /\ TypeInv /\ ProcsOK /\ DataOK /\ LockHeld /\ HistoryKept /\ ScanIsLatest
      /\ TypeOK
    BY TypeInvSplit DEF KilledInv, KilledTypeOK, TypeInv
<1>2. /\ pc[p] \in InLock /\ UNCHANGED <<remote, clone, faults, blind>>
    BY RefusedShape
<1>3. ProcsOK' /\ UNCHANGED <<now, world>>
    BY <1>1, RefusedShape, ContinueType, RetryType, ReturnType, Names
<1>4. TypeInv'
    BY <1>1, <1>2, <1>3, TypeInvNext DEF DataOK
<1>5. LockHeld'
    <2>1. CASE \E label \in InLock : Continue(p, label)
        BY <1>1, <1>2, <2>1 DEF Continue, Goto, LockHeld, TypeOK
    <2>2. CASE Return(p, "failed")
        <3>1. /\ pc' = [pc EXCEPT ![p] = "idle"]
              /\ lock' = [lock EXCEPT ![Home[p]] = None] /\ lock[Home[p]] = p
            BY <1>1, <1>2, <2>2 DEF Return, Goto, LockHeld
        <3> QED BY <1>1, <3>1, Names, HomeIsMachine DEF LockHeld, TypeOK
    <2>3. CASE Retry(p)
        <3>1. Continue(p, "sync")
            BY <2>3 DEF Retry
        <3> QED BY <2>1, <3>1 DEF InLock
    <2> QED BY <2>1, <2>2, <2>3, RefusedShape
<1>6. HistoryKept'
    BY <1>1, <1>2, <1>3 DEF HistoryKept, Tracking, RemoteIsPrefix, BranchOrdered
<1>7. ASSUME NEW q \in Procs, pc'[q] \in Stamped
      PROVE  pc[q] \in Stamped /\ tick'[q].snap = tick[q].snap
    <2>1. CASE \E label : Continue(p, label) /\ UNCHANGED tick
                          /\ (label \in Stamped => pc[p] \in Stamped)
        BY <1>1, <1>7, <2>1 DEF Continue, Goto, TypeOK
    <2>2. CASE Retry(p) /\ pc[p] \in Stamped
        BY <1>1, <1>7, <2>2 DEF Retry, Continue, Goto, TypeOK, Ticks
    <2>3. CASE Return(p, "failed")
        BY <1>1, <1>7, <2>3, Names DEF Return, Goto, TypeOK
    <2> QED BY <2>1, <2>2, <2>3, RefusedShape
<1>8. ScanIsLatest'
    BY <1>1, <1>2, <1>3, <1>7 DEF ScanIsLatest
<1> QED BY <1>4, <1>5, <1>6, <1>8 DEF TypeInv
-------------------------------------------------------------------------------
(* The invariant.                                                            *)

\* What a step does to the commands that outlived their parents.
LEMMA OrphanStep ==
    ASSUME KilledTypeOK, [KilledNext]_allVars
    PROVE  /\ orphan' \in [Machines -> Orphans \cup {None}]
           /\ indexLock' \in [Machines -> BOOLEAN] /\ kills' \in 0..MaxKills
           /\ \A m \in Machines : \/ orphan'[m] \in {orphan[m], None}
                                  \/ orphan'[m].was = clone[m]
<1> USE DEF KilledTypeOK
<1>0. clone \in [Machines -> Clones]
    BY DEF TypeOK
<1>1. CASE UNCHANGED killedVars
    BY <1>1 DEF killedVars
<1>2. ASSUME NEW what, Kill(what)
      PROVE  kills' \in 0..MaxKills
    BY <1>2, KilledAssumption DEF Kill
<1>3. ASSUME NEW m \in Machines, NEW cmd \in {"view", "pull", "push"}, Orphaned(m, cmd)
      PROVE  /\ orphan' \in [Machines -> Orphans \cup {None}]
             /\ indexLock' \in [Machines -> BOOLEAN]
             /\ \A q \in Machines : orphan'[q] = orphan[q] \/ orphan'[q].was = clone[q]
    <2>1. [cmd |-> cmd, was |-> clone[m]] \in Orphans
        BY <1>0 DEF Orphans
    <2> QED BY <1>3, <2>1 DEF Orphaned
<1>4. ASSUME NEW m \in Machines, KillViewer(m)
      PROVE  /\ orphan' \in [Machines -> Orphans \cup {None}]
             /\ indexLock' \in [Machines -> BOOLEAN] /\ kills' \in 0..MaxKills
             /\ \A q \in Machines : orphan'[q] = orphan[q] \/ orphan'[q].was = clone[q]
    BY <1>2, <1>3, <1>4 DEF KillViewer
<1>5. ASSUME NEW p \in Procs, KillPublisher(p)
      PROVE  /\ orphan' \in [Machines -> Orphans \cup {None}]
             /\ indexLock' \in [Machines -> BOOLEAN] /\ kills' \in 0..MaxKills
             /\ \A q \in Machines : orphan'[q] = orphan[q] \/ orphan'[q].was = clone[q]
    BY <1>2, <1>3, <1>5, HomeIsMachine DEF KillPublisher
<1>6. ASSUME NEW p \in Procs, KillCommand(p)
      PROVE  /\ indexLock' \in [Machines -> BOOLEAN] /\ kills' \in 0..MaxKills
             /\ orphan' = orphan
    BY <1>2, <1>6, HomeIsMachine DEF KillCommand
<1>7. ASSUME NEW m \in Machines, OrphanEnds(m)
      PROVE  /\ orphan' = [orphan EXCEPT ![m] = None]
             /\ UNCHANGED <<indexLock, kills>>
    BY <1>7 DEF OrphanEnds
<1>8. ASSUME NEW p \in Procs, Refused(p)
      PROVE  UNCHANGED killedVars
    BY <1>8, RefusedShape
<1>9. CASE AtWork \/ UNCHANGED allVars
    BY <1>1, <1>9 DEF AtWork, allVars
<1> QED BY <1>1, <1>4, <1>5, <1>6, <1>7, <1>8, <1>9 DEF KilledNext

\* The other steps are steps of StateSync.
LEMMA KilledCases ==
    ASSUME [KilledNext]_allVars
    PROVE  \/ [Next]_vars
           \/ \E m \in Machines : KillViewer(m) \/ OrphanEnds(m)
           \/ \E p \in Procs : Refused(p)
BY DEF KilledNext, AtWork, KillPublisher, KillCommand, Next, allVars

LEMMA NextKilled ==
    ASSUME KilledInv, [KilledNext]_allVars
    PROVE  /\ KilledInv'
           /\ \A m \in Machines : Extends(clone[m].branch, clone'[m].branch)
<1>0. /\ KilledTypeOK /\ TypeOK /\ TypeInv /\ LockHeld /\ HistoryKept
      /\ HistoryInv /\ ScanIsLatest /\ SnapTyped
    BY DEF KilledInv, KilledTypeOK, TypeInv, HistoryKept, HistoryInv
<1> DEFINE P == /\ TypeOK' /\ SnapTyped' /\ LockHeld' /\ HistoryKept' /\ ScanIsLatest'
                /\ \A m \in Machines : Extends(clone[m].branch, clone'[m].branch)
<1>1. \A m \in Machines : clone[m].branch \in Seq(Snapshots)
    BY <1>0, HistoryTypes
<1>2. ASSUME [Next]_vars
      PROVE  P
    <2>1. TypeInv'
        BY <1>0, <1>2, NextTypes
    <2>2. LockHeld' /\ Tracking' /\ RemoteIsPrefix' /\ BranchOrdered'
        BY <1>0, <1>2, NextLock, NextTracking, NextPrefix, NextOrdered DEF HistoryInv
    <2>3. ScanIsLatest'
        BY <1>0, <1>2, <2>1, NextLatest DEF TypeInv, HistoryInv
    <2>4. \A m \in Machines : Extends(clone[m].branch, clone'[m].branch)
        BY <1>0, <1>2, BranchGrows
    <2>5. TypeOK' /\ SnapTyped' /\ HistoryKept'
        BY <2>1, <2>2 DEF TypeInv, HistoryKept
    <2> QED BY <2>2, <2>3, <2>4, <2>5
<1>3. ASSUME UNCHANGED clone
      PROVE  \A m \in Machines : Extends(clone[m].branch, clone'[m].branch)
    BY <1>1, <1>3 DEF Extends
<1>4. ASSUME NEW m \in Machines, KillViewer(m)
      PROVE  P
    BY <1>3, <1>4, ViewerStep
<1>5. ASSUME NEW m \in Machines, OrphanEnds(m)
      PROVE  P
    BY <1>1, <1>5, LateStep DEF Extends
<1>6. ASSUME NEW p \in Procs, Refused(p)
      PROVE  P
    BY <1>3, <1>6, RefusedStep, RefusedShape
<1>7. P
    <2> HIDE DEF P
    <2> QED BY <1>2, <1>4, <1>5, <1>6, KilledCases
<1>8. KilledTypeOK'
    BY <1>0, <1>7, OrphanStep DEF KilledTypeOK
<1>9. ASSUME NEW m \in Machines, orphan'[m] # None
      PROVE  Extends(orphan'[m].was.branch, clone'[m].branch)
    <2>1. CASE orphan'[m] = orphan[m]
        <3>1. Extends(orphan[m].was.branch, clone[m].branch)
            BY <1>9, <2>1 DEF KilledInv, LateIsOld, Extends
        <3>2. /\ orphan[m].was.branch \in Seq(Snapshots)
              /\ clone'[m].branch \in Seq(Snapshots)
            BY <1>0, <1>7, <1>9, <2>1, OrphanType DEF TypeOK, Clones
        <3> QED BY <1>1, <1>7, <2>1, <3>1, <3>2, ExtendsTransitive
    <2>2. CASE orphan'[m].was = clone[m]
        BY <1>7, <2>2
    <2> QED BY <1>0, <1>9, <2>1, <2>2, OrphanStep
<1> QED BY <1>7, <1>8, <1>9 DEF KilledInv, LateIsOld, Extends

LEMMA InitKilled == KilledInit => KilledInv
<1> SUFFICES ASSUME KilledInit PROVE KilledInv
    OBVIOUS
<1>1. Init /\ TypeInv /\ LockHeld /\ HistoryInv
    BY InitTypes, InitLock, InitHistory DEF KilledInit
<1>2. KilledTypeOK /\ LateIsOld
    BY <1>1, KilledAssumption DEF KilledInit, KilledTypeOK, TypeInv, LateIsOld
<1> QED BY <1>1, <1>2 DEF KilledInv, TypeInv, HistoryInv, HistoryKept

\* Commands that outlive their parents, and the lock files they leave, keep the
\* order of every history, and nothing but the beginning of it is left to them.
THEOREM KilledCorrect == KilledSpec => []KilledInv
BY InitKilled, NextKilled, PTL DEF KilledSpec

\* Whatever git command comes to its end after the process that ran it, the
\* branch of a clone holds what was published for its machine, in order.
THEOREM HistoryKeptCorrect == KilledSpec => []HistoryKept
<1>1. KilledInv => HistoryKept
    BY DEF KilledInv
<1> QED BY <1>1, KilledCorrect, PTL

LEMMA NextKilledBoard ==
    ASSUME KilledInv, KilledInv', [KilledNext]_allVars
    PROVE  [Board!Next]_Shown
<1>0. /\ TypeOK /\ TypeOK' /\ Tracking /\ RemoteIsPrefix /\ BranchOrdered
    BY DEF KilledInv, KilledTypeOK, HistoryKept
<1>1. CASE [Next]_vars
    BY <1>0, <1>1, NextBoard
<1>2. CASE UNCHANGED remote
    BY <1>2 DEF Shown
<1>3. ASSUME NEW m \in Machines, OrphanEnds(m)
      PROVE  [Board!Next]_Shown
    <2>1. CASE /\ orphan[m] # None /\ LatePushLands(m, orphan[m].was)
               /\ remote' = LateBranch(m, orphan[m].was)
        <3>1. /\ \A q \in Machines \ {m} : remote'[q] = remote[q]
              /\ Extends(remote[m], remote'[m])
              /\ Extends(remote'[m], clone[m].branch)
              /\ remote'[m] \in Seq(Snapshots)
            BY <2>1, LatePushStep
        <3> QED BY <1>0, <3>1, BoardGrows DEF Extends
    <2> QED BY <1>2, <1>3, <2>1 DEF OrphanEnds
<1>4. ASSUME NEW m \in Machines, KillViewer(m)
      PROVE  UNCHANGED remote
    BY <1>4, ViewerStep
<1>5. ASSUME NEW p \in Procs, Refused(p)
      PROVE  UNCHANGED remote
    BY <1>5, RefusedShape
<1> QED BY <1>1, <1>2, <1>3, <1>4, <1>5, KilledCases

\* The board stays one: a late push publishes for its own machine only, and no
\* older snapshot.
THEOREM KilledBoardCorrect == KilledSpec => BoardSpec
<1>1. KilledInit => Board!Init
    BY InitBoard DEF KilledInit
<1>2. KilledInv /\ KilledInv' /\ [KilledNext]_allVars => [Board!Next]_Shown
    BY NextKilledBoard
<1> QED BY <1>1, <1>2, KilledCorrect, PTL DEF KilledSpec, BoardSpec, Board!Spec
-------------------------------------------------------------------------------
(* Doctor: what an OK line claims.  A step is one of doctor's questions, a   *)
(* step of StateSync, or the tick of a peer.                                 *)

\* What DoctorInv says of StateSync alone.
SyncInv ==
    /\ TypeOK /\ SnapTyped /\ LockHeld /\ Tracking /\ RemoteIsPrefix
    /\ BranchOrdered /\ ScanIsLatest

LEMMA NextSyncInv ==
    ASSUME SyncInv, [Next]_vars
    PROVE  SyncInv'
<1>1. TypeInv /\ HistoryInv /\ LockHeld /\ TypeOK /\ SnapTyped
    BY DEF SyncInv, TypeInv, HistoryInv
<1>2. TypeInv'
    BY <1>1, NextTypes
<1>3. LockHeld' /\ Tracking' /\ RemoteIsPrefix' /\ BranchOrdered'
    BY <1>1, NextLock, NextTracking, NextPrefix, NextOrdered DEF HistoryInv
<1>4. ScanIsLatest'
    BY <1>1, <1>2, NextLatest DEF TypeInv, HistoryInv
<1> QED BY <1>2, <1>3, <1>4 DEF TypeInv, SyncInv

\* What a peer's tick does to the histories, its own and the others'.
LEMMA PeerStep ==
    ASSUME SyncInv, NEW m \in Machines, PeerTick(m)
    PROVE  /\ [content |-> world[m], at |-> now] \in Snapshots
           /\ clone' \in [Machines -> Clones] /\ remote' \in [Machines -> Seq(Snapshots)]
           /\ clone'[m].branch = Append(clone[m].branch, [content |-> world[m], at |-> now])
           /\ remote'[m] = clone'[m].branch /\ clone'[m].tracked = Len(remote'[m])
           /\ clone'[m].rebasing = clone[m].rebasing
           /\ \A q \in Machines \ {m} : clone'[q] = clone[q] /\ remote'[q] = remote[q]
           /\ \A p \in Procs : Home[p] # m
           /\ UNCHANGED <<now, world, lock, pc, ctxDone, tick, outcome, faults, blind>>
<1> DEFINE s == [content |-> world[m], at |-> now]
           b == Append(clone[m].branch, s)
           c == [clone[m] EXCEPT !.branch = b, !.tracked = Len(b),
                                 !.disk = s, !.base = Published]
<1>1. /\ clone \in [Machines -> Clones] /\ remote \in [Machines -> Seq(Snapshots)]
      /\ clone[m].branch \in Seq(Snapshots) /\ TypeOK
    BY HistoryTypes DEF SyncInv, TypeOK
<1>2. s \in Snapshots
    BY <1>1 DEF TypeOK, Snapshots
<1>3. b \in Seq(Snapshots) /\ Len(b) \in Nat
    BY <1>1, <1>2
<1>4. Published \in [Machines -> Nat]
    BY <1>1 DEF Published
<1>5. c \in Clones /\ c.branch = b /\ c.tracked = Len(b) /\ c.rebasing = clone[m].rebasing
    <2> HIDE DEF s, b
    <2> QED BY <1>1, <1>2, <1>3, <1>4 DEF Clones, File
<1>6. /\ remote' = [remote EXCEPT ![m] = b] /\ clone' = [clone EXCEPT ![m] = c]
      /\ \A p \in Procs : Home[p] # m
      /\ UNCHANGED <<now, world, lock, pc, ctxDone, tick, outcome, faults, blind>>
    BY DEF PeerTick, SetClone
<1> QED
    <2> HIDE DEF s, b, c
    <2>1. /\ clone' \in [Machines -> Clones] /\ remote' \in [Machines -> Seq(Snapshots)]
          /\ clone'[m] = c /\ remote'[m] = b
          /\ \A q \in Machines \ {m} : clone'[q] = clone[q] /\ remote'[q] = remote[q]
        BY <1>1, <1>3, <1>5, <1>6
    <2> QED BY <1>2, <1>5, <1>6, <2>1 DEF s, b

LEMMA PeerSyncInv ==
    ASSUME SyncInv, NEW m \in Machines, PeerTick(m)
    PROVE  SyncInv'
<1> DEFINE s == [content |-> world[m], at |-> now]
<1>0. /\ s \in Snapshots /\ s.at = now
      /\ clone' \in [Machines -> Clones] /\ remote' \in [Machines -> Seq(Snapshots)]
      /\ clone'[m].branch = Append(clone[m].branch, s)
      /\ remote'[m] = clone'[m].branch /\ clone'[m].tracked = Len(remote'[m])
      /\ \A q \in Machines \ {m} : clone'[q] = clone[q] /\ remote'[q] = remote[q]
      /\ \A p \in Procs : Home[p] # m
      /\ UNCHANGED <<now, world, lock, pc, ctxDone, tick, outcome, faults, blind>>
    BY PeerStep
<1> HIDE DEF s
<1>1. TypeOK' /\ SnapTyped' /\ LockHeld'
    BY <1>0 DEF SyncInv, TypeOK, SnapTyped, LockHeld
<1>2. clone[m].branch \in Seq(Snapshots) /\ clone'[m].branch \in Seq(Snapshots)
    BY <1>0, HistoryTypes DEF SyncInv, Clones
<1>3. Tracking'
    BY <1>0, <1>2 DEF SyncInv, Tracking
<1>4. RemoteIsPrefix'
    BY <1>0 DEF SyncInv, RemoteIsPrefix
<1>5. BranchOrdered'
    <2> SUFFICES ASSUME NEW q \in Machines
                 PROVE  LET b == clone'[q].branch
                        IN  /\ \A i, j \in 1..Len(b) : i <= j => b[i].at <= b[j].at
                            /\ \A i \in 1..Len(b) : b[i].at <= now'
        BY DEF BranchOrdered
    <2>1. CASE q # m
        BY <1>0, <2>1 DEF SyncInv, BranchOrdered
    <2>2. CASE q = m
        <3> DEFINE b == clone[m].branch
                   d == clone'[m].branch
        <3>1. /\ \A i, j \in 1..Len(b) : i <= j => b[i].at <= b[j].at
              /\ \A i \in 1..Len(b) : b[i].at <= now
              /\ now \in Nat /\ Len(b) \in Nat
            BY <1>2 DEF SyncInv, BranchOrdered, TypeOK
        <3>2. /\ Len(d) = Len(b) + 1 /\ d[Len(b) + 1] = s
              /\ \A i \in 1..Len(b) : d[i] = b[i]
            BY <1>0, <1>2
        <3> HIDE DEF b, d
        <3>3. \A i \in 1..Len(d) : i \in 1..Len(b) \/ i = Len(b) + 1
            BY <3>1, <3>2
        <3>4. \A i \in 1..Len(d) : d[i].at <= now
            BY <1>0, <3>1, <3>2, <3>3
        <3>5. ASSUME NEW i \in 1..Len(d), NEW j \in 1..Len(d), i <= j
              PROVE  d[i].at <= d[j].at
            <4>1. CASE j \in 1..Len(b)
                <5>1. i \in 1..Len(b)
                    BY <3>1, <3>3, <3>5, <4>1
                <5> QED BY <3>1, <3>2, <3>5, <4>1, <5>1
            <4>2. CASE j = Len(b) + 1
                BY <1>0, <3>2, <3>4, <4>2
            <4> QED BY <3>3, <4>1, <4>2
        <3> QED BY <1>0, <2>2, <3>4, <3>5 DEF d
    <2> QED BY <2>1, <2>2
<1>6. ScanIsLatest'
    BY <1>0, HomeIsMachine DEF SyncInv, ScanIsLatest
<1> QED BY <1>1, <1>3, <1>4, <1>5, <1>6 DEF SyncInv

\* Whatever happens to the clones, a history only grows, on the branch and on the
\* remote.
LEMMA HistoriesGrow ==
    ASSUME SyncInv, Next \/ \E m \in Machines : PeerTick(m)
    PROVE  /\ SyncInv'
           /\ \A q \in Machines : /\ Extends(clone[q].branch, clone'[q].branch)
                                  /\ Extends(remote[q], remote'[q])
<1>1. SyncInv'
    BY NextSyncInv, PeerSyncInv
<1>2. TypeOK /\ TypeOK' /\ Tracking /\ RemoteIsPrefix
    BY <1>1 DEF SyncInv
<1>3. ASSUME NEW q \in Machines
      PROVE  /\ clone[q].branch \in Seq(Snapshots) /\ remote[q] \in Seq(Snapshots)
             /\ Extends(remote[q], clone[q].branch)
             /\ Extends(remote[q], remote[q]) /\ Extends(clone[q].branch, clone[q].branch)
    BY <1>2, <1>3, HistoryTypes DEF Tracking, RemoteIsPrefix, Extends
<1>4. CASE Next
    <2>1. ASSUME NEW q \in Machines
          PROVE  Extends(clone[q].branch, clone'[q].branch)
        BY <1>2, <1>4, BranchGrows
    <2>2. ASSUME NEW q \in Machines
          PROVE  Extends(remote[q], remote'[q])
        BY <1>2, <1>3, <1>4, HistoryStep
    <2> QED BY <1>1, <2>1, <2>2
<1>5. ASSUME NEW m \in Machines, PeerTick(m)
      PROVE  \A q \in Machines : /\ Extends(clone[q].branch, clone'[q].branch)
                                 /\ Extends(remote[q], remote'[q])
    <2> DEFINE s == [content |-> world[m], at |-> now]
    <2>1. /\ s \in Snapshots
          /\ clone'[m].branch = Append(clone[m].branch, s)
          /\ remote'[m] = clone'[m].branch
          /\ \A q \in Machines \ {m} : clone'[q] = clone[q] /\ remote'[q] = remote[q]
        BY <1>5, PeerStep
    <2>2. Extends(clone[m].branch, clone'[m].branch)
        <3> HIDE DEF s
        <3> QED BY <1>3, <2>1 DEF Extends
    <2>3. clone'[m].branch \in Seq(Snapshots)
        BY <1>2 DEF TypeOK, Clones
    <2>4. Extends(remote[m], remote'[m])
        BY <1>3, <2>1, <2>2, <2>3, ExtendsTransitive
    <2> QED BY <1>3, <2>1, <2>2, <2>4
<1> QED BY <1>1, <1>4, <1>5

\* The last of a history that grows in the order of time does not get older.
LEMMA LastGrows ==
    ASSUME NEW a \in Seq(Snapshots), NEW b \in Seq(Snapshots), Extends(a, b), a # <<>>,
           \A i, j \in 1..Len(b) : i <= j => b[i].at <= b[j].at
    PROVE  b # <<>> /\ Last(a).at <= Last(b).at /\ Last(a).at \in Nat /\ Last(b).at \in Nat
<1>1. Len(a) \in Nat \ {0} /\ Len(b) \in Nat
    BY EmptySeq
<1>2. Len(a) <= Len(b) /\ \A i \in 1..Len(a) : a[i] = b[i]
    BY DEF Extends
<1>3. Len(a) \in 1..Len(a) /\ Len(a) \in 1..Len(b) /\ Len(b) \in 1..Len(b)
    BY <1>1, <1>2
<1>4. a[Len(a)].at <= b[Len(b)].at /\ a[Len(a)] \in Snapshots /\ b[Len(b)] \in Snapshots
    BY <1>1, <1>2, <1>3
<1>5. \A s \in Snapshots : s.at \in Nat
    BY DEF Snapshots
<1> QED BY <1>1, <1>3, <1>4, <1>5 DEF Last
-------------------------------------------------------------------------------
(* Doctor's questions.                                                       *)

\* A question changes nothing but the lock, taken for a moment, and the count of
\* failures.
LEMMA QuestionStep ==
    ASSUME DoctorTypeOK, SyncInv, Examine
    PROVE  SyncInv' /\ UNCHANGED <<clone, remote>>
<1>1. /\ UNCHANGED <<now, world, remote, clone, pc, ctxDone, tick, outcome, blind>>
      /\ \/ UNCHANGED lock
         \/ lock[Where] = None /\ lock' = [lock EXCEPT ![Where] = Viewer]
         \/ lock[Where] = Viewer /\ lock' = [lock EXCEPT ![Where] = None]
      /\ faults' \in {faults, faults + 1}
    BY DEF Examine, TryLock, Unlock, ReadFile, AskStatus, Count, Leave, Asking, LockFree,
           Fail, vars, DoctorTypeOK
<1>2. TypeOK' /\ SnapTyped'
    <2>1. TypeOK /\ SnapTyped
        BY DEF SyncInv
    <2>2. lock' \in [Machines -> Procs \cup {None, Viewer}]
        <3>1. lock \in [Machines -> Procs \cup {None, Viewer}]
            BY <2>1 DEF TypeOK
        <3> QED BY <1>1, <3>1
    <2>3. faults' \in Nat
        BY <1>1, <2>1 DEF TypeOK
    <2> QED BY <1>1, <2>1, <2>2, <2>3 DEF TypeOK, SnapTyped
<1>3. LockHeld'
    BY <1>1, DoctorAssumption, MarkersAreDistinct, HomeIsMachine
       DEF SyncInv, TypeOK, LockHeld
<1>4. Tracking' /\ RemoteIsPrefix' /\ BranchOrdered' /\ ScanIsLatest'
    BY <1>1 DEF SyncInv, Tracking, RemoteIsPrefix, BranchOrdered, ScanIsLatest
<1> QED BY <1>1, <1>2, <1>3, <1>4 DEF SyncInv

LEMMA QuestionTypes ==
    ASSUME DoctorTypeOK, TypeOK', Examine
    PROVE  DoctorTypeOK'
<1>0. None \notin Verdicts /\ None \notin Nat /\ Where \in Machines
    BY DoctorAssumption
<1>1. CASE TryLock
    <2>1. now \in Nat /\ lock \in [Machines -> Procs \cup {None, Viewer}]
        BY DEF DoctorTypeOK, TypeOK
    <2> QED BY <1>0, <1>1, <2>1 DEF TryLock, DoctorTypeOK, Places
<1>2. CASE Unlock
    BY <1>2 DEF Unlock, DoctorTypeOK, Places
<1>3. CASE ReadFile
    <2>1. \A f \in Snapshots : f.at \in Nat
        BY DEF Snapshots
    <2>2. {"noSnapshot", "unreadable"} \subseteq Verdicts
        BY DEF Verdicts
    <2> QED BY <1>0, <1>3, <2>1, <2>2
            DEF ReadFile, Conclude, Parsed, Asking, DoctorTypeOK, Places
<1>4. CASE AskStatus
    <2>1. "uncommitted" \in Verdicts /\ "statusFailed" \in Doubts
        BY DEF Verdicts, Doubts
    <2> QED BY <1>0, <1>4, <2>1 DEF AskStatus, Conclude, Asking, DoctorTypeOK, Places
<1>5. CASE Count
    <2>1. {"stale", "ok", "unpushed", "unverified"} \subseteq Verdicts
          /\ "detached" \in Doubts
        BY DEF Verdicts, Doubts
    <2> QED BY <1>0, <1>5, <2>1 DEF Count, Conclude, Asking, DoctorTypeOK, Places
<1>6. CASE Leave
    <2>1. "ok" # None
        BY <1>0 DEF Verdicts
    <2> QED BY <1>0, <1>6, <2>1 DEF Leave, vars, DoctorTypeOK, Places
<1> QED BY <1>1, <1>2, <1>3, <1>4, <1>5, <1>6 DEF Examine

\* A clean git status means that the report that was read is the last on the branch.
LEMMA QuestionSeen ==
    ASSUME DoctorTypeOK, SyncInv, SeenKept, Examine
    PROVE  SeenKept'
<1>1. UNCHANGED clone
    BY QuestionStep
<1> DEFINE c == clone[Where]
<1>2. c \in Clones /\ c.branch \in Seq(Snapshots)
    BY HistoryTypes, DoctorAssumption DEF SyncInv
<1>3. CASE TryLock \/ Unlock \/ Leave \/ Count
    BY <1>3 DEF TryLock, Unlock, Leave, Count, Conclude, SeenKept
<1>4. CASE ReadFile
    <2>1. ASSUME place' = "status"
          PROVE  /\ doubts' = doubts
                 /\ \E f \in {c.disk, Corrupt} : f \in Snapshots /\ seen' = f.at
        BY <1>4, <2>1 DEF ReadFile, Conclude, Parsed
    <2>2. Corrupt \notin Snapshots
        BY MarkersAreDistinct
    <2>3. \A f \in Snapshots : f.at \in Nat
        BY DEF Snapshots
    <2>4. place' # "count"
        BY <1>4 DEF ReadFile, Conclude
    <2> QED BY <1>1, <2>1, <2>2, <2>3, <2>4 DEF SeenKept
<1>5. CASE AskStatus
    <2>1. place' # "status"
        BY <1>5 DEF AskStatus, Conclude
    <2>2. ASSUME place' = "count", ~c.rebasing, doubts' = {}
          PROVE  c.branch # <<>> /\ seen <= Last(c.branch).at
        <3>1. place = "status" /\ doubts = {} /\ ~Dirty(c)
            BY <1>5, <2>2 DEF AskStatus, Conclude, Uncommitted
        <3>2. c.disk = FileAt(c.branch)
            BY <2>2, <3>1 DEF Dirty, HeadFile
        <3>3. c.disk \in Snapshots /\ seen <= c.disk.at
            BY <3>1 DEF SeenKept
        <3> QED BY <3>2, <3>3, MarkersAreDistinct DEF FileAt
    <2>3. seen' = seen
        BY <1>5 DEF AskStatus
    <2> QED BY <1>1, <2>1, <2>2, <2>3 DEF SeenKept
<1> QED BY <1>3, <1>4, <1>5 DEF Examine

\* When nothing is ahead of the upstream either, the remote has it.
LEMMA QuestionOk ==
    ASSUME DoctorTypeOK, SyncInv, SeenKept, OkMeansPublished, Examine
    PROVE  OkMeansPublished'
<1>1. UNCHANGED <<clone, remote>>
    BY QuestionStep
<1>2. CASE TryLock \/ Unlock \/ ReadFile \/ AskStatus
    <2>1. verdict = None
        BY <1>2 DEF DoctorTypeOK, TryLock, Unlock, ReadFile, AskStatus
    <2>2. "ok" # None
        BY DoctorAssumption DEF Verdicts
    <2> QED BY <1>2, <2>1, <2>2
            DEF TryLock, Unlock, ReadFile, AskStatus, Conclude, OkMeansPublished
<1>3. CASE Leave
    <2>1. "ok" # None
        BY DoctorAssumption DEF Verdicts
    <2> QED BY <1>3, <2>1 DEF Leave, OkMeansPublished
<1>4. CASE Count
    <2> SUFFICES ASSUME verdict' = "ok", doubts' = {} PROVE PeersHaveIt'
        BY DEF OkMeansPublished
    <2> DEFINE c == clone[Where]
               b == c.branch
               r == remote[Where]
    <2>1. /\ place = "count" /\ doubts = {} /\ ~c.rebasing
          /\ ~Pending(c) /\ ~Stale(seen) /\ UNCHANGED <<seen, asked>>
        BY <1>4 DEF Count, Conclude, Asking
    <2>2. b # <<>> /\ seen <= Last(b).at
        BY <2>1 DEF SeenKept
    <2>3. /\ b \in Seq(Snapshots) /\ r \in Seq(Snapshots)
          /\ c.tracked \in Nat /\ Len(b) \in Nat /\ Len(r) \in Nat
          /\ c.tracked <= Len(r) /\ Len(r) <= Len(b)
          /\ \A i \in 1..Len(r) : r[i] = b[i]
        BY HistoryTypes, DoctorAssumption DEF SyncInv, Tracking, RemoteIsPrefix
    <2>4. Len(r) = Len(b)
        BY <2>1, <2>3 DEF Pending, Ahead
    <2>5. r = b
        BY <2>3, <2>4, SeqEqual
    <2>6. seen \in Nat /\ asked \in Nat /\ Last(b).at \in Nat
        <3>1. Len(b) \in 1..Len(b)
            BY <2>2, <2>3
        <3>2. Last(b) \in Snapshots
            BY <2>3, <3>1 DEF Last
        <3> QED BY <2>1, <3>2 DEF DoctorTypeOK, Snapshots
    <2>7. asked - seen <= FreshFor
        BY <2>1, <2>6, DoctorAssumption DEF Stale
    <2>8. asked - Last(b).at <= FreshFor
        BY <2>2, <2>6, <2>7, DoctorAssumption
    <2> QED BY <1>1, <2>1, <2>2, <2>5, <2>8 DEF PeersHaveIt
<1> QED BY <1>2, <1>3, <1>4 DEF Examine
-------------------------------------------------------------------------------
(* What goes on meanwhile.                                                   *)

LEMMA MeanwhileTypes ==
    ASSUME DoctorTypeOK, TypeOK', Meanwhile
    PROVE  DoctorTypeOK'
BY DEF DoctorTypeOK, Meanwhile, Doubts

\* Ticks may commit on top of what doctor saw; anything else is a doubt.
LEMMA MeanwhileSeen ==
    ASSUME DoctorTypeOK, SyncInv, SeenKept, Meanwhile
    PROVE  SeenKept'
<1> DEFINE c == clone[Where]
           d == clone'[Where]
<1> SUFFICES ASSUME doubts' = {}
             PROVE  /\ place = "status" => d.disk \in Snapshots /\ seen <= d.disk.at
                    /\ place = "count" /\ ~d.rebasing =>
                           d.branch # <<>> /\ seen <= Last(d.branch).at
    BY DEF SeenKept, Meanwhile
<1>1. ~PutsBack /\ doubts = {}
    BY DEF Meanwhile
<1>2. /\ SyncInv' /\ Extends(c.branch, d.branch)
      /\ c.branch \in Seq(Snapshots) /\ d.branch \in Seq(Snapshots)
      /\ \A i, j \in 1..Len(d.branch) : i <= j => d.branch[i].at <= d.branch[j].at
    <2>1. SyncInv' /\ Extends(c.branch, d.branch)
        BY HistoriesGrow, DoctorAssumption DEF Meanwhile
    <2>2. c.branch \in Seq(Snapshots) /\ d \in Clones
        BY <2>1, HistoryTypes, DoctorAssumption DEF SyncInv, TypeOK
    <2> QED BY <2>1, <2>2, DoctorAssumption DEF SyncInv, BranchOrdered, Clones
<1>3. \A s \in Snapshots : s.at \in Nat
    BY DEF Snapshots
<1>4. ASSUME place = "status"
      PROVE  d.disk \in Snapshots /\ seen <= d.disk.at
    <2>1. d.disk \in Snapshots /\ ~(d.disk.at < seen) /\ seen \in Nat
        BY <1>1, <1>4 DEF PutsBack, DoctorTypeOK
    <2> QED BY <1>3, <2>1
<1>5. ASSUME place = "count", ~d.rebasing
      PROVE  d.branch # <<>> /\ seen <= Last(d.branch).at
    <2>1. seen \in Nat
        BY <1>5 DEF DoctorTypeOK
    <2>2. CASE c.rebasing
        <3>1. FileAt(d.branch) \in Snapshots /\ ~(FileAt(d.branch).at < seen)
            BY <1>1, <1>5, <2>2 DEF PutsBack
        <3> QED BY <1>3, <2>1, <3>1, MarkersAreDistinct DEF FileAt
    <2>3. CASE ~c.rebasing
        <3>1. c.branch # <<>> /\ seen <= Last(c.branch).at
            BY <1>1, <1>5, <2>3 DEF SeenKept
        <3> QED BY <1>2, <2>1, <3>1, LastGrows
    <2> QED BY <2>2, <2>3
<1> QED BY <1>4, <1>5

\* What peers can read does not get older.
LEMMA MeanwhileOk ==
    ASSUME DoctorTypeOK, SyncInv, OkMeansPublished, Meanwhile
    PROVE  OkMeansPublished'
<1> DEFINE r == remote[Where]
           s == remote'[Where]
<1> SUFFICES ASSUME verdict' = "ok", doubts' = {} PROVE PeersHaveIt'
    BY DEF OkMeansPublished
<1>1. /\ verdict = "ok" /\ doubts = {} /\ UNCHANGED <<seen, asked>>
    BY DEF Meanwhile
<1>2. r # <<>> /\ Last(r).at >= seen /\ asked - Last(r).at <= FreshFor
    BY <1>1 DEF OkMeansPublished, PeersHaveIt
<1>3. SyncInv' /\ Extends(r, s)
    BY HistoriesGrow, DoctorAssumption DEF Meanwhile
<1>4. r \in Seq(Snapshots) /\ s \in Seq(Snapshots)
    BY <1>3, DoctorAssumption DEF SyncInv, TypeOK
<1>5. \A i, j \in 1..Len(s) : i <= j => s[i].at <= s[j].at
    <2> DEFINE b == clone'[Where].branch
    <2>1. \A i \in 1..Len(s) : s[i] = b[i]
        BY <1>3, DoctorAssumption DEF SyncInv, RemoteIsPrefix
    <2>2. /\ Len(s) <= Len(b)
          /\ \A i, j \in 1..Len(b) : i <= j => b[i].at <= b[j].at
        BY <1>3, DoctorAssumption DEF SyncInv, Tracking, BranchOrdered
    <2>3. Len(s) \in Nat /\ Len(b) \in Nat
        BY <1>3, <1>4, DoctorAssumption DEF SyncInv, TypeOK, Clones
    <2>4. 1..Len(s) \subseteq 1..Len(b)
        BY <2>2, <2>3
    <2> HIDE DEF b, s
    <2> QED BY <2>1, <2>2, <2>4
<1>6. s # <<>> /\ Last(r).at <= Last(s).at /\ Last(r).at \in Nat /\ Last(s).at \in Nat
    BY <1>2, <1>3, <1>4, <1>5, LastGrows
<1>7. seen \in Nat /\ asked \in Nat /\ FreshFor \in Nat
    BY <1>1, DoctorAssumption DEF DoctorTypeOK
<1> QED BY <1>1, <1>2, <1>6, <1>7 DEF PeersHaveIt
-------------------------------------------------------------------------------
LEMMA InitDoctor == DoctorInit => DoctorInv
<1> SUFFICES ASSUME DoctorInit PROVE DoctorInv
    OBVIOUS
<1>1. SyncInv
    BY InitTypes, InitLock, InitHistory DEF DoctorInit, SyncInv, TypeInv, HistoryInv
<1>2. "ok" # None
    BY DoctorAssumption DEF Verdicts
<1>3. DoctorTypeOK /\ SeenKept /\ OkMeansPublished
    BY <1>1, <1>2
       DEF DoctorInit, SyncInv, DoctorTypeOK, Places, SeenKept, OkMeansPublished
<1> QED BY <1>1, <1>3 DEF SyncInv, DoctorInv

LEMMA NextDoctor == DoctorInv /\ [DoctorNext]_everything => DoctorInv'
<1> SUFFICES ASSUME DoctorInv, [DoctorNext]_everything PROVE DoctorInv'
    OBVIOUS
<1>1. SyncInv /\ DoctorTypeOK /\ SeenKept /\ OkMeansPublished
    BY DEF DoctorInv, SyncInv, DoctorTypeOK
<1>2. CASE Examine
    <2>1. SyncInv' /\ TypeOK'
        BY <1>1, <1>2, QuestionStep DEF SyncInv
    <2>2. DoctorTypeOK' /\ SeenKept' /\ OkMeansPublished'
        BY <1>1, <1>2, <2>1, QuestionTypes, QuestionSeen, QuestionOk
    <2> QED BY <2>1, <2>2 DEF DoctorInv, SyncInv
<1>3. CASE Meanwhile
    <2>1. SyncInv' /\ TypeOK'
        BY <1>1, <1>3, HistoriesGrow DEF Meanwhile, SyncInv
    <2>2. DoctorTypeOK' /\ SeenKept' /\ OkMeansPublished'
        BY <1>1, <1>3, <2>1, MeanwhileTypes, MeanwhileSeen, MeanwhileOk
    <2> QED BY <2>1, <2>2 DEF DoctorInv, SyncInv
<1>4. CASE UNCHANGED everything
    <2>1. UNCHANGED vars /\ UNCHANGED doctorVars
        BY <1>4 DEF everything
    <2>2. SyncInv'
        BY <1>1, <2>1, NextSyncInv
    <2>3. DoctorTypeOK' /\ SeenKept' /\ OkMeansPublished'
        BY <1>1, <2>1, <2>2 DEF vars, doctorVars, SyncInv, DoctorTypeOK, SeenKept,
                                OkMeansPublished, PeersHaveIt
    <2> QED BY <2>2, <2>3 DEF DoctorInv, SyncInv
<1> QED BY <1>2, <1>3, <1>4 DEF DoctorNext

\* Between doctor's questions the report it saw stays where the next question
\* looks for it, or a doubt is noted.
THEOREM DoctorCorrect == DoctorSpec => []DoctorInv
BY InitDoctor, NextDoctor, PTL DEF DoctorSpec

\* Whatever ticks do between doctor's questions, an OK line about the last publish
\* is true, and stays true, unless one of the doubts applies.
THEOREM OkMeansPublishedCorrect == DoctorSpec => []OkMeansPublished
<1>1. DoctorInv => OkMeansPublished
    BY DEF DoctorInv
<1> QED BY <1>1, DoctorCorrect, PTL
===============================================================================
