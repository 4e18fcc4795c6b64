-------------------------------- MODULE Doctor --------------------------------
(* The doctor command (doctor.go) on a machine whose agent is at work: it      *)
(* tries the sync lock, and asks the clone three questions without holding it, *)
(* one after the other, while ticks go on in between (StateSync).  "The local  *)
(* file can be fresh while peers still hold an older one; that is exactly what *)
(* doctor exists to catch" (doctor.go:186).                                    *)
EXTENDS StateSync

CONSTANTS
    Where,     \* the machine doctor is run on
    FreshFor   \* for how many units of the clock stale_ttl, which is positive,
               \* lets a report pass for fresh


VARIABLES
    place,     \* what doctor does next
    asked,     \* in.Now, taken before the first question
    seen,      \* the time of the snapshot read from the own file (UpdatedAt)
    verdict,   \* the line about the last publish, once it is printed
    doubts     \* what happened since that makes it doubtful

doctorVars == <<place, asked, seen, verdict, doubts>>

everything == <<vars, doctorVars>>

Places == {"idle", "unlock", "read", "status", "count", "said"}

Verdicts == {"noSnapshot", "unreadable", "uncommitted", "unpushed", "unverified",
             "stale", "ok"}

ASSUME DoctorAssumption ==
    Where \in Machines /\ FreshFor \in Nat /\ None \notin Verdicts \cup Nat

\* What the questions cannot see: the report was put back after it was read; git
\* status failed, which passes for clean; HEAD was detached by an unfinished
\* rebase, which passes for a branch without upstream.
Doubts == {"putBack", "statusFailed", "detached"}

DoctorInit ==
    /\ Init
    /\ place = "idle" /\ asked = 0 /\ seen = None
    /\ verdict = None /\ doubts = {}

\* Doctor is done with the clone.
Conclude(text) == place' = "said" /\ verdict' = text

\* checkSyncLock: the lock is taken for a moment, or somebody has it.
TryLock ==
    /\ place = "idle" /\ asked' = now
    /\ IF LockFree(Where)
       THEN lock' = [lock EXCEPT ![Where] = Viewer] /\ place' = "unlock"
       ELSE place' = "read" /\ UNCHANGED lock
    /\ UNCHANGED <<now, world, remote, clone, pc, ctxDone, tick, outcome, faults,
                   blind, seen, verdict, doubts>>

\* Release, at once.
Unlock ==
    /\ place = "unlock"
    /\ lock' = [lock EXCEPT ![Where] = None]
    /\ place' = "read"
    /\ UNCHANGED <<now, world, remote, clone, pc, ctxDone, tick, outcome, faults,
                   blind, asked, seen, verdict, doubts>>

\* What no question changes.
Asking == UNCHANGED <<now, world, remote, clone, lock, pc, ctxDone, tick,
                      outcome, blind, asked>>

\* The own file is being written: it may be read cut short.
BeingWritten == \E p \in Procs : Home[p] = Where /\ pc[p] \in {"write", "restore"}

\* ReadMachineSnapshot returns no error.
Parsed(f) == f \in Snapshots

\* checkLastPublish reads the own file.
ReadFile ==
    /\ place = "read"
    /\ \E f \in {clone[Where].disk} \cup (IF BeingWritten THEN {Corrupt} ELSE {}) :
         IF Parsed(f)
         THEN seen' = f.at /\ place' = "status" /\ UNCHANGED verdict
         ELSE /\ Conclude(IF f = Missing THEN "noSnapshot" ELSE "unreadable")
              /\ UNCHANGED seen
    /\ UNCHANGED <<faults, doubts>> /\ Asking

\* Mutant: the own file is not looked at.
StatusSkipped(c) == FALSE

\* git status lists the own file.
Uncommitted(c) == Dirty(c)

\* unpublishedSnapshotReason, git status.  Its failure is ignored.
AskStatus ==
    /\ place = "status"
    /\ \/ /\ IF Uncommitted(clone[Where]) THEN Conclude("uncommitted")
             ELSE place' = "count" /\ UNCHANGED verdict
          /\ UNCHANGED <<faults, doubts>>
       \/ /\ Fail("status")
          /\ place' = "count" /\ doubts' = doubts \cup {"statusFailed"}
          /\ UNCHANGED verdict
    /\ UNCHANGED seen /\ Asking

\* Mutant: unpushed commits are no reason.
NothingPending(c) == FALSE

\* aheadOfUpstreamCount says that commits are not pushed.
Pending(c) == Ahead(c) > 0

Stale(at) == asked - at > FreshFor

\* unpublishedSnapshotReason, git rev-list, and the comparison with stale_ttl.
Count ==
    LET c == clone[Where]
        fine == Conclude(IF Stale(seen) THEN "stale" ELSE "ok")
    IN  /\ place = "count"
        /\ \/ /\ c.rebasing /\ fine
              /\ doubts' = doubts \cup {"detached"} /\ UNCHANGED faults
           \/ /\ ~c.rebasing /\ RemoteSeeded
              /\ IF Pending(c) THEN Conclude("unpushed") ELSE fine
              /\ UNCHANGED <<faults, doubts>>
           \/ /\ Fail("revlist") \/ (~c.rebasing /\ ~RemoteSeeded /\ UNCHANGED faults)
              /\ Conclude("unverified") /\ UNCHANGED doubts
        /\ UNCHANGED seen /\ Asking

\* The process ends.
Leave ==
    /\ place = "said" /\ place' = "idle"
    /\ asked' = 0 /\ seen' = None /\ verdict' = None /\ doubts' = {}
    /\ UNCHANGED vars

Examine == TryLock \/ Unlock \/ ReadFile \/ AskStatus \/ Count \/ Leave

\* What doctor read is put back behind its back: the own file by a failed publish,
\* before git status is asked, or what was committed on the HEAD of a rebase by its
\* abort, after that.
PutsBack ==
    LET c == clone[Where]
        d == clone'[Where]
        behind(f) == f \notin Snapshots \/ f.at < seen
    IN  \/ place = "status" /\ behind(d.disk)
        \/ place = "count" /\ c.rebasing /\ ~d.rebasing /\ behind(FileAt(d.branch))

\* A whole tick, with success, of a machine whose processes are not in the model:
\* its report is pushed, and a tick here that pulled before has to rebase.
PeerTick(m) ==
    LET s == [content |-> world[m], at |-> now]
        pushed == Append(clone[m].branch, s)
    IN  /\ \A p \in Procs : Home[p] # m
        /\ s # FileAt(clone[m].branch)
        /\ remote' = [remote EXCEPT ![m] = pushed]
        /\ SetClone(m, [clone[m] EXCEPT !.branch = pushed, !.tracked = Len(pushed),
                                       !.disk = s, !.base = Published])
        /\ UNCHANGED <<now, world, lock, pc, ctxDone, tick, outcome, faults, blind>>

\* A step of StateSync; nobody but doctor gives the lock back that it holds.
Meanwhile ==
    /\ Next \/ \E m \in Machines : PeerTick(m)
    /\ place = "unlock" => lock'[Where] = lock[Where]
    /\ doubts' = IF PutsBack THEN doubts \cup {"putBack"} ELSE doubts
    /\ UNCHANGED <<place, asked, seen, verdict>>

DoctorNext == Meanwhile \/ Examine

DoctorSpec == DoctorInit /\ [][DoctorNext]_everything
-------------------------------------------------------------------------------
DoctorTypeOK ==
    /\ TypeOK
    /\ place \in Places /\ asked \in Nat /\ seen \in Nat \cup {None}
    /\ verdict \in Verdicts \cup {None} /\ doubts \subseteq Doubts
    /\ place = "unlock" => lock[Where] = Viewer
    /\ verdict # None <=> place = "said"
    /\ place \in {"status", "count"} \/ verdict = "ok" => seen # None

\* What an OK line about the last publish claims: peers can read a report that
\* is no older than the one doctor saw, nor older than stale_ttl when asked.
PeersHaveIt ==
    LET r == remote[Where]
    IN  r # <<>> /\ Last(r).at >= seen /\ asked - Last(r).at <= FreshFor

\* Whatever ticks do between doctor's questions, an OK line is true, unless one
\* of the doubts applies (doctor.go:172-197, 226-237).
OkMeansPublished == verdict = "ok" /\ doubts = {} => PeersHaveIt

\* The same without exception: "unpublishedSnapshotReason returns why the local
\* snapshot may not have reached the remote ..., or "" when it has"
\* (doctor.go:224-225).
OkAlwaysMeansPublished == verdict = "ok" => PeersHaveIt

\* The agent "owns the clone and never leaves any" untracked file
\* (doctor.go:199-200): between ticks the own file is in HEAD or in the index.
NoneLeftBehind ==
    LET c == clone[Where]
    IN  lock[Where] = None /\ c.disk # Missing => HeadFile(c) # Missing \/ c.staged # None
-------------------------------------------------------------------------------
(* The inductive invariant behind the proofs in StateSyncProofs.             *)

\* Nothing since the file was read has put the report back that doctor saw: until
\* git status is asked it is in the worktree, then on the branch.
SeenKept ==
    LET c == clone[Where]
    IN  doubts = {} =>
            /\ place = "status" => c.disk \in Snapshots /\ seen <= c.disk.at
            /\ place = "count" /\ ~c.rebasing =>
                   c.branch # <<>> /\ seen <= Last(c.branch).at

DoctorInv ==
    /\ DoctorTypeOK /\ SnapTyped /\ LockHeld /\ Tracking /\ RemoteIsPrefix
    /\ BranchOrdered /\ ScanIsLatest /\ SeenKept /\ OkMeansPublished
===============================================================================
