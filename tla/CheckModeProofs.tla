---------------------------- MODULE CheckModeProofs ----------------------------
(* Proofs about RepoStatus and CheckMode, for every set of repositories and     *)
(* moves and every bound: work is never missed and never invented, and every    *)
(* verdict of the editor is earned.  The invariant of the check (StatusInv) is  *)
(* shown command by command; the process around it keeps it, and adds what is   *)
(* known at each of its steps (UnderWay) and what its words mean (SaidSo).      *)
EXTENDS CheckMode, TLAPS

-------------------------------------------------------------------------------
(* The check of the repository.                                              *)

\* Nothing is known at the start, and everything is still ahead.
LEMMA InitStatus == Init => StatusInv
<1> SUFFICES ASSUME Init PROVE StatusInv
  OBVIOUS
<1> USE StatusAssumption DEF Init, NewStatus
<1>1. TypeOK
  BY DEF TypeOK, Commands, Statuses, Work, Repositories
<1>2. Pursued
  BY DEF Pursued, Early
<1>3. Consistent
  BY DEF Consistent, Late, Flagged
<1>4. Exact
  BY DEF Exact, Accurate, OnCourse
<1>5. Composed
  BY DEF Composed, Bare
<1> QED BY <1>1, <1>2, <1>3, <1>4, <1>5 DEF StatusInv

LEMMA GitDirKeeps == ASSUME StatusInv, GitDir PROVE StatusInv'
<1> USE StatusAssumption DEF StatusInv, GitDir,
      Runs, Fails, Killed, Continue, Stop, Finish
<1>0. /\ truth.empty \in BOOLEAN /\ truth.origin \in BOOLEAN
      /\ truth.ahead \in BOOLEAN /\ truth.behind \in BOOLEAN
  BY DEF TypeOK, Repositories
<1>1. TypeOK'
  <2>1. status' \in Statuses
    BY <1>0 DEF TypeOK, Statuses
  <2>2. truth' \in Repositories /\ at' \in Commands
    BY DEF TypeOK, Commands
  <2>3. ctxDone' \in BOOLEAN /\ pending' \in BOOLEAN /\ faults' \in Nat /\ moves' \in Nat
    BY DEF TypeOK
  <2> QED BY <2>1, <2>2, <2>3 DEF TypeOK
<1>2. Pursued'
  BY <1>0 DEF TypeOK, Statuses, Repositories, Pursued, Consistent, Flagged, Early, Work
<1>3. Consistent'
  BY <1>0 DEF TypeOK, Statuses, Repositories, Consistent, Flagged, Early, Late
<1>4. Exact'
  <2>1. moves' = 0 => (pending' <=> Work(truth'))
    BY DEF TypeOK, Repositories, Exact
  <2>2. faults' = 0 => ~ctxDone'
    BY DEF TypeOK, Exact
  <2>3. ASSUME faults' = 0, moves' = 0
        PROVE  Accurate' /\ OnCourse'
    <3>1. faults = 0 /\ moves = 0 /\ ~ctxDone /\ truth' = truth /\ faults' = faults
      BY <2>3 DEF TypeOK, Exact
    <3>2. Accurate /\ OnCourse
      BY <3>1 DEF Exact
    <3>3. \/ ~truth.broken /\ at' = "branch" /\ status' = status
          \/ /\ truth.broken /\ at' = "done"
             /\ status' = [status EXCEPT !.error = TRUE]
      BY <3>1 DEF TypeOK
    <3>4. CASE ~truth.broken /\ at' = "branch" /\ status' = status
      <4>1. Accurate'
        BY <3>1, <3>2, <3>4 DEF TypeOK, Statuses, Repositories, Accurate, OnCourse,
          Consistent, Early, Late
      <4>2. OnCourse'
        BY <3>1, <3>2, <3>4 DEF TypeOK, Statuses, Repositories, Accurate, OnCourse,
          Consistent, Early, Late
      <4> QED BY <4>1, <4>2
    <3>5. CASE /\ truth.broken /\ at' = "done"
               /\ status' = [status EXCEPT !.error = TRUE]
      <4>1. Accurate'
        BY <3>1, <3>2, <3>5 DEF TypeOK, Statuses, Repositories, Accurate, OnCourse,
          Consistent, Early, Late
      <4>2. OnCourse'
        BY <3>1, <3>2, <3>5 DEF TypeOK, Statuses, Repositories, Accurate, OnCourse,
          Consistent, Early, Late
      <4> QED BY <4>1, <4>2
    <3> QED BY <3>3, <3>4, <3>5
  <2> QED BY <2>1, <2>2, <2>3 DEF Exact
<1>5. Composed'
  BY <1>0 DEF TypeOK, Statuses, Repositories, Consistent, Composed, Bare, Early, Late
<1> QED BY <1>1, <1>2, <1>3, <1>4, <1>5

LEMMA BranchKeeps == ASSUME StatusInv, Branch PROVE StatusInv'
<1> USE StatusAssumption DEF StatusInv, Branch,
      Runs, Fails, Killed, Continue, Stop, Finish
<1>0. /\ truth.empty \in BOOLEAN /\ truth.origin \in BOOLEAN
      /\ truth.ahead \in BOOLEAN /\ truth.behind \in BOOLEAN
  BY DEF TypeOK, Repositories
<1>1. TypeOK'
  <2>1. status' \in Statuses
    BY <1>0 DEF TypeOK, Statuses
  <2>2. truth' \in Repositories /\ at' \in Commands
    BY DEF TypeOK, Commands
  <2>3. ctxDone' \in BOOLEAN /\ pending' \in BOOLEAN /\ faults' \in Nat /\ moves' \in Nat
    BY DEF TypeOK
  <2> QED BY <2>1, <2>2, <2>3 DEF TypeOK
<1>2. Pursued'
  BY <1>0 DEF TypeOK, Statuses, Repositories, Pursued, Consistent, Flagged, Early, Work
<1>3. Consistent'
  BY <1>0 DEF TypeOK, Statuses, Repositories, Consistent, Flagged, Early, Late
<1>4. Exact'
  <2>1. moves' = 0 => (pending' <=> Work(truth'))
    BY DEF TypeOK, Repositories, Exact
  <2>2. faults' = 0 => ~ctxDone'
    BY DEF TypeOK, Exact
  <2>3. ASSUME faults' = 0, moves' = 0
        PROVE  Accurate' /\ OnCourse'
    <3>1. faults = 0 /\ moves = 0 /\ ~ctxDone /\ truth' = truth /\ faults' = faults
      BY <2>3 DEF TypeOK, Exact
    <3>2. Accurate /\ OnCourse
      BY <3>1 DEF Exact
    <3>3. \/ /\ truth.detached /\ at' = "short"
             /\ status' = [status EXCEPT !.branch = "detached"]
          \/ /\ ~truth.detached /\ at' = "head"
             /\ status' = [status EXCEPT !.branch = "named"]
      BY <3>1 DEF TypeOK
    <3>4. CASE /\ truth.detached /\ at' = "short"
               /\ status' = [status EXCEPT !.branch = "detached"]
      <4>1. Accurate'
        BY <3>1, <3>2, <3>4 DEF TypeOK, Statuses, Repositories, Accurate, OnCourse,
          Consistent, Early, Late
      <4>2. OnCourse'
        BY <3>1, <3>2, <3>4 DEF TypeOK, Statuses, Repositories, Accurate, OnCourse,
          Consistent, Early, Late
      <4> QED BY <4>1, <4>2
    <3>5. CASE /\ ~truth.detached /\ at' = "head"
               /\ status' = [status EXCEPT !.branch = "named"]
      <4>1. Accurate'
        BY <3>1, <3>2, <3>5 DEF TypeOK, Statuses, Repositories, Accurate, OnCourse,
          Consistent, Early, Late
      <4>2. OnCourse'
        BY <3>1, <3>2, <3>5 DEF TypeOK, Statuses, Repositories, Accurate, OnCourse,
          Consistent, Early, Late
      <4> QED BY <4>1, <4>2
    <3> QED BY <3>3, <3>4, <3>5
  <2> QED BY <2>1, <2>2, <2>3 DEF Exact
<1>5. Composed'
  BY <1>0 DEF TypeOK, Statuses, Repositories, Consistent, Composed, Bare, Early, Late
<1> QED BY <1>1, <1>2, <1>3, <1>4, <1>5

LEMMA ShortKeeps == ASSUME StatusInv, Short PROVE StatusInv'
<1> USE StatusAssumption DEF StatusInv, Short,
      Runs, Fails, Killed, Continue, Stop, Finish
<1>0. /\ truth.empty \in BOOLEAN /\ truth.origin \in BOOLEAN
      /\ truth.ahead \in BOOLEAN /\ truth.behind \in BOOLEAN
  BY DEF TypeOK, Repositories
<1>1. TypeOK'
  <2>1. status' \in Statuses
    BY <1>0 DEF TypeOK, Statuses
  <2>2. truth' \in Repositories /\ at' \in Commands
    BY DEF TypeOK, Commands
  <2>3. ctxDone' \in BOOLEAN /\ pending' \in BOOLEAN /\ faults' \in Nat /\ moves' \in Nat
    BY DEF TypeOK
  <2> QED BY <2>1, <2>2, <2>3 DEF TypeOK
<1>2. Pursued'
  BY <1>0 DEF TypeOK, Statuses, Repositories, Pursued, Consistent, Flagged, Early, Work
<1>3. Consistent'
  BY <1>0 DEF TypeOK, Statuses, Repositories, Consistent, Flagged, Early, Late
<1>4. Exact'
  <2>1. moves' = 0 => (pending' <=> Work(truth'))
    BY DEF TypeOK, Repositories, Exact
  <2>2. faults' = 0 => ~ctxDone'
    BY DEF TypeOK, Exact
  <2>3. ASSUME faults' = 0, moves' = 0
        PROVE  Accurate' /\ OnCourse'
    <3>1. faults = 0 /\ moves = 0 /\ ~ctxDone /\ truth' = truth /\ faults' = faults
      BY <2>3 DEF TypeOK, Exact
    <3>2. Accurate /\ OnCourse
      BY <3>1 DEF Exact
    <3>3. at = "short" /\ at' = "head" /\ status' = status
      BY <3>1 DEF TypeOK
    <3>4. Accurate'
      BY <3>1, <3>2, <3>3 DEF TypeOK, Statuses, Repositories, Accurate, OnCourse,
        Consistent, Early, Late
    <3>5. OnCourse'
      BY <3>1, <3>2, <3>3 DEF TypeOK, Statuses, Repositories, Accurate, OnCourse,
        Consistent, Early, Late
    <3> QED BY <3>4, <3>5
  <2> QED BY <2>1, <2>2, <2>3 DEF Exact
<1>5. Composed'
  BY <1>0 DEF TypeOK, Statuses, Repositories, Consistent, Composed, Bare, Early, Late
<1> QED BY <1>1, <1>2, <1>3, <1>4, <1>5

LEMMA RepoIsEmptyKeeps == ASSUME StatusInv, RepoIsEmpty PROVE StatusInv'
<1> USE StatusAssumption DEF StatusInv, RepoIsEmpty,
      Runs, Fails, Killed, Continue, Stop, Finish
<1>0. /\ truth.empty \in BOOLEAN /\ truth.origin \in BOOLEAN
      /\ truth.ahead \in BOOLEAN /\ truth.behind \in BOOLEAN
  BY DEF TypeOK, Repositories
<1>1. TypeOK'
  <2>1. status' \in Statuses
    BY <1>0 DEF TypeOK, Statuses
  <2>2. truth' \in Repositories /\ at' \in Commands
    BY DEF TypeOK, Commands
  <2>3. ctxDone' \in BOOLEAN /\ pending' \in BOOLEAN /\ faults' \in Nat /\ moves' \in Nat
    BY DEF TypeOK
  <2> QED BY <2>1, <2>2, <2>3 DEF TypeOK
<1>2. Pursued'
  BY <1>0 DEF TypeOK, Statuses, Repositories, Pursued, Consistent, Flagged, Early, Work
<1>3. Consistent'
  <2>0. truth.empty \in BOOLEAN
    BY DEF TypeOK, Repositories
  <2>1. truth' = truth /\ at = "head" /\ at' = "origin"
    BY DEF RepoIsEmpty
  <2>2. /\ status'.branch = status.branch
        /\ status'.empty => truth.empty
        /\ status'.unpushed = status.unpushed /\ status'.behind = status.behind
        /\ status'.untrackedUpstream = status.untrackedUpstream
        /\ status'.dirty = status.dirty /\ status'.clean = status.clean
    BY <2>0 DEF RepoIsEmpty, TypeOK, Statuses, Consistent
  <2>3. /\ status'.unstaged = status.unstaged /\ status'.staged = status.staged
        /\ status'.untracked = status.untracked
    BY <2>0 DEF RepoIsEmpty, TypeOK, Statuses
  <2> QED BY <2>1, <2>2, <2>3 DEF Consistent, Early, Late
<1>4. Exact'
  <2>1. moves' = 0 => (pending' <=> Work(truth'))
    BY DEF TypeOK, Repositories, Exact
  <2>2. faults' = 0 => ~ctxDone'
    BY DEF TypeOK, Exact
  <2>3. ASSUME faults' = 0, moves' = 0
        PROVE  Accurate' /\ OnCourse'
    <3>1. faults = 0 /\ moves = 0 /\ ~ctxDone /\ truth' = truth /\ faults' = faults
      BY <2>3 DEF TypeOK, Exact
    <3>2. Accurate /\ OnCourse
      BY <3>1 DEF Exact
    <3>3. /\ at = "head" /\ at' = "origin"
          /\ status' = [status EXCEPT !.empty = truth.empty]
      BY <3>1 DEF TypeOK
    <3>4. Accurate'
      BY <3>1, <3>2, <3>3 DEF TypeOK, Statuses, Repositories, Accurate, OnCourse,
        Consistent, Early, Late
    <3>5. OnCourse'
      BY <3>1, <3>2, <3>3 DEF TypeOK, Statuses, Repositories, Accurate, OnCourse,
        Consistent, Early, Late
    <3> QED BY <3>4, <3>5
  <2> QED BY <2>1, <2>2, <2>3 DEF Exact
<1>5. Composed'
  BY <1>0 DEF TypeOK, Statuses, Repositories, Consistent, Composed, Bare, Early, Late
<1> QED BY <1>1, <1>2, <1>3, <1>4, <1>5

LEMMA OriginKeeps == ASSUME StatusInv, Origin PROVE StatusInv'
<1> USE StatusAssumption DEF StatusInv, Origin, TreeChecks,
      Runs, Fails, Killed, Continue, Stop, Finish
<1>0. /\ truth.empty \in BOOLEAN /\ truth.origin \in BOOLEAN
      /\ truth.ahead \in BOOLEAN /\ truth.behind \in BOOLEAN
  BY DEF TypeOK, Repositories
<1>1. TypeOK'
  <2>1. status' \in Statuses
    BY <1>0 DEF TypeOK, Statuses
  <2>2. truth' \in Repositories /\ at' \in Commands
    BY DEF TypeOK, Commands
  <2>3. ctxDone' \in BOOLEAN /\ pending' \in BOOLEAN /\ faults' \in Nat /\ moves' \in Nat
    BY DEF TypeOK
  <2> QED BY <2>1, <2>2, <2>3 DEF TypeOK
<1>2. Pursued'
  BY <1>0 DEF TypeOK, Statuses, Repositories, Pursued, Consistent, Flagged, Early, Work
<1>3. Consistent'
  BY <1>0 DEF TypeOK, Statuses, Repositories, Consistent, Flagged, Early, Late
<1>4. Exact'
  <2>1. moves' = 0 => (pending' <=> Work(truth'))
    BY DEF TypeOK, Repositories, Exact
  <2>2. faults' = 0 => ~ctxDone'
    BY DEF TypeOK, Exact
  <2>3. ASSUME faults' = 0, moves' = 0
        PROVE  Accurate' /\ OnCourse'
    <3>1. faults = 0 /\ moves = 0 /\ ~ctxDone /\ truth' = truth /\ faults' = faults
      BY <2>3 DEF TypeOK, Exact
    <3>2. Accurate /\ OnCourse
      BY <3>1 DEF Exact
    <3>3. /\ at = "origin" /\ at' = "unstaged"
          /\ status' = [status EXCEPT !.origin = truth.origin]
      BY <3>1 DEF TypeOK
    <3>4. Accurate'
      BY <3>1, <3>2, <3>3 DEF TypeOK, Statuses, Repositories, Accurate, OnCourse,
        Consistent, Early, Late
    <3>5. OnCourse'
      BY <3>1, <3>2, <3>3 DEF TypeOK, Statuses, Repositories, Accurate, OnCourse,
        Consistent, Early, Late
    <3> QED BY <3>4, <3>5
  <2> QED BY <2>1, <2>2, <2>3 DEF Exact
<1>5. Composed'
  BY <1>0 DEF TypeOK, Statuses, Repositories, Consistent, Composed, Bare, Early, Late
<1> QED BY <1>1, <1>2, <1>3, <1>4, <1>5

LEMMA TreeKeeps == ASSUME StatusInv, NEW i \in 1..Len(TreeChecks), Tree(i) PROVE StatusInv'
<1> USE StatusAssumption DEF StatusInv, Runs, Fails, Killed, Continue, Stop
<1>0. /\ i \in {1, 2, 3} /\ Len(TreeChecks) = 3
      /\ TreeChecks[1] = "unstaged" /\ TreeChecks[2] = "staged"
      /\ TreeChecks[3] = "untracked"
  BY DEF TreeChecks
<1>7. /\ truth.unstaged \in BOOLEAN /\ truth.staged \in BOOLEAN
      /\ truth.untracked \in BOOLEAN
  BY DEF TypeOK, Repositories
<1>1. truth' = truth /\ pending' = pending /\ moves' = moves /\ ctxDone' = ctxDone
  BY DEF Tree
<1>2. \/ /\ at = "unstaged" /\ at' = "staged" /\ faults' = faults /\ ~ctxDone
         /\ status' = [status EXCEPT !.unstaged = truth.unstaged]
      \/ /\ at = "staged" /\ at' = "untracked" /\ faults' = faults /\ ~ctxDone
         /\ status' = [status EXCEPT !.staged = truth.staged]
      \/ /\ at = "untracked" /\ at' = "sha" /\ faults' = faults /\ ~ctxDone
         /\ status' = [status EXCEPT !.untracked = truth.untracked]
      \/ /\ at \in {"unstaged", "staged", "untracked"} /\ at' = "done"
         /\ status' = [status EXCEPT !.error = TRUE]
         /\ faults' = faults + 1 \/ (ctxDone /\ faults' = faults)
  BY <1>0 DEF Tree
<1>3. ASSUME /\ at = "unstaged" /\ at' = "staged" /\ faults' = faults /\ ~ctxDone
             /\ status' = [status EXCEPT !.unstaged = truth.unstaged]
      PROVE  StatusInv'
  <2>1. TypeOK'
    BY <1>7, <1>1, <1>3 DEF TypeOK, Statuses, Commands
  <2>2. Pursued'
    BY <1>7, <1>1, <1>3 DEF TypeOK, Statuses, Pursued, Consistent, Flagged, Early, Work
  <2>3. Consistent'
    BY <1>7, <1>1, <1>3 DEF TypeOK, Statuses, Consistent, Flagged, Early, Late
  <2>4. Exact'
    BY <1>7, <1>1, <1>3 DEF TypeOK, Statuses, Exact, Accurate, OnCourse
  <2>5. Composed'
    BY <1>7, <1>1, <1>3 DEF TypeOK, Statuses, Consistent, Composed, Bare, Early, Late
  <2> QED BY <2>1, <2>2, <2>3, <2>4, <2>5
<1>4. ASSUME /\ at = "staged" /\ at' = "untracked" /\ faults' = faults /\ ~ctxDone
             /\ status' = [status EXCEPT !.staged = truth.staged]
      PROVE  StatusInv'
  <2>1. TypeOK'
    BY <1>7, <1>1, <1>4 DEF TypeOK, Statuses, Commands
  <2>2. Pursued'
    BY <1>7, <1>1, <1>4 DEF TypeOK, Statuses, Pursued, Consistent, Flagged, Early, Work
  <2>3. Consistent'
    BY <1>7, <1>1, <1>4 DEF TypeOK, Statuses, Consistent, Flagged, Early, Late
  <2>4. Exact'
    BY <1>7, <1>1, <1>4 DEF TypeOK, Statuses, Exact, Accurate, OnCourse
  <2>5. Composed'
    BY <1>7, <1>1, <1>4 DEF TypeOK, Statuses, Consistent, Composed, Bare, Early, Late
  <2> QED BY <2>1, <2>2, <2>3, <2>4, <2>5
<1>5. ASSUME /\ at = "untracked" /\ at' = "sha" /\ faults' = faults /\ ~ctxDone
             /\ status' = [status EXCEPT !.untracked = truth.untracked]
      PROVE  StatusInv'
  <2>1. TypeOK'
    BY <1>7, <1>1, <1>5 DEF TypeOK, Statuses, Commands
  <2>2. Pursued'
    BY <1>7, <1>1, <1>5 DEF TypeOK, Statuses, Pursued, Consistent, Flagged, Early, Work
  <2>3. Consistent'
    BY <1>7, <1>1, <1>5 DEF TypeOK, Statuses, Consistent, Flagged, Early, Late
  <2>4. Exact'
    BY <1>7, <1>1, <1>5 DEF TypeOK, Statuses, Exact, Accurate, OnCourse
  <2>5. Composed'
    BY <1>7, <1>1, <1>5 DEF TypeOK, Statuses, Consistent, Composed, Bare, Early, Late
  <2> QED BY <2>1, <2>2, <2>3, <2>4, <2>5
<1>6. ASSUME /\ at \in {"unstaged", "staged", "untracked"} /\ at' = "done"
             /\ status' = [status EXCEPT !.error = TRUE]
             /\ faults' = faults + 1 \/ (ctxDone /\ faults' = faults)
      PROVE  StatusInv'
  <2>1. TypeOK'
    <3>1. status' \in Statuses
      BY <1>6 DEF TypeOK, Statuses
    <3>2. faults' \in Nat
      BY <1>6 DEF TypeOK
    <3> QED BY <1>1, <1>6, <3>1, <3>2 DEF TypeOK, Commands
  <2>2. Pursued'
    BY <1>1, <1>6 DEF TypeOK, Statuses, Pursued, Flagged
  <2>3. Consistent'
    BY <1>1, <1>6 DEF TypeOK, Statuses, Consistent, Flagged, Early, Late
  <2>4. Exact'
    BY <1>1, <1>6 DEF TypeOK, Exact
  <2>5. Composed'
    BY <1>1, <1>6 DEF TypeOK, Statuses, Consistent, Composed, Bare, Early, Late
  <2> QED BY <2>1, <2>2, <2>3, <2>4, <2>5
<1> QED BY <1>2, <1>3, <1>4, <1>5, <1>6

LEMMA ShaKeeps == ASSUME StatusInv, Sha PROVE StatusInv'
<1> USE StatusAssumption DEF StatusInv, Sha, AfterSha,
      Runs, Fails, Killed, Continue, Stop, Finish
<1>0. /\ truth.empty \in BOOLEAN /\ truth.origin \in BOOLEAN
      /\ truth.ahead \in BOOLEAN /\ truth.behind \in BOOLEAN
  BY DEF TypeOK, Repositories
<1>1. TypeOK'
  <2>1. status' \in Statuses
    BY <1>0 DEF TypeOK, Statuses
  <2>2. truth' \in Repositories /\ at' \in Commands
    BY DEF TypeOK, Commands
  <2>3. ctxDone' \in BOOLEAN /\ pending' \in BOOLEAN /\ faults' \in Nat /\ moves' \in Nat
    BY DEF TypeOK
  <2> QED BY <2>1, <2>2, <2>3 DEF TypeOK
<1>2. Pursued'
  BY <1>0 DEF TypeOK, Statuses, Repositories, Pursued, Consistent, Flagged, Early, Work
<1>3. Consistent'
  BY <1>0 DEF TypeOK, Statuses, Repositories, Consistent, Flagged, Early, Late
<1>4. Exact'
  <2>1. moves' = 0 => (pending' <=> Work(truth'))
    BY DEF TypeOK, Repositories, Exact
  <2>2. faults' = 0 => ~ctxDone'
    BY DEF TypeOK, Exact
  <2>3. ASSUME faults' = 0, moves' = 0
        PROVE  Accurate' /\ OnCourse'
    <3>1. faults = 0 /\ moves = 0 /\ ~ctxDone /\ truth' = truth /\ faults' = faults
      BY <2>3 DEF TypeOK, Exact
    <3>2. Accurate /\ OnCourse
      BY <3>1 DEF Exact
    <3>3. \/ status.empty /\ Finish(status)
          \/ /\ ~status.empty /\ at = "sha" /\ at' \in {"unreachable", "upstream"}
             /\ (at' = "unreachable" <=> status.branch = "detached")
             /\ status' = [status EXCEPT !.sha = ~truth.empty]
      BY <3>1 DEF TypeOK
    <3>4. CASE status.empty /\ Finish(status)
      <4>1. Accurate'
        BY <3>1, <3>2, <3>4 DEF TypeOK, Statuses, Repositories, Accurate, OnCourse,
          Consistent, Early, Late
      <4>2. OnCourse'
        BY <3>1, <3>2, <3>4 DEF TypeOK, Statuses, Repositories, Accurate, OnCourse,
          Consistent, Early, Late
      <4> QED BY <4>1, <4>2
    <3>5. CASE /\ ~status.empty /\ at = "sha" /\ at' \in {"unreachable", "upstream"}
             /\ (at' = "unreachable" <=> status.branch = "detached")
               /\ status' = [status EXCEPT !.sha = ~truth.empty]
      <4>1. Accurate'
        BY <3>1, <3>2, <3>5 DEF TypeOK, Statuses, Repositories, Accurate, OnCourse,
          Consistent, Early, Late
      <4>2. OnCourse'
        BY <3>1, <3>2, <3>5 DEF TypeOK, Statuses, Repositories, Accurate, OnCourse,
          Consistent, Early, Late
      <4> QED BY <4>1, <4>2
    <3> QED BY <3>3, <3>4, <3>5
  <2> QED BY <2>1, <2>2, <2>3 DEF Exact
<1>5. Composed'
  BY <1>0 DEF TypeOK, Statuses, Repositories, Consistent, Composed, Bare, Early, Late
<1> QED BY <1>1, <1>2, <1>3, <1>4, <1>5

LEMMA UpstreamKeeps == ASSUME StatusInv, Upstream PROVE StatusInv'
<1> USE StatusAssumption DEF StatusInv, Upstream,
      Runs, Fails, Killed, Continue, Stop, Finish
<1>0. /\ truth.empty \in BOOLEAN /\ truth.origin \in BOOLEAN
      /\ truth.ahead \in BOOLEAN /\ truth.behind \in BOOLEAN
  BY DEF TypeOK, Repositories
<1>1. TypeOK'
  <2>1. status' \in Statuses
    BY <1>0 DEF TypeOK, Statuses
  <2>2. truth' \in Repositories /\ at' \in Commands
    BY DEF TypeOK, Commands
  <2>3. ctxDone' \in BOOLEAN /\ pending' \in BOOLEAN /\ faults' \in Nat /\ moves' \in Nat
    BY DEF TypeOK
  <2> QED BY <2>1, <2>2, <2>3 DEF TypeOK
<1>2. Pursued'
  BY <1>0 DEF TypeOK, Statuses, Repositories, Pursued, Consistent, Flagged, Early, Work
<1>3. Consistent'
  BY <1>0 DEF TypeOK, Statuses, Repositories, Consistent, Flagged, Early, Late
<1>4. Exact'
  <2>1. moves' = 0 => (pending' <=> Work(truth'))
    BY DEF TypeOK, Repositories, Exact
  <2>2. faults' = 0 => ~ctxDone'
    BY DEF TypeOK, Exact
  <2>3. ASSUME faults' = 0, moves' = 0
        PROVE  Accurate' /\ OnCourse'
    <3>1. faults = 0 /\ moves = 0 /\ ~ctxDone /\ truth' = truth /\ faults' = faults
      BY <2>3 DEF TypeOK, Exact
    <3>2. Accurate /\ OnCourse
      BY <3>1 DEF Exact
    <3>3. at = "upstream" =>
              ~truth.empty /\ ~truth.detached /\ truth.upstream \in {"ok", "none", "gone"}
      BY <3>2 DEF Consistent, OnCourse, Late, TypeOK, Repositories
    <3>4. \/ at = "upstream" /\ at' = "ahead" /\ status' = status
          \/ /\ at = "upstream" /\ ~truth.empty /\ truth.upstream = "none"
             /\ Finish([status EXCEPT !.untrackedUpstream = TRUE])
          \/ /\ at = "upstream" /\ truth.upstream = "gone" /\ at' = "ref"
             /\ status' = status
      BY <3>1, <3>3 DEF TypeOK
    <3>5. CASE at = "upstream" /\ at' = "ahead" /\ status' = status
      <4>1. Accurate'
        BY <3>1, <3>2, <3>5 DEF TypeOK, Statuses, Repositories, Accurate, OnCourse,
          Consistent, Early, Late
      <4>2. OnCourse'
        BY <3>1, <3>2, <3>5 DEF TypeOK, Statuses, Repositories, Accurate, OnCourse,
          Consistent, Early, Late
      <4> QED BY <4>1, <4>2
    <3>6. CASE /\ at = "upstream" /\ ~truth.empty /\ truth.upstream = "none"
               /\ Finish([status EXCEPT !.untrackedUpstream = TRUE])
      <4>1. Accurate'
        BY <3>1, <3>2, <3>6 DEF TypeOK, Statuses, Repositories, Accurate, OnCourse,
          Consistent, Early, Late
      <4>2. OnCourse'
        BY <3>1, <3>2, <3>6 DEF TypeOK, Statuses, Repositories, Accurate, OnCourse,
          Consistent, Early, Late
      <4> QED BY <4>1, <4>2
    <3>7. CASE /\ at = "upstream" /\ truth.upstream = "gone" /\ at' = "ref"
               /\ status' = status
      <4>1. Accurate'
        BY <3>1, <3>2, <3>7 DEF TypeOK, Statuses, Repositories, Accurate, OnCourse,
          Consistent, Early, Late
      <4>2. OnCourse'
        BY <3>1, <3>2, <3>7 DEF TypeOK, Statuses, Repositories, Accurate, OnCourse,
          Consistent, Early, Late
      <4> QED BY <4>1, <4>2
    <3> QED BY <3>4, <3>5, <3>6, <3>7
  <2> QED BY <2>1, <2>2, <2>3 DEF Exact
<1>5. Composed'
  BY <1>0 DEF TypeOK, Statuses, Repositories, Consistent, Composed, Bare, Early, Late
<1> QED BY <1>1, <1>2, <1>3, <1>4, <1>5

LEMMA RefKeeps == ASSUME StatusInv, Ref PROVE StatusInv'
<1> USE StatusAssumption DEF StatusInv, Ref,
      Runs, Fails, Killed, Continue, Stop, Finish
<1>0. /\ truth.empty \in BOOLEAN /\ truth.origin \in BOOLEAN
      /\ truth.ahead \in BOOLEAN /\ truth.behind \in BOOLEAN
  BY DEF TypeOK, Repositories
<1>1. TypeOK'
  <2>1. status' \in Statuses
    BY <1>0 DEF TypeOK, Statuses
  <2>2. truth' \in Repositories /\ at' \in Commands
    BY DEF TypeOK, Commands
  <2>3. ctxDone' \in BOOLEAN /\ pending' \in BOOLEAN /\ faults' \in Nat /\ moves' \in Nat
    BY DEF TypeOK
  <2> QED BY <2>1, <2>2, <2>3 DEF TypeOK
<1>2. Pursued'
  BY <1>0 DEF TypeOK, Statuses, Repositories, Pursued, Consistent, Flagged, Early, Work
<1>3. Consistent'
  BY <1>0 DEF TypeOK, Statuses, Repositories, Consistent, Flagged, Early, Late
<1>4. Exact'
  <2>1. moves' = 0 => (pending' <=> Work(truth'))
    BY DEF TypeOK, Repositories, Exact
  <2>2. faults' = 0 => ~ctxDone'
    BY DEF TypeOK, Exact
  <2>3. ASSUME faults' = 0, moves' = 0
        PROVE  Accurate' /\ OnCourse'
    <3>1. faults = 0 /\ moves = 0 /\ ~ctxDone /\ truth' = truth /\ faults' = faults
      BY <2>3 DEF TypeOK, Exact
    <3>2. Accurate /\ OnCourse
      BY <3>1 DEF Exact
    <3>3. at = "ref" => status.branch = "named" /\ truth.upstream = "gone"
      BY <3>2 DEF OnCourse
    <3>4. at = "ref" /\ at' = "verify" /\ status' = status
      BY <3>1, <3>3 DEF TypeOK
    <3>5. Accurate'
      BY <3>1, <3>2, <3>4 DEF TypeOK, Statuses, Repositories, Accurate, OnCourse,
        Consistent, Early, Late
    <3>6. OnCourse'
      BY <3>1, <3>2, <3>4 DEF TypeOK, Statuses, Repositories, Accurate, OnCourse,
        Consistent, Early, Late
    <3> QED BY <3>5, <3>6
  <2> QED BY <2>1, <2>2, <2>3 DEF Exact
<1>5. Composed'
  BY <1>0 DEF TypeOK, Statuses, Repositories, Consistent, Composed, Bare, Early, Late
<1> QED BY <1>1, <1>2, <1>3, <1>4, <1>5

LEMMA VerifyKeeps == ASSUME StatusInv, Verify PROVE StatusInv'
<1> USE StatusAssumption DEF StatusInv, Verify,
      Runs, Fails, Killed, Continue, Stop, Finish
<1>0. /\ truth.empty \in BOOLEAN /\ truth.origin \in BOOLEAN
      /\ truth.ahead \in BOOLEAN /\ truth.behind \in BOOLEAN
  BY DEF TypeOK, Repositories
<1>1. TypeOK'
  <2>1. status' \in Statuses
    BY <1>0 DEF TypeOK, Statuses
  <2>2. truth' \in Repositories /\ at' \in Commands
    BY DEF TypeOK, Commands
  <2>3. ctxDone' \in BOOLEAN /\ pending' \in BOOLEAN /\ faults' \in Nat /\ moves' \in Nat
    BY DEF TypeOK
  <2> QED BY <2>1, <2>2, <2>3 DEF TypeOK
<1>2. Pursued'
  BY <1>0 DEF TypeOK, Statuses, Repositories, Pursued, Consistent, Flagged, Early, Work
<1>3. Consistent'
  <2> DEFINE found == [status EXCEPT !.untrackedUpstream = TRUE]
             failed == [status EXCEPT !.error = TRUE]
  <2>1. /\ at \in Late /\ ~truth.broken /\ truth' = truth
        /\ Finish(found) \/ Finish(failed)
    BY DEF Late, Consistent
  <2>2. ASSUME NEW s \in Statuses, Finish(s),
               s.branch = status.branch, s.empty = status.empty
        PROVE  Consistent'
    BY <2>1, <2>2 DEF Statuses, Consistent, Flagged, Early, Late
  <2>3. /\ found \in Statuses
        /\ found.branch = status.branch /\ found.empty = status.empty
        /\ failed \in Statuses
        /\ failed.branch = status.branch /\ failed.empty = status.empty
    BY <1>0 DEF TypeOK, Statuses
  <2> HIDE DEF found, failed
  <2> QED BY ONLY <2>1, <2>2, <2>3
<1>4. Exact'
  <2>1. moves' = 0 => (pending' <=> Work(truth'))
    BY DEF TypeOK, Repositories, Exact
  <2>2. faults' = 0 => ~ctxDone'
    BY DEF TypeOK, Exact
  <2>3. ASSUME faults' = 0, moves' = 0
        PROVE  Accurate' /\ OnCourse'
    <3>1. faults = 0 /\ moves = 0 /\ ~ctxDone /\ truth' = truth /\ faults' = faults
      BY <2>3 DEF TypeOK, Exact
    <3>2. Accurate /\ OnCourse
      BY <3>1 DEF Exact
    <3>3. at = "verify" => truth.upstream = "gone"
      BY <3>2 DEF OnCourse
    <3>4. /\ at = "verify" /\ truth.upstream = "gone"
          /\ Finish([status EXCEPT !.untrackedUpstream = TRUE])
      BY <3>1, <3>3 DEF TypeOK
    <3>5. Accurate'
      BY <3>1, <3>2, <3>4 DEF TypeOK, Statuses, Repositories, Accurate, OnCourse,
        Consistent, Early, Late
    <3>6. OnCourse'
      BY <3>1, <3>2, <3>4 DEF TypeOK, Statuses, Repositories, Accurate, OnCourse,
        Consistent, Early, Late
    <3> QED BY <3>5, <3>6
  <2> QED BY <2>1, <2>2, <2>3 DEF Exact
<1>5. Composed'
  BY <1>0 DEF TypeOK, Statuses, Repositories, Consistent, Composed, Bare, Early, Late
<1> QED BY <1>1, <1>2, <1>3, <1>4, <1>5

LEMMA AheadKeeps == ASSUME StatusInv, Ahead PROVE StatusInv'
<1> USE StatusAssumption DEF StatusInv, Ahead, Uncounted,
      Runs, Fails, Killed, Continue, Stop, Finish
<1>0. /\ truth.empty \in BOOLEAN /\ truth.origin \in BOOLEAN
      /\ truth.ahead \in BOOLEAN /\ truth.behind \in BOOLEAN
  BY DEF TypeOK, Repositories
<1>1. TypeOK'
  <2>1. status' \in Statuses
    BY <1>0 DEF TypeOK, Statuses
  <2>2. truth' \in Repositories /\ at' \in Commands
    BY DEF TypeOK, Commands
  <2>3. ctxDone' \in BOOLEAN /\ pending' \in BOOLEAN /\ faults' \in Nat /\ moves' \in Nat
    BY DEF TypeOK
  <2> QED BY <2>1, <2>2, <2>3 DEF TypeOK
<1>2. Pursued'
  <2>0. /\ truth.empty \in BOOLEAN /\ truth.origin \in BOOLEAN
        /\ truth.ahead \in BOOLEAN /\ truth.behind \in BOOLEAN
    BY DEF TypeOK, Repositories
  <2>1. truth' = truth /\ pending' = pending /\ at = "ahead"
    BY DEF Ahead
  <2>2. CASE at' = "behind" /\ status' = [status EXCEPT !.unpushed = truth.ahead]
    <3>0. /\ status'.unpushed = truth.ahead
          /\ status'.error = status.error
          /\ status'.unstaged = status.unstaged
          /\ status'.staged = status.staged
          /\ status'.untracked = status.untracked
          /\ status'.behind = status.behind
          /\ status'.untrackedUpstream = status.untrackedUpstream
      BY <2>0, <2>2 DEF TypeOK, Statuses
    <3>1. Flagged(status') \/ (~Flagged(status) /\ ~truth.ahead)
      BY <2>1, <3>0 DEF Flagged, Consistent
    <3> QED BY <2>1, <2>2, <3>1 DEF Pursued, Early
  <2>3. CASE status'.error
    BY <2>1, <2>3 DEF Pursued, Flagged
  <2> QED BY <2>2, <2>3 DEF Ahead, Uncounted, TypeOK, Statuses
<1>3. Consistent'
  BY <1>0 DEF TypeOK, Statuses, Repositories, Consistent, Flagged, Early, Late
<1>4. Exact'
  <2>1. moves' = 0 => (pending' <=> Work(truth'))
    BY DEF TypeOK, Repositories, Exact
  <2>2. faults' = 0 => ~ctxDone'
    BY DEF TypeOK, Exact
  <2>3. ASSUME faults' = 0, moves' = 0
        PROVE  Accurate' /\ OnCourse'
    <3>1. faults = 0 /\ moves = 0 /\ ~ctxDone /\ truth' = truth /\ faults' = faults
      BY <2>3 DEF TypeOK, Exact
    <3>2. Accurate /\ OnCourse
      BY <3>1 DEF Exact
    <3>3. /\ at = "ahead" /\ at' = "behind"
          /\ status' = [status EXCEPT !.unpushed = truth.ahead]
      BY <3>1 DEF TypeOK
    <3>4. Accurate'
      BY <3>1, <3>2, <3>3 DEF TypeOK, Statuses, Repositories, Accurate, OnCourse,
        Consistent, Early, Late
    <3>5. OnCourse'
      BY <3>1, <3>2, <3>3 DEF TypeOK, Statuses, Repositories, Accurate, OnCourse,
        Consistent, Early, Late
    <3> QED BY <3>4, <3>5
  <2> QED BY <2>1, <2>2, <2>3 DEF Exact
<1>5. Composed'
  BY <1>0 DEF TypeOK, Statuses, Repositories, Consistent, Composed, Bare, Early, Late
<1> QED BY <1>1, <1>2, <1>3, <1>4, <1>5

LEMMA BehindKeeps == ASSUME StatusInv, Behind PROVE StatusInv'
<1> USE StatusAssumption DEF StatusInv, Behind, Uncounted,
      Runs, Fails, Killed, Continue, Stop, Finish
<1>0. /\ truth.empty \in BOOLEAN /\ truth.origin \in BOOLEAN
      /\ truth.ahead \in BOOLEAN /\ truth.behind \in BOOLEAN
  BY DEF TypeOK, Repositories
<1>1. TypeOK'
  <2>1. status' \in Statuses
    BY <1>0 DEF TypeOK, Statuses
  <2>2. truth' \in Repositories /\ at' \in Commands
    BY DEF TypeOK, Commands
  <2>3. ctxDone' \in BOOLEAN /\ pending' \in BOOLEAN /\ faults' \in Nat /\ moves' \in Nat
    BY DEF TypeOK
  <2> QED BY <2>1, <2>2, <2>3 DEF TypeOK
<1>2. Pursued'
  <2>0. /\ truth.empty \in BOOLEAN /\ truth.origin \in BOOLEAN
        /\ truth.ahead \in BOOLEAN /\ truth.behind \in BOOLEAN
    BY DEF TypeOK, Repositories
  <2>1. truth' = truth /\ pending' = pending /\ at = "behind"
    BY DEF Behind
  <2>2. CASE Finish([status EXCEPT !.behind = truth.behind])
    <3>0. /\ status'.behind = truth.behind
          /\ status'.error = status.error
          /\ status'.unstaged = status.unstaged
          /\ status'.staged = status.staged
          /\ status'.untracked = status.untracked
          /\ status'.unpushed = status.unpushed
          /\ status'.untrackedUpstream = status.untrackedUpstream
      BY <2>0, <2>2 DEF TypeOK, Statuses
    <3>1. Flagged(status') \/ (~Flagged(status) /\ ~truth.behind)
      BY <2>1, <3>0 DEF Flagged, Consistent
    <3>2. ~pending \/ Flagged(status')
      BY <2>1, <3>1 DEF Pursued, Early, Work, Consistent
    <3> QED BY <2>1, <2>2, <3>2 DEF Pursued
  <2>3. CASE status'.error
    BY <2>1, <2>3 DEF Pursued, Flagged
  <2> QED BY <2>2, <2>3 DEF Behind, Uncounted, TypeOK, Statuses
<1>3. Consistent'
  <2> DEFINE found == [status EXCEPT !.behind = truth.behind]
             failed == [status EXCEPT !.error = TRUE]
  <2>1. /\ at \in Late /\ ~truth.broken /\ truth' = truth
        /\ Finish(found) \/ Finish(failed)
    BY DEF Late, Consistent
  <2>2. ASSUME NEW s \in Statuses, Finish(s),
               s.branch = status.branch, s.empty = status.empty
        PROVE  Consistent'
    BY <2>1, <2>2 DEF Statuses, Consistent, Flagged, Early, Late
  <2>3. /\ found \in Statuses
        /\ found.branch = status.branch /\ found.empty = status.empty
        /\ failed \in Statuses
        /\ failed.branch = status.branch /\ failed.empty = status.empty
    BY <1>0 DEF TypeOK, Statuses
  <2> HIDE DEF found, failed
  <2> QED BY ONLY <2>1, <2>2, <2>3
<1>4. Exact'
  <2>1. moves' = 0 => (pending' <=> Work(truth'))
    BY DEF TypeOK, Repositories, Exact
  <2>2. faults' = 0 => ~ctxDone'
    BY DEF TypeOK, Exact
  <2>3. ASSUME faults' = 0, moves' = 0
        PROVE  Accurate' /\ OnCourse'
    <3>1. faults = 0 /\ moves = 0 /\ ~ctxDone /\ truth' = truth /\ faults' = faults
      BY <2>3 DEF TypeOK, Exact
    <3>2. Accurate /\ OnCourse
      BY <3>1 DEF Exact
    <3>3. at = "behind" /\ Finish([status EXCEPT !.behind = truth.behind])
      BY <3>1 DEF TypeOK
    <3>4. Accurate'
      BY <3>1, <3>2, <3>3 DEF TypeOK, Statuses, Repositories, Accurate, OnCourse,
        Consistent, Early, Late
    <3>5. OnCourse'
      BY <3>1, <3>2, <3>3 DEF TypeOK, Statuses, Repositories, Accurate, OnCourse,
        Consistent, Early, Late
    <3> QED BY <3>4, <3>5
  <2> QED BY <2>1, <2>2, <2>3 DEF Exact
<1>5. Composed'
  BY <1>0 DEF TypeOK, Statuses, Repositories, Consistent, Composed, Bare, Early, Late
<1> QED BY <1>1, <1>2, <1>3, <1>4, <1>5

LEMMA UnreachableKeeps == ASSUME StatusInv, Unreachable PROVE StatusInv'
<1> USE StatusAssumption DEF StatusInv, Unreachable, Uncounted,
      Runs, Fails, Killed, Continue, Stop, Finish
<1>0. /\ truth.empty \in BOOLEAN /\ truth.origin \in BOOLEAN
      /\ truth.ahead \in BOOLEAN /\ truth.behind \in BOOLEAN
  BY DEF TypeOK, Repositories
<1>1. TypeOK'
  <2>1. status' \in Statuses
    BY <1>0 DEF TypeOK, Statuses
  <2>2. truth' \in Repositories /\ at' \in Commands
    BY DEF TypeOK, Commands
  <2>3. ctxDone' \in BOOLEAN /\ pending' \in BOOLEAN /\ faults' \in Nat /\ moves' \in Nat
    BY DEF TypeOK
  <2> QED BY <2>1, <2>2, <2>3 DEF TypeOK
<1>2. Pursued'
  <2>0. /\ truth.empty \in BOOLEAN /\ truth.origin \in BOOLEAN
        /\ truth.ahead \in BOOLEAN /\ truth.behind \in BOOLEAN
    BY DEF TypeOK, Repositories
  <2>1. truth' = truth /\ pending' = pending /\ at = "unreachable"
    BY DEF Unreachable
  <2>2. CASE Finish([status EXCEPT !.unpushed = truth.ahead])
    <3>0. /\ status'.unpushed = truth.ahead
          /\ status'.error = status.error
          /\ status'.unstaged = status.unstaged
          /\ status'.staged = status.staged
          /\ status'.untracked = status.untracked
          /\ status'.behind = status.behind
          /\ status'.untrackedUpstream = status.untrackedUpstream
      BY <2>0, <2>2 DEF TypeOK, Statuses
    <3>1. Flagged(status') \/ (~Flagged(status) /\ ~truth.ahead)
      BY <2>1, <3>0 DEF Flagged, Consistent
    <3>2. ~pending \/ Flagged(status')
      BY <2>1, <3>1 DEF Pursued, Early, Work, Consistent
    <3> QED BY <2>1, <2>2, <3>2 DEF Pursued
  <2>3. CASE status'.error
    BY <2>1, <2>3 DEF Pursued, Flagged
  <2> QED BY <2>2, <2>3 DEF Unreachable, Uncounted, TypeOK, Statuses
<1>3. Consistent'
  <2> DEFINE found == [status EXCEPT !.unpushed = truth.ahead]
             failed == [status EXCEPT !.error = TRUE]
  <2>1. /\ at \in Late /\ ~truth.broken /\ truth' = truth
        /\ Finish(found) \/ Finish(failed)
    BY DEF Late, Consistent
  <2>2. ASSUME NEW s \in Statuses, Finish(s),
               s.branch = status.branch, s.empty = status.empty
        PROVE  Consistent'
    BY <2>1, <2>2 DEF Statuses, Consistent, Flagged, Early, Late
  <2>3. /\ found \in Statuses
        /\ found.branch = status.branch /\ found.empty = status.empty
        /\ failed \in Statuses
        /\ failed.branch = status.branch /\ failed.empty = status.empty
    BY <1>0 DEF TypeOK, Statuses
  <2> HIDE DEF found, failed
  <2> QED BY ONLY <2>1, <2>2, <2>3
<1>4. Exact'
  <2>1. moves' = 0 => (pending' <=> Work(truth'))
    BY DEF TypeOK, Repositories, Exact
  <2>2. faults' = 0 => ~ctxDone'
    BY DEF TypeOK, Exact
  <2>3. ASSUME faults' = 0, moves' = 0
        PROVE  Accurate' /\ OnCourse'
    <3>1. faults = 0 /\ moves = 0 /\ ~ctxDone /\ truth' = truth /\ faults' = faults
      BY <2>3 DEF TypeOK, Exact
    <3>2. Accurate /\ OnCourse
      BY <3>1 DEF Exact
    <3>3. /\ at = "unreachable"
          /\ Finish([status EXCEPT !.unpushed = truth.ahead])
      BY <3>1 DEF TypeOK
    <3>4. Accurate'
      BY <3>1, <3>2, <3>3 DEF TypeOK, Statuses, Repositories, Accurate, OnCourse,
        Consistent, Early, Late
    <3>5. OnCourse'
      BY <3>1, <3>2, <3>3 DEF TypeOK, Statuses, Repositories, Accurate, OnCourse,
        Consistent, Early, Late
    <3> QED BY <3>4, <3>5
  <2> QED BY <2>1, <2>2, <2>3 DEF Exact
<1>5. Composed'
  <2>1. /\ at' = "done" /\ status.branch = "detached" /\ ~status.empty
        /\ ~status.behind /\ ~status.untrackedUpstream
    BY DEF Consistent, Late
  <2>2. /\ status'.branch = status.branch /\ status'.empty = status.empty
        /\ status'.behind = status.behind
        /\ status'.untrackedUpstream = status.untrackedUpstream
    BY DEF TypeOK, Statuses, Uncounted
  <2> QED BY ONLY <2>1, <2>2 DEF Composed
<1> QED BY <1>1, <1>2, <1>3, <1>4, <1>5

-------------------------------------------------------------------------------
(* Somebody works in the repository, and the deadline of the scan.            *)

LEMMA StageKeeps == ASSUME StatusInv, Stage PROVE StatusInv'
<1> USE StatusAssumption DEF StatusInv, Stage, MoveTo
<1>1. TypeOK'
  <2>1. truth' \in Repositories
    BY DEF TypeOK, Repositories
  <2>2. pending' \in BOOLEAN /\ moves' \in Nat
    BY DEF TypeOK
  <2> QED BY <2>1, <2>2 DEF TypeOK
<1>2. Pursued'
  BY  DEF TypeOK, Repositories, Pursued, Consistent, Flagged, Early, Work
<1>3. Consistent'
  BY  DEF TypeOK, Repositories, Consistent, Flagged, Early, Late
<1>4. Exact'
  BY DEF TypeOK, Exact
<1>5. Composed'
  BY DEF TypeOK, Statuses, Repositories, Consistent, Composed, Bare, Early, Late
<1> QED BY <1>1, <1>2, <1>3, <1>4, <1>5

LEMMA AddKeeps == ASSUME StatusInv, Add PROVE StatusInv'
<1> USE StatusAssumption DEF StatusInv, Add, MoveTo
<1>1. TypeOK'
  <2>1. truth' \in Repositories
    BY DEF TypeOK, Repositories
  <2>2. pending' \in BOOLEAN /\ moves' \in Nat
    BY DEF TypeOK
  <2> QED BY <2>1, <2>2 DEF TypeOK
<1>2. Pursued'
  BY  DEF TypeOK, Repositories, Pursued, Consistent, Flagged, Early, Work
<1>3. Consistent'
  BY  DEF TypeOK, Repositories, Consistent, Flagged, Early, Late
<1>4. Exact'
  BY DEF TypeOK, Exact
<1>5. Composed'
  BY DEF TypeOK, Statuses, Repositories, Consistent, Composed, Bare, Early, Late
<1> QED BY <1>1, <1>2, <1>3, <1>4, <1>5

LEMMA CommitKeeps == ASSUME StatusInv, CommitWork PROVE StatusInv'
<1> USE StatusAssumption DEF StatusInv, CommitWork, MoveTo
<1>1. TypeOK'
  <2>1. truth' \in Repositories
    BY DEF TypeOK, Repositories
  <2>2. pending' \in BOOLEAN /\ moves' \in Nat
    BY DEF TypeOK
  <2> QED BY <2>1, <2>2 DEF TypeOK
<1>2. Pursued'
  BY  DEF TypeOK, Repositories, Pursued, Consistent, Flagged, Early, Work
<1>3. Consistent'
  BY  DEF TypeOK, Repositories, Consistent, Flagged, Early, Late
<1>4. Exact'
  BY DEF TypeOK, Exact
<1>5. Composed'
  BY DEF TypeOK, Statuses, Repositories, Consistent, Composed, Bare, Early, Late
<1> QED BY <1>1, <1>2, <1>3, <1>4, <1>5

LEMMA PushKeeps == ASSUME StatusInv, Push PROVE StatusInv'
<1> USE StatusAssumption DEF StatusInv, Push, MoveTo
<1>1. TypeOK'
  <2>1. truth' \in Repositories
    BY DEF TypeOK, Repositories
  <2>2. pending' \in BOOLEAN /\ moves' \in Nat
    BY DEF TypeOK
  <2> QED BY <2>1, <2>2 DEF TypeOK
<1>2. Pursued'
  BY  DEF TypeOK, Repositories, Pursued, Consistent, Flagged, Early, Work
<1>3. Consistent'
  BY  DEF TypeOK, Repositories, Consistent, Flagged, Early, Late
<1>4. Exact'
  BY DEF TypeOK, Exact
<1>5. Composed'
  BY DEF TypeOK, Statuses, Repositories, Consistent, Composed, Bare, Early, Late
<1> QED BY <1>1, <1>2, <1>3, <1>4, <1>5

LEMMA PullKeeps == ASSUME StatusInv, Pull PROVE StatusInv'
<1> USE StatusAssumption DEF StatusInv, Pull, MoveTo
<1>1. TypeOK'
  <2>1. truth' \in Repositories
    BY DEF TypeOK, Repositories
  <2>2. pending' \in BOOLEAN /\ moves' \in Nat
    BY DEF TypeOK
  <2> QED BY <2>1, <2>2 DEF TypeOK
<1>2. Pursued'
  BY  DEF TypeOK, Repositories, Pursued, Consistent, Flagged, Early, Work
<1>3. Consistent'
  BY  DEF TypeOK, Repositories, Consistent, Flagged, Early, Late
<1>4. Exact'
  BY DEF TypeOK, Exact
<1>5. Composed'
  BY DEF TypeOK, Statuses, Repositories, Consistent, Composed, Bare, Early, Late
<1> QED BY <1>1, <1>2, <1>3, <1>4, <1>5

LEMMA CancelKeeps == ASSUME StatusInv, Cancel PROVE StatusInv'
<1>1. TypeOK'
  BY DEF StatusInv, Cancel, TypeOK
<1>2. Pursued' /\ Consistent' /\ Composed'
  BY DEF StatusInv, Cancel, Pursued, Consistent, Composed, Bare
<1>3. Exact'
  BY DEF StatusInv, Cancel, TypeOK, Exact, Accurate, OnCourse
<1> QED BY <1>1, <1>2, <1>3 DEF StatusInv

\* The three together.
LEMMA CheckKeeps == ASSUME StatusInv, Check \/ User \/ Cancel PROVE StatusInv'
<1>1. CASE Check
  BY <1>1, GitDirKeeps, BranchKeeps, ShortKeeps, RepoIsEmptyKeeps, OriginKeeps,
     TreeKeeps, ShaKeeps, UpstreamKeeps, RefKeeps, VerifyKeeps, AheadKeeps,
     BehindKeeps, UnreachableKeeps DEF Check
<1>2. CASE User
  BY <1>2, StageKeeps, AddKeeps, CommitKeeps, PushKeeps, PullKeeps DEF User
<1>3. CASE Cancel
  BY <1>3, CancelKeeps
<1> QED BY <1>1, <1>2, <1>3

-------------------------------------------------------------------------------
(* The process around it, step by step.                                      *)

\* Outside checkRepoStatus nothing of it changes but the count of faults.
LEMMA FaultKeeps ==
    ASSUME StatusInv, UNCHANGED repository, faults' = faults \/ Fault
    PROVE  StatusInv'
<1> USE DEF StatusInv, repository, Fault
<1>1. TypeOK'
  BY DEF TypeOK
<1>2. Pursued' /\ Consistent'
  BY DEF Pursued, Consistent
<1>4. Composed'
  BY DEF Composed, Bare
<1>3. Exact'
  BY DEF TypeOK, Exact, Accurate, OnCourse
<1> QED BY <1>1, <1>2, <1>3, <1>4

\* Every step of the process keeps what holds of the check.
LEMMA StatusKept == ASSUME StatusInv, [CheckNext]_allVars PROVE StatusInv'
<1>1. CASE Examine
  BY <1>1, CheckKeeps DEF Examine
<1>2. CASE ~Examine
  <2>1. UNCHANGED repository /\ (faults' = faults \/ Fault)
    BY <1>2 DEF CheckNext, Parse, Resolve, Examined, Validate, PullReadOnly, Load,
         Report, Panic, TimeOut, Close, Ended, allVars, vars, repository
  <2> QED BY <2>1, FaultKeeps
<1> QED BY <1>1, <1>2

LEMMA ParseMoves ==
    ASSUME CheckInv, StatusInv', Parse
    PROVE  CheckInv'
<1> USE DEF CheckInv, Parse, Settle, Exit, Goto
<1>1. CheckTypeOK'
  BY DEF CheckTypeOK, StatusInv, Facts, NoFacts, Words, Documents, Kinds,
     Nothing, Situations
<1>2. UnderWay'
  BY DEF CheckTypeOK, UnderWay, Working, Facts, NoFacts, Nothing, vars, repository
<1>3. SaidSo'
  BY DEF CheckTypeOK, StatusInv, TypeOK, UnderWay, SaidSo, Working, Facts, Nothing,
     vars, repository, Documents, Situations, Seen
<1>4. outcome' = IF place' = "done"
                  THEN OutcomeFromRun(stdout', stderr', raw'.exit)
                  ELSE "pending"
  OBVIOUS
<1> QED BY <1>1, <1>2, <1>3, <1>4

LEMMA ResolveMoves ==
    ASSUME CheckInv, StatusInv', Resolve
    PROVE  CheckInv'
<1> USE DEF CheckInv, Resolve, Goto, FailWith, Exit, Fault
<1>1. CheckTypeOK'
  BY DEF CheckTypeOK, StatusInv, Facts, NoFacts, Words, Documents, Kinds,
     Nothing, Situations
<1>2. UnderWay'
  BY DEF CheckTypeOK, UnderWay, Working, Facts, NoFacts, Nothing, vars, repository
<1>3. SaidSo'
  BY DEF CheckTypeOK, StatusInv, TypeOK, UnderWay, SaidSo, Working, Facts, Nothing,
     vars, repository, Documents, Situations, Seen
<1>4. outcome' = IF place' = "done"
                  THEN OutcomeFromRun(stdout', stderr', raw'.exit)
                  ELSE "pending"
  OBVIOUS
<1> QED BY <1>1, <1>2, <1>3, <1>4

LEMMA ExaminedMoves ==
    ASSUME CheckInv, StatusInv', Examined
    PROVE  CheckInv'
<1> USE DEF CheckInv, Examined, Settle, Goto
<1>1. CheckTypeOK'
  BY DEF CheckTypeOK, StatusInv, Facts, NoFacts, Words, Documents, Kinds,
     Nothing, Situations
<1>2. UnderWay'
  BY DEF CheckTypeOK, UnderWay, Working, Facts, NoFacts, Nothing, vars, repository
<1>3. SaidSo'
  BY DEF CheckTypeOK, StatusInv, TypeOK, UnderWay, SaidSo, Working, Facts, Nothing,
     vars, repository, Documents, Situations, Seen
<1>4. outcome' = IF place' = "done"
                  THEN OutcomeFromRun(stdout', stderr', raw'.exit)
                  ELSE "pending"
  OBVIOUS
<1> QED BY <1>1, <1>2, <1>3, <1>4

LEMMA ValidateMoves ==
    ASSUME CheckInv, StatusInv', Validate
    PROVE  CheckInv'
<1> USE DEF CheckInv, Validate, LooksLikeClone, Goto, FailWith, Exit
<1>1. CheckTypeOK'
  BY DEF CheckTypeOK, StatusInv, Facts, NoFacts, Words, Documents, Kinds,
     Nothing, Situations
<1>2. UnderWay'
  BY DEF CheckTypeOK, UnderWay, Working, Facts, NoFacts, Nothing, vars, repository
<1>3. SaidSo'
  BY DEF CheckTypeOK, StatusInv, TypeOK, UnderWay, SaidSo, Working, Facts, Nothing,
     vars, repository, Documents, Situations, Seen
<1>4. outcome' = IF place' = "done"
                  THEN OutcomeFromRun(stdout', stderr', raw'.exit)
                  ELSE "pending"
  OBVIOUS
<1> QED BY <1>1, <1>2, <1>3, <1>4

LEMMA PullReadOnlyMoves ==
    ASSUME CheckInv, StatusInv', PullReadOnly
    PROVE  CheckInv'
<1> USE DEF CheckInv, PullReadOnly, Fault
<1>1. CheckTypeOK'
  BY DEF CheckTypeOK, StatusInv, Facts, NoFacts, Words, Documents, Kinds,
     Nothing, Situations
<1>2. UnderWay'
  BY DEF CheckTypeOK, UnderWay, Working, Facts, NoFacts, Nothing, vars, repository
<1>3. SaidSo'
  BY DEF CheckTypeOK, StatusInv, TypeOK, UnderWay, SaidSo, Working, Facts, Nothing,
     vars, repository, Documents, Situations, Seen
<1>4. outcome' = IF place' = "done"
                  THEN OutcomeFromRun(stdout', stderr', raw'.exit)
                  ELSE "pending"
  OBVIOUS
<1> QED BY <1>1, <1>2, <1>3, <1>4

LEMMA LoadMoves ==
    ASSUME CheckInv, StatusInv', Load
    PROVE  CheckInv'
<1> USE DEF CheckInv, Load
<1>1. CheckTypeOK'
  BY DEF CheckTypeOK, StatusInv, Facts, NoFacts, Words, Documents, Kinds,
     Nothing, Situations
<1>2. UnderWay'
  BY DEF CheckTypeOK, UnderWay, Working, Facts, NoFacts, Nothing, vars, repository
<1>3. SaidSo'
  BY DEF CheckTypeOK, StatusInv, TypeOK, UnderWay, SaidSo, Working, Facts, Nothing,
     vars, repository, Documents, Situations, Seen
<1>4. outcome' = IF place' = "done"
                  THEN OutcomeFromRun(stdout', stderr', raw'.exit)
                  ELSE "pending"
  OBVIOUS
<1> QED BY <1>1, <1>2, <1>3, <1>4

LEMMA ReportMoves ==
    ASSUME CheckInv, StatusInv', Report
    PROVE  CheckInv'
<1> USE DEF CheckInv, Report, Exit, ExitCode, Fault
<1>1. CheckTypeOK'
  BY DEF CheckTypeOK, StatusInv, Facts, NoFacts, Words, Documents, Kinds,
     Nothing, Situations
<1>2. UnderWay'
  BY DEF CheckTypeOK, UnderWay, Working, Facts, NoFacts, Nothing, vars, repository
<1>3. SaidSo'
  <2>1. /\ Situations' = Situations /\ facts' = facts /\ truth' = truth /\ at' = at
        /\ at = "done" /\ ~truth.broken /\ facts.setup = "good" /\ facts.state # "invalid"
        /\ "notGit" \in stderr => facts.state = "dead"
    BY DEF UnderWay, Working, Situations, Seen, repository
  <2>2. CASE Exit(ExitCode, [kind |-> "result", situations |-> Situations], {})
    BY <2>1, <2>2 DEF CheckTypeOK, SaidSo
  <2>3. CASE Fault /\ Exit(1, Nothing, {"other"})
    BY <2>1, <2>3 DEF CheckTypeOK, StatusInv, TypeOK, SaidSo, Nothing
  <2> QED BY <2>2, <2>3
<1>4. outcome' = IF place' = "done"
                  THEN OutcomeFromRun(stdout', stderr', raw'.exit)
                  ELSE "pending"
  OBVIOUS
<1> QED BY <1>1, <1>2, <1>3, <1>4

LEMMA PanicMoves ==
    ASSUME CheckInv, StatusInv', Panic
    PROVE  CheckInv'
<1> USE DEF CheckInv, Panic, Exit, Fault
<1>1. CheckTypeOK'
  BY DEF CheckTypeOK, StatusInv, Facts, NoFacts, Words, Documents, Kinds,
     Nothing, Situations
<1>2. UnderWay'
  BY DEF CheckTypeOK, UnderWay, Working, Facts, NoFacts, Nothing, vars, repository
<1>3. SaidSo'
  BY DEF CheckTypeOK, StatusInv, TypeOK, UnderWay, SaidSo, Working, Facts, Nothing,
     vars, repository, Documents, Situations, Seen
<1>4. outcome' = IF place' = "done"
                  THEN OutcomeFromRun(stdout', stderr', raw'.exit)
                  ELSE "pending"
  OBVIOUS
<1> QED BY <1>1, <1>2, <1>3, <1>4

LEMMA TimeOutMoves ==
    ASSUME CheckInv, StatusInv', TimeOut
    PROVE  CheckInv'
<1> USE DEF CheckInv, TimeOut, Fault
<1>1. CheckTypeOK'
  BY DEF CheckTypeOK, StatusInv, Facts, NoFacts, Words, Documents, Kinds,
     Nothing, Situations
<1>2. UnderWay'
  BY DEF CheckTypeOK, UnderWay, Working, Facts, NoFacts, Nothing, vars, repository
<1>3. SaidSo'
  BY DEF CheckTypeOK, StatusInv, TypeOK, UnderWay, SaidSo, Working, Facts, Nothing,
     vars, repository, Documents, Situations, Seen
<1>4. outcome' = IF place' = "done"
                  THEN OutcomeFromRun(stdout', stderr', raw'.exit)
                  ELSE "pending"
  OBVIOUS
<1> QED BY <1>1, <1>2, <1>3, <1>4

LEMMA CloseMoves ==
    ASSUME CheckInv, StatusInv', Close
    PROVE  CheckInv'
<1> USE DEF CheckInv, Close
<1>1. CheckTypeOK'
  <2>1. raw.exit \in 0..2
    BY DEF CheckTypeOK
  <2>2. OutcomeFromRun(stdout, stderr, raw.exit) \in Kinds
    BY <2>1 DEF OutcomeFromRun, OutcomeOfTwo, Kinds
  <2> QED BY <2>2 DEF CheckTypeOK, StatusInv
<1>2. UnderWay'
  BY DEF CheckTypeOK, UnderWay, Working, Facts, NoFacts, Nothing, vars, repository
<1>3. SaidSo'
  BY DEF CheckTypeOK, StatusInv, TypeOK, UnderWay, SaidSo, Working, Facts, Nothing,
     vars, repository, Documents, Situations, Seen
<1>4. outcome' = IF place' = "done"
                  THEN OutcomeFromRun(stdout', stderr', raw'.exit)
                  ELSE "pending"
  OBVIOUS
<1> QED BY <1>1, <1>2, <1>3, <1>4

LEMMA ExamineMoves == ASSUME CheckInv, StatusInv', Examine PROVE CheckInv'
<1>1. UNCHANGED <<report, place>> /\ place \in {"status", "agent"}
  BY DEF Examine
<1>2. truth'.broken = truth.broken
  <2>1. CASE Check
    BY <2>1 DEF Check, GitDir, Branch, Short, RepoIsEmpty, Origin, Tree, Sha, AfterSha,
       Upstream, Ref, Verify, Ahead, Behind, Unreachable, Continue, Stop, Finish
  <2>2. CASE User
    BY <2>2 DEF User, Stage, Add, CommitWork, Push, Pull, MoveTo, CheckInv, StatusInv,
       TypeOK, Repositories
  <2>3. CASE Cancel
    BY <2>3 DEF Cancel
  <2> QED BY <2>1, <2>2, <2>3 DEF Examine
<1>3. CheckTypeOK'
  BY <1>1 DEF report, CheckInv, CheckTypeOK, StatusInv
<1>4. UnderWay' /\ SaidSo'
  BY <1>1, <1>2 DEF report, CheckInv, UnderWay, SaidSo, Working
<1> QED BY <1>1, <1>3, <1>4 DEF report, CheckInv

LEMMA CheckInitially == CheckInit => CheckInv
<1> SUFFICES ASSUME CheckInit PROVE CheckInv
  OBVIOUS
<1>1. StatusInv
  BY InitStatus DEF CheckInit
<1>2. CheckTypeOK
  <2>1. Nothing \in Documents /\ NoFacts \in Facts
    BY DEF Nothing, Documents, NoFacts, Facts
  <2>2. raw \in [exit : 0..2, timedOut : BOOLEAN]
    BY DEF CheckInit
  <2> QED BY <1>1, <2>1, <2>2 DEF CheckInit, CheckTypeOK, StatusInv, Kinds
<1>3. UnderWay /\ SaidSo
  BY <1>1 DEF CheckInit, UnderWay, SaidSo, Nothing, NoFacts, Working, StatusInv, Consistent
<1> QED BY <1>1, <1>2, <1>3 DEF CheckInv, CheckInit

LEMMA CheckStep == ASSUME CheckInv, [CheckNext]_allVars PROVE CheckInv'
<1>1. StatusInv'
  BY StatusKept DEF CheckInv
<1>2. CASE CheckNext
  <2>1. CASE Ended
    BY <1>1, <2>1 DEF Ended, allVars, report, vars, CheckInv, CheckTypeOK, UnderWay, SaidSo,
       Situations, Seen, StatusInv
  <2> QED BY <1>1, <1>2, <2>1, ParseMoves, ResolveMoves, ExamineMoves, ExaminedMoves,
     ValidateMoves, PullReadOnlyMoves, LoadMoves, ReportMoves, PanicMoves, TimeOutMoves,
     CloseMoves DEF CheckNext
<1>3. CASE UNCHANGED allVars
  BY <1>1, <1>3 DEF allVars, report, vars, CheckInv, CheckTypeOK, UnderWay, SaidSo,
     Situations, Seen, StatusInv
<1> QED BY <1>2, <1>3
-------------------------------------------------------------------------------
(* What the invariants say.                                                  *)

LEMMA NothingMissedHolds == ASSUME StatusInv PROVE NothingMissed
<1> SUFFICES ASSUME at = "done", pending PROVE NeedsAttention(status)
  BY DEF NothingMissed
<1>1. Flagged(status)
  BY DEF StatusInv, Pursued
<1>2. status.error \/ (status.dirty <=> status.unstaged \/ status.staged \/ status.untracked)
  BY DEF StatusInv, Consistent
<1>3. status.empty =>
         ~status.unpushed /\ ~status.behind /\ ~status.untrackedUpstream
  BY DEF StatusInv, Consistent
<1> QED BY <1>1, <1>2, <1>3 DEF Flagged, NeedsAttention

LEMMA NoFalseAlarmHolds == ASSUME StatusInv PROVE NoFalseAlarm
<1> SUFFICES ASSUME at = "done", faults = 0, moves = 0
             PROVE  /\ NeedsAttention(status) => Work(truth)
                    /\ status.clean => ~Work(truth)
  BY DEF NoFalseAlarm
<1>1. Accurate /\ (pending <=> Work(truth))
  BY DEF StatusInv, Exact
<1>2. status.dirty => status.unstaged \/ status.staged \/ status.untracked
  BY DEF StatusInv, Consistent
<1>3. NeedsAttention(status) => Work(truth)
  BY <1>1, <1>2 DEF NeedsAttention, Accurate, Work
<1>4. status.clean => ~Work(truth)
  BY <1>1 DEF StatusInv, Pursued, Consistent
<1> QED BY <1>3, <1>4

\* A verdict is made once, of the streams and the exit status.
LEMMA VerdictByExit ==
    ASSUME CheckInv, outcome # "pending"
    PROVE  /\ place = "done" /\ raw.exit \in 0..2
           /\ outcome = OutcomeFromRun(stdout, stderr, raw.exit)
           /\ stdout \in Documents
BY DEF CheckInv, CheckTypeOK

LEMMA ClearIsEarnedHolds == ASSUME CheckInv PROVE ClearIsEarned
<1> SUFFICES ASSUME outcome = "clear" PROVE ClearIsEarned
  BY DEF ClearIsEarned
<1>1. raw.exit = 0 /\ place = "done"
  BY VerdictByExit DEF OutcomeFromRun, OutcomeOfTwo
<1>2. /\ at = "done" /\ ~truth.broken /\ facts.state # "invalid"
      /\ "localError" \notin Situations /\ "local" \notin Situations
      /\ "cross" \notin Situations
  BY <1>1 DEF CheckInv, SaidSo
<1>3. pending => status.empty /\ status.error
  <2>1. status.error \/ ~(status.dirty \/ status.unpushed \/ status.behind
                             \/ status.untrackedUpstream)
    BY <1>2 DEF Situations
  <2>2. status.error => status.empty
    BY <1>2 DEF Situations
  <2>3. pending => NeedsAttention(status)
    BY <1>2, NothingMissedHolds DEF CheckInv, NothingMissed
  <2> QED BY <2>1, <2>2, <2>3 DEF NeedsAttention
<1>4. facts.elsewhere # "nothing" => ~remote \/ facts.files # "good" \/ Withheld
  BY <1>2 DEF Situations, Seen, Withheld
<1> QED BY <1>2, <1>3, <1>4 DEF ClearIsEarned

LEMMA VerdictJustifiedHolds == ASSUME CheckInv PROVE VerdictJustified
<1>1. ASSUME outcome = "local" PROVE Work(truth) \/ faults + moves > 0
  <2>1. /\ place = "done" /\ raw.exit = 2 /\ stdout.kind # "nothing"
        /\ "cross" \notin stdout.situations /\ "localError" \notin stdout.situations
    BY <1>1, VerdictByExit DEF OutcomeFromRun, OutcomeOfTwo, IsElevated
  <2>2. stdout.situations = Situations /\ Situations # {}
    BY <2>1 DEF CheckInv, SaidSo
  <2>3. "local" \in Situations
    BY <2>1, <2>2 DEF Situations
  <2>4. /\ ~status.error
        /\ status.dirty \/ status.unpushed \/ status.behind \/ status.untrackedUpstream
    BY <2>3 DEF Situations
  <2>5. status.dirty => status.unstaged \/ status.staged \/ status.untracked
    BY DEF CheckInv, StatusInv, Consistent
  <2>6. faults = 0 /\ moves = 0 => Accurate
    BY DEF CheckInv, StatusInv, Exact
  <2>7. faults \in Nat /\ moves \in Nat
    BY DEF CheckInv, CheckTypeOK, TypeOK
  <2>8. Accurate => Work(truth)
    BY <2>4, <2>5 DEF Accurate, Work
  <2> QED BY <2>6, <2>7, <2>8
<1>2. ASSUME outcome = "elevated"
      PROVE  facts.elsewhere # "nothing" /\ facts.files = "good"
  <2>1. /\ place = "done" /\ raw.exit = 2 /\ stdout.kind # "nothing"
        /\ "cross" \in stdout.situations
    BY <1>2, VerdictByExit DEF OutcomeFromRun, OutcomeOfTwo, IsElevated
  <2>2. "cross" \in Situations
    BY <2>1 DEF CheckInv, SaidSo
  <2> QED BY <2>2 DEF Situations, Seen
<1>3. ASSUME outcome = "error"
      PROVE  faults + moves > 0 \/ facts.state = "invalid" \/ facts.setup # "good"
  <2>1. faults \in Nat /\ moves \in Nat
    BY DEF CheckInv, CheckTypeOK, TypeOK
  <2>2. CASE raw.exit = 1
    <3>1. place = "done" /\ stdout.kind # "notTree" /\ stdout \in Documents
      BY <1>3, <2>2, VerdictByExit DEF OutcomeFromRun, SaysNoTree
    <3>2. stdout.kind \in {"nothing", "error", "result"}
      BY <3>1 DEF Documents
    <3> QED BY <2>1, <2>2, <3>1, <3>2 DEF CheckInv, SaidSo
  <2>3. CASE raw.exit = 2
    <3>1. /\ place = "done"
          /\ stdout.kind = "nothing" \/ "localError" \in stdout.situations
      BY <1>3, <2>3, VerdictByExit DEF OutcomeFromRun, OutcomeOfTwo
    <3>2. CASE stdout.kind = "nothing"
      BY <2>1, <3>1, <3>2 DEF CheckInv, SaidSo
    <3>3. CASE stdout.kind # "nothing"
      <4>1. "localError" \in Situations /\ ~truth.broken
        BY <2>3, <3>1, <3>3 DEF CheckInv, SaidSo
      <4>2. status.error
        BY <4>1 DEF Situations
      <4>3. faults = 0 /\ moves = 0 => truth.broken
        BY <4>2 DEF CheckInv, StatusInv, Exact, Accurate
      <4> QED BY <2>1, <4>1, <4>3
    <3> QED BY <3>2, <3>3
  <2> QED BY <1>3, <2>2, <2>3, VerdictByExit DEF OutcomeFromRun
<1>4. ASSUME outcome = "notGit"
      PROVE  \/ truth.broken \/ (stdout.kind = "notTree" /\ faults > 0)
             \/ facts.state = "dead" /\ raw.exit = 1 /\ stdout.kind # "error"
  <2>1. /\ place = "done" /\ raw.exit = 1
        /\ SaysNoTree(stdout, stderr)
    BY <1>4, VerdictByExit DEF OutcomeFromRun, OutcomeOfTwo
  <2> QED BY <2>1 DEF SaysNoTree, CheckInv, SaidSo
<1> QED BY <1>1, <1>2, <1>3, <1>4 DEF VerdictJustified

-------------------------------------------------------------------------------
(* The theorems.                                                             *)

\* The invariant of the check of one repository (main.go:551-735): its flags fit
\* each other and its step, work not come upon yet is still ahead of it, and
\* without failures or interference every flag is the truth.
THEOREM StatusCorrect == Spec => []StatusInv
<1>1. ASSUME StatusInv, [Next]_vars PROVE StatusInv'
  <2>1. CASE UNCHANGED vars
    <3>1. TypeOK' /\ Pursued' /\ Consistent'
      BY <1>1, <2>1 DEF vars, StatusInv, TypeOK, Pursued, Consistent
    <3>2. Composed' /\ Exact'
      BY <1>1, <2>1 DEF vars, StatusInv, Composed, Bare, Exact, Accurate, OnCourse
    <3> QED BY <3>1, <3>2 DEF StatusInv
  <2> QED BY <1>1, <2>1, CheckKeeps DEF Next, Done
<1> QED BY <1>1, InitStatus, PTL DEF Spec

\* Every status that a check ends with is one that Report calls reportable, and
\* so one that the trees of Situations may be in (main.go:551-675).
THEOREM ReportsFitCorrect == Spec => []ReportsFit
<1>1. StatusInv => ReportsFit
  <2>1. SUFFICES ASSUME StatusInv, at = "done"
                 PROVE  Reportable(status.branch, status.origin, status.sha, Marks(status))
    BY DEF ReportsFit
  <2>2. /\ "error" \in Marks(status) <=> status.error
        /\ "empty" \in Marks(status) <=> status.empty
        /\ "dirty" \in Marks(status) <=> status.dirty
        /\ "unpushed" \in Marks(status) <=> status.unpushed
        /\ "behind" \in Marks(status) <=> status.behind
        /\ "noUpstream" \in Marks(status) <=> status.untrackedUpstream
        /\ Marks(status) \subseteq AllMarks
    BY <2>1 DEF StatusInv, TypeOK, Statuses, Marks, AllMarks
  <2>3. status.branch = "" => Marks(status) = {"error"} /\ ~status.origin /\ ~status.sha
    BY <2>1, <2>2 DEF StatusInv, Composed, Bare, AllMarks
  <2>4. status.empty =>
           ~status.sha /\ ~status.unpushed /\ ~status.behind /\ ~status.untrackedUpstream
    BY <2>1 DEF StatusInv, Consistent, Composed
  <2>5. /\ status.branch = "unknown" => status.error
        /\ status.branch = "detached" => ~status.behind /\ ~status.untrackedUpstream
        /\ status.untrackedUpstream => ~status.unpushed /\ ~status.behind
    BY <2>1 DEF StatusInv, Composed
  <2> QED BY <2>2, <2>3, <2>4, <2>5 DEF Reportable
<1> QED BY <1>1, StatusCorrect, PTL

\* The invariant of `find-uncommitted --json check` and of what the editor
\* extension makes of it: the check inside it, what the process knows and has
\* not said yet at each step, and what its exit status and document mean.
THEOREM CheckCorrect == CheckSpec => []CheckInv
BY CheckInitially, CheckStep, PTL DEF CheckSpec

\* Work that is in the repository all through a check is reported, whatever
\* command fails or is killed.
THEOREM NothingMissedCorrect == CheckSpec => []NothingMissed
<1>1. CheckInv => NothingMissed
  BY NothingMissedHolds DEF CheckInv
<1> QED BY <1>1, CheckCorrect, PTL

\* Without failures or interference the check asks for attention only when there
\* is something to do, and says clean only when there is not.
THEOREM NoFalseAlarmCorrect == CheckSpec => []NoFalseAlarm
<1>1. CheckInv => NoFalseAlarm
  BY NoFalseAlarmHolds DEF CheckInv
<1> QED BY <1>1, CheckCorrect, PTL

\* A folder the editor calls clear is a work tree with nothing left to do, but
\* for the two exceptions ClearIsEarned names.
THEOREM ClearIsEarnedCorrect == CheckSpec => []ClearIsEarned
<1>1. CheckInv => ClearIsEarned
  BY ClearIsEarnedHolds
<1> QED BY <1>1, CheckCorrect, PTL

\* Every other verdict of the editor has its reason (check.ts:174-273).
THEOREM VerdictJustifiedCorrect == CheckSpec => []VerdictJustified
<1>1. CheckInv => VerdictJustified
  BY VerdictJustifiedHolds
<1> QED BY <1>1, CheckCorrect, PTL
===============================================================================
