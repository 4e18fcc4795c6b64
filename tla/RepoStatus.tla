------------------------------ MODULE RepoStatus ------------------------------
(* The check of one repository (checkRepoStatus in main.go): about a dozen    *)
(* git commands, one after the other.  Each may answer, fail, or be killed by *)
(* its own timeout or the end of the scan, and somebody may be working in the *)
(* repository meanwhile.  One action is one command.                          *)
EXTENDS Naturals, Sequences, Report

CONSTANTS
    Truths,     \* the repositories a check may start on (see Repositories)
    Moves,      \* what somebody may do in the repository during the check
    MaxMoves,   \* bound on the number of such moves
    MaxFaults   \* bound on the number of commands that fail or time out

\* A repository.  broken: git rejects it.  ahead: commits the upstream lacks,
\* or, on a detached HEAD, that no ref holds.  upstream: configured and there,
\* not configured, or configured and pruned.
Repositories ==
    [broken : BOOLEAN, detached : BOOLEAN, empty : BOOLEAN, origin : BOOLEAN,
     unstaged : BOOLEAN, staged : BOOLEAN, untracked : BOOLEAN,
     upstream : {"ok", "none", "gone"}, ahead : BOOLEAN, behind : BOOLEAN]

AllMoves == {"stage", "add", "commit", "push", "pull"}

ASSUME StatusAssumption ==
    /\ Truths \subseteq Repositories /\ Moves \subseteq AllMoves
    /\ MaxMoves \in Nat /\ MaxFaults \in Nat

VARIABLES
    truth,    \* the repository
    at,       \* the next command of the check
    status,   \* the RepoSnapshot being filled
    ctxDone,  \* the context of the scan is done
    faults,   \* how many commands failed or timed out
    moves,    \* how many moves were made
    pending   \* the repository has had unfinished work ever since the check
              \* began, and none of it slipped through the window of Add

vars == <<truth, at, status, ctxDone, faults, moves, pending>>

Commands == {"gitDir", "branch", "short", "head", "origin", "unstaged", "staged",
             "untracked", "sha", "upstream", "ref", "verify", "ahead", "behind",
             "unreachable", "done"}

Statuses ==
    [error : BOOLEAN, branch : {"", "unknown", "named", "detached"},
     empty : BOOLEAN, origin : BOOLEAN, sha : BOOLEAN,
     unstaged : BOOLEAN, staged : BOOLEAN, untracked : BOOLEAN,
     untrackedUpstream : BOOLEAN, unpushed : BOOLEAN, behind : BOOLEAN,
     dirty : BOOLEAN, clean : BOOLEAN]

NewStatus ==
    [error |-> FALSE, branch |-> "", empty |-> FALSE, origin |-> FALSE,
     sha |-> FALSE, unstaged |-> FALSE, staged |-> FALSE, untracked |-> FALSE,
     untrackedUpstream |-> FALSE, unpushed |-> FALSE, behind |-> FALSE,
     dirty |-> FALSE, clean |-> FALSE]

\* There is something to do in repository t.
Work(t) ==
    \/ t.broken \/ t.unstaged \/ t.staged \/ t.untracked
    \/ ~t.empty /\ t.ahead
    \/ ~t.empty /\ ~t.detached /\ (t.behind \/ t.upstream # "ok")

Init ==
    /\ truth \in Truths
    /\ at = "gitDir" /\ status = NewStatus
    /\ ctxDone = FALSE /\ faults = 0 /\ moves = 0
    /\ pending = Work(truth)
-------------------------------------------------------------------------------
(* Somebody works in the repository: work moves on, from the working tree to  *)
(* the index, a commit, the upstream.  New work is left to the next check.    *)

MoveTo(t, escapes) ==
    /\ moves < MaxMoves /\ at # "done" /\ ~truth.broken /\ ~truth.empty
    /\ moves' = moves + 1
    /\ truth' = t
    /\ pending' = (pending /\ Work(t) /\ ~escapes)
    /\ UNCHANGED <<at, status, ctxDone, faults>>

Stage == "stage" \in Moves /\ truth.unstaged
         /\ MoveTo([truth EXCEPT !.unstaged = FALSE, !.staged = TRUE], FALSE)

\* A file added after the index was read and before the untracked files are is
\* in neither list: the one window there is.  The next check sees it.
Add == "add" \in Moves /\ truth.untracked
       /\ MoveTo([truth EXCEPT !.untracked = FALSE, !.staged = TRUE], at = "untracked")

CommitWork == "commit" \in Moves /\ truth.staged
              /\ MoveTo([truth EXCEPT !.staged = FALSE, !.ahead = TRUE], FALSE)

Push == "push" \in Moves /\ truth.ahead /\ ~truth.detached
        /\ MoveTo([truth EXCEPT !.ahead = FALSE, !.upstream = "ok"], FALSE)

Pull == "pull" \in Moves /\ truth.behind
        /\ MoveTo([truth EXCEPT !.behind = FALSE], FALSE)

User == Stage \/ Add \/ CommitWork \/ Push \/ Pull

\* The deadline of the scan fires.
Cancel ==
    /\ ~ctxDone /\ at # "done" /\ faults < MaxFaults
    /\ ctxDone' = TRUE /\ faults' = faults + 1
    /\ UNCHANGED <<truth, at, status, moves, pending>>
-------------------------------------------------------------------------------
(* The commands.                                                             *)

\* The command of the check is c, and it answers.
Runs(c) == at = c /\ ~ctxDone /\ UNCHANGED faults

\* It fails for a reason of its own.
Fails(c) == at = c /\ ~ctxDone /\ faults < MaxFaults /\ faults' = faults + 1

\* It is killed by its own timeout, or not even started (IsContextErr).
Killed(c) == IF ctxDone THEN at = c /\ UNCHANGED faults ELSE Fails(c)

\* The check goes on with status s and command c.
Continue(c, s) ==
    /\ at' = c /\ status' = s
    /\ UNCHANGED <<truth, ctxDone, moves, pending>>

\* The check ends here: an early return, with an error.
Stop == Continue("done", [status EXCEPT !.error = TRUE])

\* The check ends with status s; the summary flags are set.
Finish(s) ==
    LET dirty == s.unstaged \/ s.staged \/ s.untracked
    IN  Continue("done",
          [s EXCEPT !.dirty = dirty,
                    !.clean = ~s.error /\ ~dirty /\ ~s.unpushed /\ ~s.behind
                              /\ ~s.untrackedUpstream])

GitDir ==
    \/ Runs("gitDir") /\ ~truth.broken /\ Continue("branch", status)
    \/ ((Runs("gitDir") /\ truth.broken) \/ Fails("gitDir") \/ Killed("gitDir")) /\ Stop

\* Of a detached HEAD git answers with nothing, in older versions with the exit
\* status 1; any other failure leaves the branch unknown.
Branch ==
    \/ Runs("branch") /\ truth.detached
       /\ Continue("short", [status EXCEPT !.branch = "detached"])
    \/ Runs("branch") /\ ~truth.detached
       /\ Continue("head", [status EXCEPT !.branch = "named"])
    \/ Fails("branch")
       /\ Continue("head", [status EXCEPT !.branch = "unknown", !.error = TRUE])
    \/ Killed("branch") /\ Stop

\* The commit a detached HEAD is at; killed, not even "detached" is reported.
Short ==
    \/ Runs("short") /\ Continue("head", status)
    \/ Fails("short") /\ Continue("head", [status EXCEPT !.error = TRUE])
    \/ Killed("short")
       /\ Continue("done", [status EXCEPT !.branch = "", !.error = TRUE])

\* repoIsEmpty: only git's own words for an unborn HEAD count.
RepoIsEmpty ==
    \/ Runs("head") /\ Continue("origin", [status EXCEPT !.empty = truth.empty])
    \/ (Fails("head") \/ Killed("head")) /\ Continue("origin", status)

\* Mutant: the index is looked at before the working tree.
IndexFirst == <<"staged", "unstaged", "untracked">>

\* The signals of the working tree, in the order they are read.
TreeChecks == <<"unstaged", "staged", "untracked">>

\* repoOriginURL: no origin, whatever went wrong.
Origin ==
    \/ Runs("origin")
       /\ Continue(TreeChecks[1], [status EXCEPT !.origin = truth.origin])
    \/ (Fails("origin") \/ Killed("origin")) /\ Continue(TreeChecks[1], status)

\* gitWorkingTreeNonempty for the i-th signal.
Tree(i) ==
    LET f == TreeChecks[i]
        c == IF i = Len(TreeChecks) THEN "sha" ELSE TreeChecks[i + 1]
    IN  \/ Runs(f) /\ Continue(c, [status EXCEPT ![f] = truth[f]])
        \/ (Fails(f) \/ Killed(f)) /\ Stop

\* Mutant: an unborn branch is asked for its upstream too.
AfterShaOfAny(s) ==
    Continue(IF s.branch = "detached" THEN "unreachable" ELSE "upstream", s)

\* After the working tree: the tip, unless there is none.
AfterSha(s) ==
    IF s.empty THEN Finish(s)
    ELSE Continue(IF s.branch = "detached" THEN "unreachable" ELSE "upstream", s)

Sha ==
    \/ at = "sha" /\ status.empty /\ UNCHANGED faults /\ AfterSha(status)
    \/ Runs("sha") /\ ~status.empty
       /\ AfterSha([status EXCEPT !.sha = ~truth.empty])
    \/ ~status.empty /\ (Fails("sha") \/ Killed("sha")) /\ AfterSha(status)

\* rev-parse @{u}.  An upstream that is gone, a HEAD that is on no branch after all
\* and a failure are looked at closer; a kill ends the check.
Upstream ==
    LET onBranch == ~truth.empty /\ ~truth.detached
    IN  \/ Runs("upstream") /\ onBranch /\ truth.upstream = "ok"
           /\ Continue("ahead", status)
        \/ Runs("upstream") /\ onBranch /\ truth.upstream = "none"
           /\ Finish([status EXCEPT !.untrackedUpstream = TRUE])
        \/ ((Runs("upstream") /\ (~onBranch \/ truth.upstream = "gone"))
               \/ Fails("upstream"))
           /\ Continue("ref", status)
        \/ Killed("upstream") /\ Stop

\* upstreamGone, for-each-ref: the ref the branch is configured to track.
Ref ==
    LET tracks == status.branch = "named" /\ truth.upstream # "none"
    IN  \/ Runs("ref") /\ tracks /\ Continue("verify", status)
        \/ ((Runs("ref") /\ ~tracks) \/ Fails("ref") \/ Killed("ref"))
           /\ Finish([status EXCEPT !.error = TRUE])

\* upstreamGone, rev-parse --verify: any failure but a timeout means it is gone.
Verify ==
    \/ ((Runs("verify") /\ truth.upstream # "ok") \/ Fails("verify"))
       /\ Finish([status EXCEPT !.untrackedUpstream = TRUE])
    \/ ((Runs("verify") /\ truth.upstream = "ok") \/ Killed("verify"))
       /\ Finish([status EXCEPT !.error = TRUE])

\* Mutant: a count that fails is taken for zero.
CountedAsZero(s) == s

\* fillAheadBehind: a count that fails is an error, never zero.
Uncounted(s) == [s EXCEPT !.error = TRUE]

Ahead ==
    \/ Runs("ahead") /\ Continue("behind", [status EXCEPT !.unpushed = truth.ahead])
    \/ Fails("ahead") /\ Continue("behind", Uncounted(status))
    \/ Killed("ahead") /\ Finish(Uncounted(status))

Behind ==
    \/ Runs("behind") /\ Finish([status EXCEPT !.behind = truth.behind])
    \/ (Fails("behind") \/ Killed("behind")) /\ Finish(Uncounted(status))

\* fillDetachedUnreachable
Unreachable ==
    \/ Runs("unreachable") /\ Finish([status EXCEPT !.unpushed = truth.ahead])
    \/ (Fails("unreachable") \/ Killed("unreachable")) /\ Finish(Uncounted(status))

Done == at = "done" /\ UNCHANGED vars
-------------------------------------------------------------------------------
Check ==
    \/ GitDir \/ Branch \/ Short \/ RepoIsEmpty \/ Origin
    \/ \E i \in 1..Len(TreeChecks) : Tree(i)
    \/ Sha \/ Upstream \/ Ref \/ Verify \/ Ahead \/ Behind \/ Unreachable

Next == Check \/ User \/ Cancel \/ Done

Spec == Init /\ [][Next]_vars
-------------------------------------------------------------------------------
\* needsAttention
NeedsAttention(s) ==
    /\ ~(s.empty /\ ~s.error /\ ~s.dirty)
    /\ s.error \/ s.dirty \/ s.unpushed \/ s.behind \/ s.untrackedUpstream

TypeOK ==
    /\ truth \in Repositories /\ at \in Commands /\ status \in Statuses
    /\ ctxDone \in BOOLEAN /\ pending \in BOOLEAN
    /\ faults \in Nat /\ moves \in Nat

\* Work that is in the repository all through a check is reported, as what it
\* is or as an error, whatever command fails or is killed (main.go:677-704),
\* but for a file that is added in the window named at Add.
NothingMissed == at = "done" /\ pending => NeedsAttention(status)

\* When every command answers and nobody interferes, attention is asked for
\* only when there is something to do, and a clean verdict is the negation of it.
NoFalseAlarm ==
    at = "done" /\ faults = 0 /\ moves = 0 =>
        /\ NeedsAttention(status) => Work(truth)
        /\ status.clean => ~Work(truth)

\* The marks of a status.
Marks(s) ==
    LET is == [error |-> s.error, empty |-> s.empty, dirty |-> s.dirty,
               unpushed |-> s.unpushed, behind |-> s.behind,
               noUpstream |-> s.untrackedUpstream]
    IN  {m \in AllMarks : is[m]}

\* Whatever fails, is killed or changes meanwhile, a check ends with a status that
\* Situations, too, takes a repository to be in (main.go:551-675).
ReportsFit ==
    at = "done" => Reportable(status.branch, status.origin, status.sha, Marks(status))

\* Status s says that there is something to attend to.
Flagged(s) ==
    \/ s.error \/ s.unstaged \/ s.staged \/ s.untracked
    \/ s.unpushed \/ s.behind \/ s.untrackedUpstream

\* The commands after which the signals of the working tree are read.
Early == {"gitDir", "branch", "short", "head", "origin", "unstaged"}

\* The commands that look at the commits.
Late == {"upstream", "ref", "verify", "ahead", "behind", "unreachable"}

\* Work that was not come upon yet is still ahead of the check, where it moves to
\* included; at the end there is none such.
Pursued ==
    pending =>
        /\ Work(truth)
        /\ ~Flagged(status) =>
              /\ at # "done"
              /\ at \notin Early => ~truth.unstaged
              /\ at \notin Early \cup {"staged"} => ~truth.staged
              /\ at \notin Early \cup {"staged", "untracked"} => ~truth.untracked
              /\ at \in {"ahead", "behind"} => truth.upstream = "ok"
              /\ at = "behind" => ~truth.ahead

\* How the status fits the step of the check, and its flags each other.
Consistent ==
    /\ at \notin {"gitDir", "done"} => ~truth.broken
    /\ status.branch = "detached" => truth.detached
    /\ status.branch = "named" => ~truth.detached
    /\ at = "unreachable" => status.branch = "detached"
    /\ at \in Late => ~status.empty
    /\ status.empty => truth.empty
    /\ status.empty =>
          ~status.unpushed /\ ~status.behind /\ ~status.untrackedUpstream
    /\ at \in Early => ~status.unstaged
    /\ at \in Early \cup {"staged"} => ~status.staged
    /\ at \in Early \cup {"staged", "untracked"} => ~status.untracked
    /\ at \notin {"behind", "done"} => ~status.unpushed
    /\ at # "done" => ~status.behind /\ ~status.untrackedUpstream
    /\ at # "done" => ~status.dirty /\ ~status.clean
    /\ at = "done" /\ ~status.error =>
          /\ ~truth.broken
          /\ status.dirty <=> status.unstaged \/ status.staged \/ status.untracked
    /\ status.dirty => status.unstaged \/ status.staged \/ status.untracked
    /\ status.clean => ~Flagged(status)

\* Nothing but an error and the branch is in the status.
Bare ==
    /\ ~status.empty /\ ~status.origin /\ ~status.sha /\ ~status.dirty
    /\ ~status.unpushed /\ ~status.behind /\ ~status.untrackedUpstream

\* What the status is made of by the step of the check, as far as it decides what
\* can be reported together.
Composed ==
    /\ at \in {"gitDir", "branch", "short", "head"} \/ status.branch = "" => Bare
    /\ at \in {"gitDir", "branch"} => status.branch = ""
    /\ status.branch = "" =>
          at \in {"gitDir", "branch"} \/ (at = "done" /\ status.error)
    /\ at = "short" => status.branch = "detached"
    /\ status.branch = "unknown" => status.error
    /\ status.empty => ~status.sha
    /\ status.branch = "detached" =>
          /\ at \notin {"upstream", "ref", "verify", "ahead", "behind"}
          /\ ~status.behind /\ ~status.untrackedUpstream
    /\ status.untrackedUpstream => ~status.unpushed /\ ~status.behind

\* Every flag of the status is the truth.
Accurate ==
    /\ status.error => truth.broken
    /\ status.unstaged => truth.unstaged
    /\ status.staged => truth.staged
    /\ status.untracked => truth.untracked
    /\ status.unpushed => truth.ahead /\ ~truth.empty
    /\ status.behind => truth.behind /\ ~truth.empty /\ ~truth.detached
    /\ status.untrackedUpstream =>
          truth.upstream # "ok" /\ ~truth.empty /\ ~truth.detached

\* The check asks what this repository is to be asked.
OnCourse ==
    /\ at \notin {"gitDir", "branch", "short", "head", "done"} =>
          (status.empty <=> truth.empty)
    /\ at \notin {"gitDir", "branch", "done"} =>
          status.branch = IF truth.detached THEN "detached" ELSE "named"
    /\ at \in {"upstream", "ref", "verify", "ahead", "behind"} => ~truth.detached
    /\ at \in {"ref", "verify"} => truth.upstream = "gone"

\* So it is when every command answers and nobody interferes.
Exact ==
    /\ moves = 0 => (pending <=> Work(truth))
    /\ faults = 0 => ~ctxDone
    /\ faults = 0 /\ moves = 0 => Accurate /\ OnCourse

\* The invariant behind these.
StatusInv == TypeOK /\ Pursued /\ Consistent /\ Composed /\ Exact
===============================================================================
