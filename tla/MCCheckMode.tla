----------------------------- MODULE MCCheckMode ------------------------------
(* Small instances of RepoStatus and CheckMode for TLC.                      *)
EXTENDS CheckMode

\* What a repository can be: an unborn branch has no commits, a detached HEAD
\* has some and no upstream, and without an upstream nothing is behind.
Possible ==
    {t \in Repositories :
        /\ t.empty => ~t.detached /\ ~t.ahead /\ ~t.unstaged /\ t.upstream = "none"
        /\ t.detached => t.upstream = "none"
        /\ t.behind => t.upstream = "ok"
        /\ t.upstream = "gone" => ~t.ahead
        /\ t.broken => ~(t.unstaged \/ t.staged \/ t.untracked \/ t.ahead \/ t.behind)}
===============================================================================
