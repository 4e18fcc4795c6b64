-------------------------------- MODULE Report ---------------------------------
(* What the check of a repository can report of it (checkRepoStatus): which     *)
(* marks, what branch, and whether with an origin and a tip.  RepoStatus is the *)
(* check, every report of which is one of these; Situations starts from them.   *)

AllMarks == {"error", "empty", "dirty", "unpushed", "behind", "noUpstream"}

\* A check that is cut short has no branch yet and nothing but its error; one that
\* fails later may lack the origin, the tip and marks.  Of a repository without
\* commits only the working tree is looked at, of a detached HEAD only what no ref
\* holds, and without an upstream there is nothing to count.
Reportable(branch, origin, tip, marks) ==
    /\ branch = "" => marks = {"error"} /\ ~origin /\ ~tip
    /\ branch = "unknown" => "error" \in marks
    /\ "empty" \in marks => ~tip /\ marks \cap {"unpushed", "behind", "noUpstream"} = {}
    /\ branch = "detached" => marks \cap {"behind", "noUpstream"} = {}
    /\ "noUpstream" \in marks => marks \cap {"unpushed", "behind"} = {}
===============================================================================
