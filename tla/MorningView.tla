------------------------------ MODULE MorningView -----------------------------
(* What the interactive scan shows with --dirty-only (main.go): the machine    *)
(* looks at its trees, loads what the others published, and of all projects    *)
(* shows those that need attention.  The trees, the published snapshots and    *)
(* the situations are those of Situations; what was published between the two  *)
(* looks is as if it had been published before them, so that a view is a       *)
(* function of the state.                                                      *)
EXTENDS Situations

CONSTANT Viewer   \* the machine on which the user looks

ASSUME ViewerAssumption == Viewer \in Machines

\* How a view comes about.  remotes: a state repository is configured and
\* --no-remote is not given; loaded: its directory could be read.
Views == {[remotes |-> FALSE, loaded |-> FALSE], [remotes |-> TRUE, loaded |-> FALSE],
          [remotes |-> TRUE, loaded |-> TRUE]}

\* What the scan keeps: checkRepoStatuses drops what needs no attention only if
\* nothing but the own trees will be looked at.
Results(view) ==
    IF view.remotes THEN Range(trees[Viewer])
    ELSE {r \in Range(trees[Viewer]) : NeedsAttention(r)}

\* BuildAggregateRows: the given trees, and if the snapshots were loaded the
\* rows of the other machines.
Combined(v, local, view) ==
    {Row(v, v, r) : r \in local}
        \cup (IF view.loaded THEN LoadErrors(v) \cup UNION {RowsOf(v, m) : m \in Machines \ {v}}
              ELSE {})

CrossKinds == {"branch_mismatch", "tip_mismatch", "other_machine_work"}

\* Mutants: a project is kept for what other machines are involved in only; for
\* its local situations only.
KeysWithCross(S) == {x[1] : x \in {y \in S : y[2].kind \in CrossKinds}}

KeysWithLocal(S) == {x[1] : x \in {y \in S : y[2].kind \notin CrossKinds}}

\* ProjectKeysWithSituations
KeysWithSituations(S) == {x[1] : x \in S}

\* Mutant: a row that could not be loaded belongs to no project and goes.
FilteredByKey(R, K) == {r \in R : Key(r.repo) \in K}

\* FilterRowsByProjectKeys
Filtered(R, K) == {r \in R : r.loadError \/ Key(r.repo) \in K}

\* What is shown of the given trees.
Visible(v, local, view) ==
    LET R == Combined(v, local, view) IN Filtered(R, KeysWithSituations(SituationsOf(R)))
-------------------------------------------------------------------------------
\* printGlanceMatrix: the trees of the own column.
Own(rows) == {r.repo : r \in Locals(rows)}

\* Every tree here that needs attention is shown, whichever way the trees were
\* dropped before, but for one without commits that could not be looked at
\* (main.go:375-411, situations.go:210).
NoTreeMissing ==
    \A view \in Views :
        LET shown == Own(Visible(Viewer, Results(view), view))
        IN  \A i \in Trees :
                LET r == trees[Viewer][i]
                IN  NeedsAttention(r) /\ ~({"error", "empty"} \subseteq r.marks)
                        => r \in shown

\* "This keeps the matrix ... limited to: Git errors, ..." (README.md:309-311).
ErrorsKept ==
    \A view \in Views, i \in Trees :
        "error" \in trees[Viewer][i].marks =>
            trees[Viewer][i] \in Own(Visible(Viewer, Results(view), view))

\* --dirty-only hides projects, never a reason: with the clean trees dropped or
\* not and the projects filtered or not, the situations are the same
\* (main.go:375-411), and no load error is hidden (situations.go:501-515).
SameSituations ==
    \A view \in Views :
        LET all == Combined(Viewer, Range(trees[Viewer]), view)
            shown == Visible(Viewer, Results(view), view)
        IN  /\ SituationsOf(shown) = SituationsOf(all)
            /\ {r \in all : r.loadError} \subseteq shown

===============================================================================
