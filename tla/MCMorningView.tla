---------------------------- MODULE MCMorningView -----------------------------
(* Small instances of Situations and MorningView for TLC.                    *)
EXTENDS MorningView, FiniteSets, TLC

CONSTANTS o1, main, feature, t1, t2

\* Two kinds of marks: one that machines tell each other about, and one that is
\* a cue only locally and hides the others.
SomeAspects == {"error", "dirty"}

\* What a tree without commits can have.
EmptyAspects == {"error", "empty", "dirty"}

FewAspects == {"dirty"}

OneRedacts == {1}

Nothing == {}

\* Bound: the first tree has an origin; the second may have none.
FirstHasOrigin == origins[1] # None

\* Bound: but where an error is all there is, only the first tree of machine 1 may
\* be reported without its commit or without its origin, not without both, and
\* only if both clones have one.
FewWithheld ==
    \A m \in Machines, i \in Trees :
        LET r == trees[m][i]
        IN  r.branch # None /\ (r.tip = None \/ r.origin # origins[i]) =>
               /\ <<m, i>> = <<1, 1>> /\ origins[2] # None
               /\ r.tip # None \/ r.origin = origins[i]

\* Bound: one thing fails at a time: the check of a tree, an agent that is to
\* publish, or the file of a snapshot.  What failed earlier may still be published.
OneFault ==
    Cardinality({p \in Machines \X Trees : "error" \in trees[p[1]][p[2]].marks})
        + Cardinality(stale) + Cardinality(corrupt) <= 1

Names == Permutations({main, feature}) \cup Permutations({t1, t2})
===============================================================================
