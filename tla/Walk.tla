--------------------------------- MODULE Walk ---------------------------------
(* FindGitRepos (internal/discover/repos.go): the walk over the files below    *)
(* the scan root that finds the repositories, in a file system that changes    *)
(* and denies access meanwhile, with a context that may be cancelled.          *)
(* Module ScanPool starts from its result.                                     *)
EXTENDS Naturals, Sequences, SequencesExt

CONSTANTS
    N,           \* the entries are 1..N; 1 is the scan root
    MaxChanges   \* bound on the changes while the walk is under way

ASSUME WalkAssumption == N \in Nat \ {0} /\ MaxChanges \in Nat

Nodes == 1..N
Root == 1

\* What an entry is and how it is called: a directory, one with a name that
\* shouldSkipDir knows, a file (or a symbolic link), a directory or file .git.
Sorts == {"dir", "hidden", "file", "gitDir", "gitFile"}

Directories == {"dir", "hidden", "gitDir"}

\* A path is an entry below the root as the user spelled it, or with the links
\* in it resolved; 0 is the directory of the root.
RepoPaths == {"spelled", "resolved"} \X (0..N)

Nowhere == <<"spelled", N + 1>>

VARIABLES
    parent, sort,   \* the tree; the entries of a directory are walked in order
    exclude,        \* the path of the state repository, or Nowhere
    there,          \* the entries that exist now
    denied,         \* the directories that cannot be listed or entered now
    touched,        \* the entries that changed since the walk began
    ctxDone,        \* the context is cancelled or past its deadline
    pc, todo,       \* the entries still to visit, those of the innermost directory first
    found, err,     \* the result
    changes

tree == <<parent, sort, exclude>>

files == <<there, denied, touched, changes>>

walkVars == <<tree, files, ctxDone, pc, todo, found, err>>

\* The directories an entry is in, up to the root.
Above(n) ==
    LET up[k \in Nodes] == IF k = Root THEN {} ELSE {parent[k]} \cup up[parent[k]]
    IN  up[n]

\* A tree, in which no directory has two entries of the same name.
IsTree ==
    /\ parent \in [Nodes -> 0..(N - 1)] /\ sort \in [Nodes -> Sorts]
    /\ parent[Root] = 0
    /\ \A n \in Nodes \ {Root} :
         /\ parent[n] \in 1..(n - 1) /\ sort[parent[n]] \in Directories
         /\ sort[n] \in {"gitDir", "gitFile"} =>
              \A k \in Nodes \ {Root, n} :
                 parent[k] = parent[n] => sort[k] \notin {"gitDir", "gitFile"}

WalkInit ==
    /\ IsTree
    /\ exclude \in {Nowhere} \cup {p \in RepoPaths : p[2] \in Nodes /\ sort[p[2]] = "dir"}
    /\ there \in {Nodes} \cup {Nodes \ {n} : n \in Nodes}
    /\ denied \in {{}} \cup {{n} : n \in {k \in Nodes : sort[k] \in Directories}}
    /\ touched = {} /\ changes = 0
    /\ ctxDone = FALSE
    /\ pc = "start" /\ todo = <<>> /\ found = <<>> /\ err = FALSE
-------------------------------------------------------------------------------
(* The file system.                                                          *)

\* lstat succeeds.
Accessible(n) == {n} \cup Above(n) \subseteq there /\ Above(n) \cap denied = {}

\* readDirNames succeeds.
Listable(n) == Accessible(n) /\ n \notin denied

\* The entries of a directory in the order of their names, of which the model knows
\* no more than the sort: it may be any order.
Entries(n) == SetToSeq({k \in there \ {Root} : parent[k] = n})

\* An entry is removed or comes back, or its permissions are changed.
Change(n) ==
    /\ pc = "walk" /\ changes < MaxChanges /\ changes' = changes + 1
    /\ touched' = touched \cup {n}
    /\ \/ /\ there' = SymDiff(there, {n})
          /\ UNCHANGED denied
       \/ /\ sort[n] \in Directories
          /\ denied' = SymDiff(denied, {n})
          /\ UNCHANGED there
    /\ UNCHANGED <<tree, ctxDone, pc, todo, found, err>>

Cancel ==
    /\ pc # "done" /\ ~ctxDone /\ ctxDone' = TRUE
    /\ UNCHANGED <<tree, files, pc, todo, found, err>>
-------------------------------------------------------------------------------
(* The walk.                                                                 *)

Return(e) ==
    /\ pc' = "done" /\ err' = e /\ todo' = <<>>
    /\ found' = IF e THEN <<>> ELSE found

Ongoing == UNCHANGED <<pc, err>>

\* EvalSymlinks, Stat, IsDir: whether or not the root can be listed.
Open ==
    /\ pc = "start"
    /\ IF Accessible(Root) /\ sort[Root] \in Directories
       THEN pc' = "walk" /\ todo' = <<Root>> /\ UNCHANGED <<found, err>>
       ELSE Return(TRUE)
    /\ UNCHANGED <<tree, files, ctxDone>>

\* Mutant: compared with the resolved path.
ExcludedResolved(d) == <<"resolved", d>> = exclude

\* shouldExcludeRepo, of the path that displayPath gives.
Excluded(d) == <<"spelled", d>> = exclude

\* shouldSkipDir, never of the root.
Skipped(n) == sort[n] = "hidden" /\ n # Root

\* Mutant: SkipDir whatever .git is; from a file it skips the other entries.
SkipDirAlways(n) ==
    IF sort[n] = "gitDir" THEN Tail(todo)
    ELSE SelectSeq(Tail(todo), LAMBDA k : k # Root /\ parent[k] # parent[n])

\* Mutant: once it is known for a repository, the directory is read again.
ReadAgain(n) == Entries(parent[n]) \o Tail(todo)

\* What is left after .git: SkipDir of a directory, nothing special of a file.
AfterGit(n) == Tail(todo)

\* Mutant: the root that cannot be listed is passed over like any other entry.
AllPassedOver(n) == todo' = Tail(todo) /\ found' = found /\ Ongoing

\* The callback gets an error: only that of the root is one of the walk.
Denied(n) ==
    IF n = Root THEN Return(TRUE) ELSE todo' = Tail(todo) /\ found' = found /\ Ongoing

FoundGit(n) ==
    /\ found' = IF Excluded(parent[n]) THEN found
                ELSE Append(found, <<"spelled", parent[n]>>)
    /\ todo' = AfterGit(n) /\ Ongoing

Descend(n) ==
    /\ todo' = IF sort[n] = "file" \/ Skipped(n) THEN Tail(todo)
               ELSE Entries(n) \o Tail(todo)
    /\ found' = found /\ Ongoing

\* filepath.Walk visits the next entry: lstat, readDirNames, the callback.
Visit ==
    /\ pc = "walk" /\ todo # <<>>
    /\ LET n == Head(todo)
           fails == ~Accessible(n) \/ (sort[n] \in Directories /\ n \in denied)
       IN  \/ ctxDone /\ Return(FALSE)
           \/ ~ctxDone /\ fails /\ Denied(n)
           \/ ~ctxDone /\ ~fails /\ sort[n] \in {"gitDir", "gitFile"} /\ FoundGit(n)
           \/ ~ctxDone /\ ~fails /\ sort[n] \notin {"gitDir", "gitFile"} /\ Descend(n)
    /\ UNCHANGED <<tree, files, ctxDone>>

Finish ==
    /\ pc = "walk" /\ todo = <<>>
    /\ Return(FALSE)
    /\ UNCHANGED <<tree, files, ctxDone>>

Done == pc = "done" /\ UNCHANGED walkVars

WalkNext == Open \/ Visit \/ Finish \/ Done \/ Cancel \/ \E n \in Nodes : Change(n)

WalkSpec == WalkInit /\ [][WalkNext]_walkVars
-------------------------------------------------------------------------------
WalkTypeOK ==
    /\ there \subseteq Nodes /\ touched \subseteq Nodes
    /\ denied \subseteq {n \in Nodes : sort[n] \in Directories}
    /\ ctxDone \in BOOLEAN /\ err \in BOOLEAN /\ pc \in {"start", "walk", "done"}
    /\ todo \in Seq(Nodes) /\ found \in Seq(RepoPaths)
    /\ IsInjective(todo) /\ changes \in 0..MaxChanges

\* The walk enters d: no directory on the way is one to skip.
Entered(d) ==
    \A a \in {d} \cup Above(d) : sort[a] = "dir" \/ (a = Root /\ sort[a] = "hidden")

\* The directory of the state repository, by whichever path that was given.
StateRepo(d) == exclude \in {<<"spelled", d>>, <<"resolved", d>>}

\* .git in a directory the walk enters.
InReach(g) == g # Root /\ sort[g] \in {"gitDir", "gitFile"} /\ Entered(parent[g])

\* That of a repository to report.
Marks(g) == InReach(g) /\ ~StateRepo(parent[g])

\* There throughout, as is the way to it.
Lasting(n) ==
    /\ {n} \cup Above(n) \subseteq there \ touched
    /\ Above(n) \cap denied = {}

Completed == pc = "done" /\ ~err /\ ~ctxDone

Reported(g) == <<"spelled", parent[g]>> \in ToSet(found)

\* A walk that ends without an error and was not cut short has every repository,
\* the state repository aside, that was there all the while and could be read:
\* nested, below a .git file, beside the state repository, under a hidden root,
\* and whatever else vanished or was denied meanwhile (repos.go:57-130); and a root
\* that cannot be listed is an error, never a machine without repositories
\* (repos.go:25-28).
NothingHidden ==
    Completed =>
        /\ \A g \in Nodes : Marks(g) /\ Lasting(g) /\ g \notin denied => Reported(g)
        /\ Root \notin touched => Listable(Root) /\ sort[Root] \in Directories

\* "A directory containing a .git entry is treated as a repo root"
\* (repos.go:22-23), whether or not .git can be listed.
EveryEntryCounts ==
    Completed => \A g \in Nodes : Marks(g) /\ Lasting(g) => Reported(g)

\* The state repository is given by its resolved path and the root is not: paths
\* are compared as they are spelled, and it is reported like any other
\* (repos.go:87, 148-158).
OtherSpelling(d) == exclude = <<"resolved", d>>

MayReport(g) == InReach(g) /\ (StateRepo(parent[g]) => OtherSpelling(parent[g]))

\* Every directory reported had a .git, is not below one to skip, and is not the
\* state repository unless that is given by another spelling than the root; none
\* is reported twice.  (A root called .git is taken for that of the directory it
\* is in.)
NothingInvented ==
    /\ IsInjective(found)
    /\ \A p \in ToSet(found) :
          \/ p = <<"spelled", 0>> /\ sort[Root] = "gitDir"
          \/ \E g \in there \cup touched : MayReport(g) /\ p = <<"spelled", parent[g]>>
-------------------------------------------------------------------------------
(* The inductive invariant behind the proofs of InteractiveProofs.           *)

\* Of the entries still to visit none is below another, and the walk got to each
\* through directories it enters.
Frontier ==
    \A n \in ToSet(todo) :
        /\ \A k \in ToSet(todo) : n \notin Above(k)
        /\ n # Root => Entered(parent[n])

\* What is to be reported and is not yet has something on its way still to visit.
Awaited ==
    \A g \in Nodes :
        Marks(g) /\ Lasting(g) /\ g \notin denied /\ ~Reported(g)
            => \E n \in ToSet(todo) : n \in {g} \cup Above(g)

\* What is reported was visited for a .git, and nothing on its way is visited again.
Visited ==
    \A p \in ToSet(found) : \E g \in Nodes :
        /\ sort[g] \in {"gitDir", "gitFile"} /\ p = <<"spelled", parent[g]>>
        /\ ToSet(todo) \cap ({g} \cup Above(g)) = {}

\* Once the root was visited it was listed.
RootListed ==
    /\ sort[Root] \in Directories
    /\ Root \in ToSet(todo) \cup touched \/ Listable(Root)

WalkInv ==
    /\ WalkTypeOK /\ IsTree
    /\ pc = "start" => todo = <<>> /\ found = <<>>
    /\ pc = "walk" => Awaited /\ RootListed
    /\ Frontier /\ Visited /\ NothingHidden /\ NothingInvented
===============================================================================
