------------------------------ MODULE Situations ------------------------------
(* What the machines of one user are told about each other.  Every machine    *)
(* holds work trees; its agent publishes what it finds, redacted or not       *)
(* (snapshot.go, origin.go); every machine combines its own trees with what   *)
(* the others published last (aggregate.go), groups them by project and       *)
(* derives the situations to act on (situations.go), which a scan, the check  *)
(* of one tree (check.go) and the matrix (matrix.go) show.                    *)
(*                                                                            *)
(* Abstractions: a machine is a number, a tree is its index in the order of   *)
(* the paths, an abbreviated commit id stands for its commit whatever its     *)
(* length, a hash for what is hashed; "unknown", the branch reported with an   *)
(* error, is a branch name like any other, as it is to comparableBranch.  The  *)
(* lists of the program are sorted by project, machine and path and no path is *)
(* in them twice, so that they are sets here, and the first tree of a machine  *)
(* is that of the least path.                                                  *)
EXTENDS Naturals, Functions, Report

CONSTANTS
    NMachines,   \* the machines are 1..NMachines
    NTrees,      \* the work trees of each are 1..NTrees
    Origins,     \* the normalized URLs of origin remotes
    Branches,    \* the names of branches
    Tips,        \* the commits at their heads
    None,        \* no origin, no branch, no commit
    Detached,    \* what is reported as the branch of a detached HEAD
    Redacts,     \* the machines that publish with --redact-paths
    Aspects,     \* what may be the matter with a tree
    Damaged,     \* the machines whose snapshot file may get damaged
    MaxWork      \* bound on the changes of trees

Machines == 1..NMachines
Trees == 1..NTrees

ASSUME SituationsAssumption ==
    /\ NMachines \in Nat \ {0} /\ NTrees \in Nat \ {0} /\ MaxWork \in Nat
    /\ Redacts \subseteq Machines /\ Aspects \subseteq AllMarks
    /\ Damaged \subseteq Machines
    /\ None \notin Branches \cup Tips \cup [url : Origins, redacted : BOOLEAN]
    /\ None # Detached

VARIABLES
    origins,    \* per tree: the origin of the clone, whether or not it is reported
    trees,      \* per machine: its work trees as a check reports them, in the
                \* order of their paths
    board,      \* per machine: the trees it published last
    stale,      \* the machines whose snapshot is older than the stale TTL
    corrupt,    \* the machines whose snapshot cannot be parsed
    work        \* how often a tree changed

vars == <<origins, trees, board, stale, corrupt, work>>

\* Where a tree is: the name of its directory and that of the parent.
Paths == [parent : {"src", None}, base : Trees]

\* A repository as it is reported; an origin is a URL or the hash of one.
Repos == [path   : Paths,
          origin : [url : Origins, redacted : BOOLEAN] \cup {None},
          branch : Branches \cup {Detached, None},
          tip    : Tips \cup {None},
          marks  : SUBSET Aspects]

\* What checkRepoStatus can report, failures of its commands included.
Consistent(r) ==
    Reportable(CASE r.branch = None -> "" [] r.branch = Detached -> "detached"
                 [] OTHER -> "named",
               r.origin # None, r.tip # None, r.marks)

\* What can be reported of tree i of a machine, given its origin.
TreeStates(i, o) ==
    {r \in [path : {[parent |-> "src", base |-> i]}, origin : {o, None},
            branch : Branches \cup {Detached, None}, tip : Tips \cup {None},
            marks : SUBSET Aspects] : Consistent(r)}

\* At first every machine has a clone of the same commit everywhere.
Init ==
    /\ origins \in [Trees -> [url : Origins, redacted : {FALSE}] \cup {None}]
    /\ \E b \in Branches, t \in Tips :
         trees = [m \in Machines |->
                    [i \in Trees |-> [path |-> [parent |-> "src", base |-> i],
                                      origin |-> origins[i], branch |-> b, tip |-> t,
                                      marks |-> {}]]]
    /\ board = [m \in Machines |-> {}]
    /\ stale = {} /\ corrupt = {}
    /\ work = 0

\* needsAttention
NeedsAttention(r) == r.marks \ {"empty"} # {}
-------------------------------------------------------------------------------
(* Publishing, and what is read back.                                        *)

\* maybeRedactRepoSnapshot: the base of the path, the hash of the origin.
Redacted(r) ==
    [r EXCEPT !.path.parent = None,
              !.origin = IF @ = None THEN None ELSE [@ EXCEPT !.redacted = TRUE]]

Published(m) ==
    {IF m \in Redacts THEN Redacted(r) ELSE r : r \in Range(trees[m])}

\* repoCorrelationKey: the hash of the origin, or else parent/base.
Key(r) == IF r.origin # None THEN <<"origin", r.origin.url>>
          ELSE <<"basename", r.path.parent, r.path.base>>

NoRepo == [path |-> [parent |-> None, base |-> 1], origin |-> None,
           branch |-> None, tip |-> None, marks |-> {}]

\* The row of a repository of m as machine v has it.
Row(v, m, r) == [machine |-> m, local |-> m = v, stale |-> m # v /\ m \in stale,
                 repo |-> r, loadError |-> FALSE]

\* The row that says that the snapshot of m cannot be read, if it cannot.
LoadErrors(m) ==
    {[machine |-> x, local |-> FALSE, stale |-> FALSE, repo |-> NoRepo,
      loadError |-> TRUE] : x \in {m} \cap corrupt}

\* What another machine has of m: what m published, if it can be read.
Readable(m) == IF m \in corrupt THEN {} ELSE board[m]

\* The rows machine v has of machine m: its own trees as they are.
RowsOf(v, m) ==
    {Row(v, m, r) : r \in IF m = v THEN Range(trees[m]) ELSE Readable(m)} \cup LoadErrors(m)

\* BuildAggregateRows
Rows(v) == UNION {RowsOf(v, m) : m \in Machines}

Keys(rows) == {Key(r.repo) : r \in {x \in rows : ~x.loadError}}

\* GroupRowsByProject: the rows of a project.
Group(rows, k) == {r \in rows : ~r.loadError /\ Key(r.repo) = k}

Groups(rows) == {Group(rows, k) : k \in Keys(rows)}

Locals(g) == {r \in g : r.local}
Remotes(g) == {r \in g : ~r.local}

\* Of the trees of one machine the one with the least path.
FirstOf(R) == CHOOSE r \in R : \A x \in R : r.repo.path.base <= x.repo.path.base
-------------------------------------------------------------------------------
(* The situations of a project (detectGroupSituations).                      *)

\* The row's machine as it is shown: with " (stale)" if it is.
Shown(r) == <<r.machine, r.stale>>

Has(r, a) == a \in r.repo.marks

Works(r) == ~Has(r, "error")

\* Every local tree gets its own cues.
LocalCues(g) ==
    LET cue(l, kind) == [kind |-> kind, tree |-> l.repo.path, both |-> FALSE,
                         machines |-> {Shown(l)}, stale |-> FALSE]
        L == Locals(g)
    IN  {cue(l, "local_error") : l \in {x \in L : Has(x, "error") /\ ~Has(x, "empty")}}
        \cup {cue(l, "local_dirty") : l \in {x \in L : Works(x) /\ Has(x, "dirty")}}
        \cup {cue(l, "local_unpushed") : l \in {x \in L : Works(x) /\ Has(x, "unpushed")}}
        \cup {cue(l, "local_behind") : l \in {x \in L : Works(x) /\ Has(x, "behind")}}
        \cup {cue(l, "local_untracked_upstream") :
                 l \in {x \in L : Works(x) /\ Has(x, "noUpstream")}}

\* Mutant: only work that is out of date counts as stale, not a branch or tip.
StaleWork(kind, machines, evidence, both) ==
    [kind |-> kind, tree |-> None, both |-> both, machines |-> machines,
     stale |-> \E r \in evidence : r.stale /\ NeedsAttention(r.repo)]

\* A situation of more than one machine that rests on some of the rows.
Cross(kind, machines, evidence, both) ==
    [kind |-> kind, tree |-> None, both |-> both, machines |-> machines,
     stale |-> \E r \in evidence : r.stale]

Comparable(b) == b \notin {None, Detached}

LocalBranches(g) ==
    {b \in {l.repo.branch : l \in Locals(g)} : Comparable(b)}

\* Mutant: every row of another machine is compared, not every machine.
ElsewhereByTree(g) ==
    {r \in Remotes(g) : Comparable(r.repo.branch) /\ LocalBranches(g) # {}
                           /\ r.repo.branch \notin LocalBranches(g)}

\* The rows of the machines that have no tree on a branch checked out here.
Elsewhere(g) ==
    LET here == LocalBranches(g)
        peers == {r.machine : r \in {x \in Remotes(g) : x.repo.branch \in here}}
    IN  {r \in Remotes(g) : here # {} /\ Comparable(r.repo.branch)
                               /\ r.machine \notin peers}

BranchMismatch(g) ==
    LET E == Elsewhere(g)
    IN  IF E = {} THEN {}
        ELSE {Cross("branch_mismatch",
                    {<<FirstOf(Locals(g)).machine, FALSE>>}
                        \cup {<<r.machine, FALSE>> : r \in E}, E, FALSE)}

\* The rows on the branch of the first local tree, at another commit.
OtherTips(g) ==
    LET here == FirstOf(Locals(g)).repo
    IN  {r \in Remotes(g) : /\ Comparable(here.branch) /\ here.tip # None
                            /\ r.repo.branch = here.branch
                            /\ r.repo.tip \notin {None, here.tip}}

TipMismatch(g) ==
    IF Locals(g) = {} \/ OtherTips(g) = {} \/ Elsewhere(g) # {} THEN {}
    ELSE {Cross("tip_mismatch",
                {<<FirstOf(Locals(g)).machine, FALSE>>}
                    \cup {<<r.machine, FALSE>> : r \in Remotes(g)},
                OtherTips(g), FALSE)}

\* Mutant: work elsewhere is a cue only if there is none here.
WorkIfClean(g) ==
    {r \in Remotes(g) : /\ Works(r) /\ (Has(r, "dirty") \/ Has(r, "unpushed"))
                        /\ \A l \in Locals(g) : ~Has(l, "dirty")}

\* Work on other machines: dirty trees, and clean ones with unpushed commits.
WorkElsewhere(g) ==
    {r \in Remotes(g) : Works(r) /\ (Has(r, "dirty") \/ Has(r, "unpushed"))}

OtherWork(g) ==
    LET W == WorkElsewhere(g)
        both == /\ \E l \in Locals(g) : Works(l) /\ Has(l, "dirty")
                /\ \E r \in W : Has(r, "dirty")
    IN  IF Locals(g) = {} \/ W = {} THEN {}
        ELSE {Cross("other_machine_work", {Shown(r) : r \in W}, W, both)}

\* Mutant: no cue of staleness if there is any other.
SilentIfAny(g, others) == others # {}

\* Another situation of the group says already that evidence is stale.
Qualified(g, others) == \E s \in others : s.stale

StaleEvidence(g, others) ==
    LET E == {r \in Remotes(g) : r.stale /\ NeedsAttention(r.repo)}
    IN  IF E = {} \/ Qualified(g, others) THEN {}
        ELSE {Cross("stale_evidence", {Shown(r) : r \in E}, E, FALSE)}

GroupSituations(g) ==
    LET S == LocalCues(g) \cup BranchMismatch(g) \cup TipMismatch(g) \cup OtherWork(g)
    IN  S \cup StaleEvidence(g, S)

\* DetectSituations: those of every project in the rows.
SituationsOf(rows) ==
    UNION {{<<k, s>> : s \in GroupSituations(Group(rows, k))} : k \in Keys(rows)}

\* What machine v is told.
Detected(v) == SituationsOf(Rows(v))
-------------------------------------------------------------------------------
(* The matrix: a line per project, a cell per machine.                       *)

\* matrixStatusRank
Rank(r) ==
    CASE "error" \in r.marks -> 70
      [] "error" \notin r.marks /\ "dirty" \in r.marks -> 60
      [] r.marks \cap {"error", "dirty"} = {} /\ {"behind", "unpushed"} \subseteq r.marks -> 50
      [] r.marks \cap {"error", "dirty", "unpushed"} = {} /\ "behind" \in r.marks -> 40
      [] r.marks \cap {"error", "dirty", "behind"} = {} /\ "unpushed" \in r.marks -> 30
      [] r.marks \subseteq {"noUpstream", "empty"} /\ "noUpstream" \in r.marks -> 20
      [] r.marks = {"empty"} -> 10
      [] OTHER -> 0

\* collapseRowsForMachine: the first of the worst.  The rows of a machine are
\* all local or all remote, all stale or all fresh.
Collapsed(R) == FirstOf({r \in R : \A x \in R : Rank(r.repo) >= Rank(x.repo)})

\* The cells of the line of a group.
Cells(g) ==
    {Collapsed({r \in g : r.machine = m}) : m \in {r.machine : r \in g}}

\* projectBranchesDiffer
BranchesDiffer(C) ==
    \E c, d \in C : /\ None \notin {c.repo.branch, d.repo.branch}
                    /\ c.repo.branch # d.repo.branch

\* Mutant: only what was published is compared.
RemoteTipsDiffer(C) ==
    \E c, d \in C : /\ c.repo.branch = d.repo.branch /\ Comparable(c.repo.branch)
                    /\ None \notin {c.repo.tip, d.repo.tip}
                    /\ c.repo.tip # d.repo.tip /\ ~c.local /\ ~d.local

\* projectTipsDiffer
TipsDiffer(C) ==
    \E c, d \in C : /\ c.repo.branch = d.repo.branch /\ Comparable(c.repo.branch)
                    /\ None \notin {c.repo.tip, d.repo.tip}
                    /\ c.repo.tip # d.repo.tip

\* formatMatrixCellForProject: nothing but "clean" or "empty" is in any cell.
LooksCalm(g) ==
    LET C == Cells(g)
    IN  /\ \A c \in C : c.repo.marks \subseteq {"empty"} /\ ~c.stale
        /\ ~BranchesDiffer(C) /\ ~TipsDiffer(C)
-------------------------------------------------------------------------------
\* The user works, or git starts or stops to fail: a tree is reported otherwise.
Work(m) ==
    /\ work < MaxWork /\ work' = work + 1
    /\ \E i \in Trees : \E r \in TreeStates(i, origins[i]) :
         trees' = [trees EXCEPT ![m][i] = r]
    /\ UNCHANGED <<origins, board, stale, corrupt>>

\* The agent of m publishes what it finds (module StateSync).
Publish(m) ==
    /\ board' = [board EXCEPT ![m] = Published(m)]
    /\ stale' = stale \ {m} /\ corrupt' = corrupt \ {m}
    /\ UNCHANGED <<origins, trees, work>>

\* The snapshot of m gets older than the stale TTL.
Age(m) ==
    /\ board[m] # {} /\ stale' = stale \cup {m}
    /\ UNCHANGED <<origins, trees, board, corrupt, work>>

\* The file of m in the clone is damaged.
Damage(m) ==
    /\ m \in Damaged /\ board[m] # {} /\ corrupt' = corrupt \cup {m}
    /\ UNCHANGED <<origins, trees, board, stale, work>>

Next == \E m \in Machines : Work(m) \/ Publish(m) \/ Age(m) \/ Damage(m)

Spec == Init /\ [][Next]_vars
-------------------------------------------------------------------------------
TypeOK ==
    /\ origins \in [Trees -> [url : Origins, redacted : {FALSE}] \cup {None}]
    /\ trees \in [Machines -> [Trees -> Repos]]
    /\ board \in [Machines -> SUBSET Repos]
    /\ stale \subseteq Machines /\ corrupt \subseteq Machines
    /\ work \in 0..MaxWork
    /\ \A m \in Machines, i \in Trees : trees[m][i] \in TreeStates(i, origins[i])

\* Two machines with uncommitted work in one project are warned of each other:
\* as soon as one's is published, the other is told that it is on both sides,
\* however redacted it was published and whatever else is the matter
\* (situations.go:359-408).
CollisionSurfaced ==
    \A v, m \in Machines : \A here \in Range(trees[v]), there \in board[m] :
            /\ v # m /\ m \notin corrupt
            /\ {here.origin, there.origin} \cap {None} = {}
            /\ here.origin.url = there.origin.url
            /\ "dirty" \in here.marks \cap there.marks
            /\ "error" \notin here.marks \cup there.marks
            => \E s \in Detected(v) : /\ s[2].kind = "other_machine_work" /\ s[2].both
                                      /\ <<m, m \in stale>> \in s[2].machines

\* m is told of a branch mismatch with n, in a project with an origin.
ToldOfBranch(m, n) ==
    \E s \in Detected(m) : /\ s[1][1] = "origin" /\ s[2].kind = "branch_mismatch"
                           /\ <<n, FALSE>> \in s[2].machines

\* A branch mismatch is mutual: of two machines whose snapshots are current, both
\* are told of the other's branch, or neither (situations.go:265-317; redaction
\* does not matter with an origin, README.md:150).
MismatchMutual ==
    \A m, n \in Machines :
        m < n /\ {m, n} \cap corrupt = {}
            /\ board[m] = Published(m) /\ board[n] = Published(n)
            => (ToldOfBranch(m, n) <=> ToldOfBranch(n, m))

\* Advice says that it is stale when it rests on the snapshot of a machine whose
\* agent fell silent, and only then (situations.go:265-452): what it says so of is
\* another machine, a silent one; advice that names a silent machine says so, but
\* for a tip mismatch, which names machines with the same tip too; that says so if
\* all it names are silent; and if a silent machine's tree needs attention, some
\* advice of the project says so.
StaleSaid ==
    \A v \in Machines : \A g \in Groups(Rows(v)) :
        LET S == GroupSituations(g)
            silent == stale \ {v}
            named(s) == {x[1] : x \in s.machines}
        IN  /\ \A s \in S :
                 /\ s.stale => named(s) \cap silent # {}
                 /\ s.kind # "tip_mismatch" /\ named(s) \cap silent # {} => s.stale
                 /\ named(s) # {v} /\ named(s) \subseteq silent \cup {v} => s.stale
                 /\ \A x \in s.machines : x[2] => x[1] \in silent
            /\ (\E r \in g : r.machine \in silent /\ NeedsAttention(r.repo))
                  => \E s \in S : s.stale

\* No machine has more than one tree in the group.
OneTreeEach(g) == \A r, x \in g : r.machine = x.machine => r = x

\* A project that looks calm in the matrix has no situation, if no machine has
\* more than one tree of it: of several only the worst is compared with the other
\* machines (matrix.go:88-180, situations.go:175-455).
CalmIsCalm ==
    \A v \in Machines : \A g \in Groups(Rows(v)) :
        LooksCalm(g) /\ OneTreeEach(g) => GroupSituations(g) = {}

\* Another machine's tree on the branch checked out here, at another commit, is
\* a situation (openspec/specs/cross-machine-state-sync/spec.md:153-155).
TipMismatchCued ==
    \A v \in Machines : \A g \in Groups(Rows(v)) :
        Locals(g) # {} /\ OtherTips(g) # {} =>
            \E s \in GroupSituations(g) : s.kind = "tip_mismatch"
===============================================================================
