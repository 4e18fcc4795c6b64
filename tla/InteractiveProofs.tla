--------------------------- MODULE InteractiveProofs --------------------------
(* Theorems about the interactive scan: what the walk finds (Walk), in a tree *)
(* of any size, and what any number of machines with any number of trees are  *)
(* told of each other (Situations) and shown (MorningView).                   *)
EXTENDS Walk, MorningView, FiniteSetTheorems, SequenceTheorems, TLAPS

-------------------------------------------------------------------------------
\* Of numbers that break a claim there is a first: induction without an operator
\* parameter.
LEMMA First ==
    ASSUME NEW S \in SUBSET Nat, S # {}
    PROVE  \E x \in S : \A y \in S : x <= y
<1>1. PICK x \in S : \A y \in S : ~(<<y, x>> \in OpToRel(<, Nat))
    BY NatLessThanWellFounded, WFMin
<1>2. \A y \in S : ~(y < x)
    BY <1>1 DEF OpToRel
<1> QED BY <1>2

-------------------------------------------------------------------------------
(* Walk: the tree.                                                          *)

\* The directories above an entry are the one it is in and those above that.
LEMMA AboveStep ==
    ASSUME IsTree, NEW n \in Nodes
    PROVE  Above(n) = IF n = Root THEN {} ELSE {parent[n]} \cup Above(parent[n])
<1> DEFINE Closed(S) == \A x \in S : x # Root => parent[x] \in S
           Up(k) == {a \in Nodes : \A S \in SUBSET Nodes : k \in S /\ Closed(S) => a \in S}
           f == [k \in Nodes |-> IF k = Root THEN {} ELSE Up(parent[k])]
           g == CHOOSE h : h = [k \in Nodes |-> IF k = Root THEN {}
                                                ELSE {parent[k]} \cup h[parent[k]]]
<1>1. \A k \in Nodes \ {Root} : parent[k] \in Nodes
    BY WalkAssumption DEF IsTree, Nodes
<1>2. ASSUME NEW k \in Nodes
      PROVE  Up(k) = {k} \cup (IF k = Root THEN {} ELSE Up(parent[k]))
    <2> DEFINE V == {k} \cup (IF k = Root THEN {} ELSE Up(parent[k]))
    <2>1. V \subseteq Nodes /\ k \in V /\ Closed(V)
        BY <1>1, <1>2
    <2>2. Up(k) \subseteq V
        BY <2>1
    <2>3. V \subseteq Up(k)
        BY <1>1, <1>2
    <2> QED BY <2>2, <2>3
<1>3. f = [k \in Nodes |-> IF k = Root THEN {} ELSE {parent[k]} \cup f[parent[k]]]
    <2>1. ASSUME NEW k \in Nodes \ {Root}
          PROVE  Up(parent[k]) = {parent[k]} \cup f[parent[k]]
        <3>1. parent[k] \in Nodes
            BY <1>1
        <3> QED BY <1>2, <3>1
    <2> HIDE DEF Up
    <2> QED BY <2>1
<1>4. g = [k \in Nodes |-> IF k = Root THEN {} ELSE {parent[k]} \cup g[parent[k]]]
    <2> HIDE DEF f
    <2> QED BY <1>3
<1>5. \A k \in Nodes : Above(k) = g[k]
    BY DEF Above
<1> HIDE DEF g
<1> QED BY <1>1, <1>4, <1>5

LEMMA AboveBefore ==
    ASSUME IsTree, NEW n \in Nodes
    PROVE  Above(n) \subseteq 1..(n - 1) /\ Above(n) \subseteq Nodes
<1> DEFINE Bad == {k \in Nodes : ~(Above(k) \subseteq 1..(k - 1))}
<1>1. Bad = {}
    <2> SUFFICES ASSUME Bad # {} PROVE FALSE
        OBVIOUS
    <2>1. PICK k \in Bad : \A j \in Bad : k <= j
        <3>1. Bad \in SUBSET Nat
            BY WalkAssumption DEF Nodes
        <3> QED BY <3>1, First
    <2>2. k # Root /\ k \in Nodes
        BY <2>1, AboveStep
    <2>3. parent[k] \in 1..(k - 1) /\ parent[k] \in Nodes /\ parent[k] < k
        BY <2>2, WalkAssumption DEF IsTree, Nodes
    <2>4. parent[k] \notin Bad
        BY <2>1, <2>2, <2>3, WalkAssumption DEF Nodes
    <2>5. Above(parent[k]) \subseteq 1..(k - 1)
        BY <2>2, <2>3, <2>4, WalkAssumption DEF Nodes
    <2>6. Above(k) = {parent[k]} \cup Above(parent[k])
        BY <2>2, AboveStep
    <2> HIDE DEF Bad
    <2>7. Above(k) \subseteq 1..(k - 1)
        BY <2>3, <2>5, <2>6
    <2> QED BY <2>1, <2>7 DEF Bad
<1>2. Above(n) \subseteq 1..(n - 1)
    BY <1>1
<1> QED BY <1>2, WalkAssumption DEF Nodes

\* Being above is transitive.
LEMMA AboveAbove ==
    ASSUME IsTree, NEW n \in Nodes, NEW a \in Above(n)
    PROVE  Above(a) \subseteq Above(n)
<1> DEFINE Bad == {k \in Nodes : ~\A b \in Above(k) : Above(b) \subseteq Above(k)}
<1>1. Bad = {}
    <2> SUFFICES ASSUME Bad # {} PROVE FALSE
        OBVIOUS
    <2>1. PICK k \in Bad : \A j \in Bad : k <= j
        <3>1. Bad \in SUBSET Nat
            BY WalkAssumption DEF Nodes
        <3> QED BY <3>1, First
    <2>2. k # Root /\ k \in Nodes
        BY <2>1, AboveStep
    <2>3. parent[k] \in Nodes /\ parent[k] < k /\ parent[k] \in Nat /\ k \in Nat
        BY <2>2, WalkAssumption DEF IsTree, Nodes
    <2>4. parent[k] \notin Bad
        BY <2>1, <2>2, <2>3
    <2>5. Above(k) = {parent[k]} \cup Above(parent[k])
        BY <2>2, AboveStep
    <2>6. \A b \in Above(k) : Above(b) \subseteq Above(k)
        BY <2>3, <2>4, <2>5
    <2> QED BY <2>1, <2>6
<1> QED BY <1>1

\* The root is above every other entry.
LEMMA RootAbove ==
    ASSUME IsTree, NEW n \in Nodes
    PROVE  Root \in {n} \cup Above(n)
<1> DEFINE Bad == {k \in Nodes : Root \notin {k} \cup Above(k)}
<1>1. Bad = {}
    <2> SUFFICES ASSUME Bad # {} PROVE FALSE
        OBVIOUS
    <2>1. PICK k \in Bad : \A j \in Bad : k <= j
        <3>1. Bad \in SUBSET Nat
            BY WalkAssumption DEF Nodes
        <3> QED BY <3>1, First
    <2>2. k # Root /\ k \in Nodes
        BY <2>1
    <2>3. parent[k] \in Nodes /\ parent[k] < k /\ parent[k] \in Nat /\ k \in Nat
        BY <2>2, WalkAssumption DEF IsTree, Nodes
    <2>4. parent[k] \notin Bad
        BY <2>1, <2>2, <2>3
    <2>5. Above(k) = {parent[k]} \cup Above(parent[k])
        BY <2>2, AboveStep
    <2> QED BY <2>1, <2>3, <2>4, <2>5
<1> QED BY <1>1

\* The way to an entry goes on below each directory above it.
LEMMA WayDown ==
    ASSUME IsTree, NEW n \in Nodes, NEW a \in Above(n)
    PROVE  \E k \in {n} \cup Above(n) : k # Root /\ parent[k] = a
<1> DEFINE Step(k, b) == \E c \in {k} \cup Above(k) : c # Root /\ parent[c] = b
           Bad == {k \in Nodes : ~\A b \in Above(k) : Step(k, b)}
<1>1. Bad = {}
    <2> SUFFICES ASSUME Bad # {} PROVE FALSE
        OBVIOUS
    <2>1. PICK k \in Bad : \A j \in Bad : k <= j
        <3>1. Bad \in SUBSET Nat
            BY WalkAssumption DEF Nodes
        <3> QED BY <3>1, First
    <2>2. k # Root /\ k \in Nodes
        BY <2>1, AboveStep
    <2>3. parent[k] \in Nodes /\ parent[k] < k /\ parent[k] \in Nat /\ k \in Nat
        BY <2>2, WalkAssumption DEF IsTree, Nodes
    <2>4. parent[k] \notin Bad
        BY <2>1, <2>2, <2>3
    <2>5. Above(k) = {parent[k]} \cup Above(parent[k])
        BY <2>2, AboveStep
    <2>6. \A b \in Above(k) : Step(k, b)
        BY <2>2, <2>3, <2>4, <2>5
    <2> QED BY <2>1, <2>6
<1> QED BY <1>1
-------------------------------------------------------------------------------
(* Sequences without repetition.                                             *)

\* The elements of a sequence are those at its places, and are in its set.
LEMMA Elements ==
    ASSUME NEW S, NEW s \in Seq(S)
    PROVE  /\ \A x : x \in ToSet(s) <=> \E i \in 1..Len(s) : s[i] = x
           /\ ToSet(s) \subseteq S
           /\ IsInjective(s) <=> \A i, j \in 1..Len(s) : s[i] = s[j] => i = j
<1>1. DOMAIN s = 1..Len(s) /\ s \in [1..Len(s) -> S]
    BY LenProperties
<1> QED BY <1>1 DEF ToSet, IsInjective

LEMMA Nothing ==
    ASSUME NEW S
    PROVE  <<>> \in Seq(S) /\ ToSet(<<>>) = {} /\ IsInjective(<<>>)
<1> DEFINE s == <<>>
<1>1. s \in Seq(S) /\ Len(s) = 0
    BY EmptySeq
<1> HIDE DEF s
<1>2. 1..Len(s) = {}
    BY <1>1
<1>3. ToSet(s) = {} /\ IsInjective(s)
    BY <1>1, <1>2, Elements
<1> QED BY <1>1, <1>3 DEF s

LEMMA OneElement ==
    ASSUME NEW S, NEW x \in S
    PROVE  <<x>> \in Seq(S) /\ ToSet(<<x>>) = {x} /\ IsInjective(<<x>>)
<1> DEFINE s == <<x>>
<1>1. s \in Seq(S) /\ Len(s) = 1 /\ s[1] = x
    OBVIOUS
<1> HIDE DEF s
<1>2. 1..Len(s) = {1}
    BY <1>1
<1>3. ToSet(s) = {x} /\ IsInjective(s)
    BY <1>1, <1>2, Elements
<1> QED BY <1>1, <1>3 DEF s

LEMMA HeadAndTail ==
    ASSUME NEW S, NEW s \in Seq(S), s # <<>>, IsInjective(s)
    PROVE  /\ Head(s) \in S /\ Tail(s) \in Seq(S) /\ IsInjective(Tail(s))
           /\ ToSet(s) = {Head(s)} \cup ToSet(Tail(s)) /\ Head(s) \notin ToSet(Tail(s))
<1>1. /\ Head(s) \in S /\ Tail(s) \in Seq(S) /\ Len(Tail(s)) = Len(s) - 1
      /\ \A i \in 1..Len(Tail(s)) : Tail(s)[i] = s[i + 1]
    BY HeadTailProperties
<1>2. Head(s) = s[1] /\ Len(s) \in Nat \ {0}
    BY EmptySeq
<1>3. \A i, j \in 1..Len(s) : s[i] = s[j] => i = j
    BY Elements
<1>4. IsInjective(Tail(s))
    <2>1. \A i, j \in 1..Len(Tail(s)) : Tail(s)[i] = Tail(s)[j] => i = j
        BY <1>1, <1>2, <1>3
    <2> QED BY <2>1, <1>1, Elements
<1>5. ASSUME NEW x \in ToSet(s)
      PROVE  x \in {Head(s)} \cup ToSet(Tail(s))
    <2>1. PICK i \in 1..Len(s) : s[i] = x
        BY <1>5, Elements
    <2>2. CASE i = 1
        BY <2>1, <2>2, <1>2
    <2>3. CASE i # 1
        <3>1. i - 1 \in 1..Len(Tail(s)) /\ Tail(s)[i - 1] = x
            BY <2>1, <2>3, <1>1, <1>2
        <3>2. x \in ToSet(Tail(s))
            <4> DEFINE t == Tail(s)
            <4>1. t \in Seq(S) /\ i - 1 \in 1..Len(t) /\ t[i - 1] = x
                BY <3>1, <1>1
            <4> HIDE DEF t
            <4>2. x \in ToSet(t)
                BY <4>1, Elements
            <4> QED BY <4>2 DEF t
        <3> QED BY <3>2
    <2> QED BY <2>2, <2>3
<1>6. ASSUME NEW x \in ToSet(Tail(s))
      PROVE  x \in ToSet(s) /\ x # Head(s)
    <2>1. PICK i \in 1..Len(Tail(s)) : Tail(s)[i] = x
        BY <1>1, <1>6, Elements
    <2>2. i + 1 \in 1..Len(s) /\ s[i + 1] = x /\ i + 1 # 1 /\ 1 \in 1..Len(s)
        BY <2>1, <1>1, <1>2
    <2> QED BY <2>2, <1>2, <1>3, Elements
<1>7. Head(s) \in ToSet(s)
    BY <1>2, Elements
<1> QED BY <1>1, <1>4, <1>5, <1>6, <1>7

LEMMA Concatenation ==
    ASSUME NEW S, NEW s \in Seq(S), NEW t \in Seq(S)
    PROVE  /\ s \o t \in Seq(S) /\ ToSet(s \o t) = ToSet(s) \cup ToSet(t)
           /\ IsInjective(s) /\ IsInjective(t) /\ ToSet(s) \cap ToSet(t) = {}
                  => IsInjective(s \o t)
<1>1. /\ s \o t \in Seq(S) /\ Len(s \o t) = Len(s) + Len(t)
      /\ \A i \in 1..Len(s) + Len(t) :
            (s \o t)[i] = IF i <= Len(s) THEN s[i] ELSE t[i - Len(s)]
    BY ConcatProperties
<1>2. Len(s) \in Nat /\ Len(t) \in Nat
    BY LenProperties
<1>3. /\ \A x : x \in ToSet(s \o t) <=> \E i \in 1..Len(s \o t) : (s \o t)[i] = x
      /\ IsInjective(s \o t)
            <=> \A i, j \in 1..Len(s \o t) : (s \o t)[i] = (s \o t)[j] => i = j
    <2> DEFINE u == s \o t
    <2>1. u \in Seq(S)
        BY <1>1
    <2> HIDE DEF u
    <2>2. /\ \A x : x \in ToSet(u) <=> \E i \in 1..Len(u) : u[i] = x
          /\ IsInjective(u) <=> \A i, j \in 1..Len(u) : u[i] = u[j] => i = j
        BY <2>1, Elements
    <2> QED BY <2>2 DEF u
<1>4. ASSUME NEW x \in ToSet(s \o t)
      PROVE  x \in ToSet(s) \cup ToSet(t)
    <2>1. PICK i \in 1..Len(s) + Len(t) : (s \o t)[i] = x
        BY <1>1, <1>4, <1>3
    <2>2. CASE i <= Len(s)
        <3>1. i \in 1..Len(s) /\ s[i] = x
            BY <2>1, <2>2, <1>1, <1>2
        <3> QED BY <3>1, Elements
    <2>3. CASE ~(i <= Len(s))
        <3>1. i - Len(s) \in 1..Len(t) /\ t[i - Len(s)] = x
            BY <2>1, <2>3, <1>1, <1>2
        <3> QED BY <3>1, Elements
    <2> QED BY <2>2, <2>3
<1>5. ASSUME NEW x \in ToSet(s)
      PROVE  x \in ToSet(s \o t)
    <2>1. PICK i \in 1..Len(s) : s[i] = x
        BY <1>5, Elements
    <2>2. i \in 1..Len(s \o t) /\ (s \o t)[i] = x
        BY <2>1, <1>1, <1>2
    <2> QED BY <2>2, <1>3
<1>6. ASSUME NEW x \in ToSet(t)
      PROVE  x \in ToSet(s \o t)
    <2>1. PICK i \in 1..Len(t) : t[i] = x
        BY <1>6, Elements
    <2>2. i + Len(s) \in 1..Len(s \o t) /\ (s \o t)[i + Len(s)] = x
        BY <2>1, <1>1, <1>2
    <2> QED BY <2>2, <1>3
<1>7. ASSUME IsInjective(s), IsInjective(t), ToSet(s) \cap ToSet(t) = {}
      PROVE  IsInjective(s \o t)
    <2>1. ASSUME NEW i \in 1..Len(s) + Len(t), NEW j \in 1..Len(s) + Len(t),
                 (s \o t)[i] = (s \o t)[j]
          PROVE  i = j
        <3>1. \A k \in 1..Len(s) + Len(t) :
                 /\ k <= Len(s) => k \in 1..Len(s) /\ (s \o t)[k] \in ToSet(s)
                 /\ ~(k <= Len(s)) => k - Len(s) \in 1..Len(t) /\ (s \o t)[k] \in ToSet(t)
            BY <1>1, <1>2, Elements
        <3>2. (i <= Len(s)) <=> (j <= Len(s))
            BY <2>1, <3>1, <1>7
        <3>3. CASE i <= Len(s)
            <4>1. s[i] = s[j] /\ i \in 1..Len(s) /\ j \in 1..Len(s)
                BY <1>1, <2>1, <3>1, <3>2, <3>3
            <4> QED BY <4>1, <1>7, Elements
        <3>4. CASE ~(i <= Len(s))
            <4>1. /\ t[i - Len(s)] = t[j - Len(s)]
                  /\ i - Len(s) \in 1..Len(t) /\ j - Len(s) \in 1..Len(t)
                BY <1>1, <2>1, <3>1, <3>2, <3>4
            <4>2. i - Len(s) = j - Len(s)
                BY <4>1, <1>7, Elements
            <4> QED BY <4>2, <1>2
        <3> QED BY <3>3, <3>4
    <2> QED BY <2>1, <1>1, <1>3
<1> QED BY <1>1, <1>4, <1>5, <1>6, <1>7

LEMMA Appended ==
    ASSUME NEW S, NEW s \in Seq(S), NEW x \in S
    PROVE  /\ Append(s, x) \in Seq(S) /\ ToSet(Append(s, x)) = ToSet(s) \cup {x}
           /\ IsInjective(s) /\ x \notin ToSet(s) => IsInjective(Append(s, x))
<1>1. Append(s, x) = s \o <<x>>
    OBVIOUS
<1>2. <<x>> \in Seq(S) /\ ToSet(<<x>>) = {x} /\ IsInjective(<<x>>)
    BY OneElement
<1> DEFINE t == <<x>>
<1>3. t \in Seq(S) /\ ToSet(t) = {x} /\ IsInjective(t)
    BY <1>2
<1> HIDE DEF t
<1>4. /\ s \o t \in Seq(S) /\ ToSet(s \o t) = ToSet(s) \cup {x}
      /\ IsInjective(s) /\ x \notin ToSet(s) => IsInjective(s \o t)
    BY <1>3, Concatenation
<1> QED BY <1>1, <1>4 DEF t

\* The entries of a directory, each once and no others, in whatever order.
LEMMA EntriesMeans ==
    ASSUME there \subseteq Nodes, NEW n
    PROVE  /\ Entries(n) \in Seq(Nodes) /\ IsInjective(Entries(n))
           /\ ToSet(Entries(n)) = {k \in there \ {Root} : parent[k] = n}
<1> DEFINE kids == {k \in there \ {Root} : parent[k] = n}
           c == Cardinality(kids)
           e == SetToSeq(kids)
<1>1. kids \subseteq Nodes /\ Entries(n) = e
    BY DEF Entries
<1> HIDE DEF kids
<1>2. IsFiniteSet(kids)
    <2>1. IsFiniteSet(Nodes)
        BY FS_Interval, WalkAssumption DEF Nodes
    <2> QED BY <1>1, <2>1, FS_Subset
<1>3. c \in Nat /\ ExistsBijection(1..c, kids)
    BY <1>2, FS_CardinalityType
<1>4. \E f \in [1..c -> kids] : IsInjective(f)
    BY <1>3 DEF ExistsBijection, Bijection, Injection
<1>5. e \in [1..c -> kids] /\ IsInjective(e)
    BY <1>4 DEF SetToSeq
<1>6. e \in Injection(1..c, kids)
    BY <1>5 DEF Injection
<1>7. e \in Surjection(1..c, kids)
    <2>1. IsFiniteSet(1..c) /\ Cardinality(1..c) = c
        BY <1>3, FS_Interval
    <2> QED BY <1>2, <1>6, <2>1, FS_Injection
<1> HIDE DEF e
<1>8. ToSet(e) = kids
    BY <1>5, <1>7 DEF Surjection, ToSet
<1>9. e \in Seq(Nodes)
    <2>1. e \in [1..c -> Nodes]
        BY <1>1, <1>5
    <2> HIDE DEF c
    <2> QED BY <1>3, <2>1
<1> QED BY <1>1, <1>5, <1>8, <1>9 DEF kids
-------------------------------------------------------------------------------
(* Walk: the invariant.                                                            *)

\* Nothing of the tree changes during the walk.
LEMMA TreeKept ==
    ASSUME UNCHANGED tree
    PROVE  /\ \A n : Above(n)' = Above(n)
           /\ \A d : Entered(d)' <=> Entered(d)
           /\ \A g : Marks(g)' <=> Marks(g)
           /\ \A g : MayReport(g)' <=> MayReport(g)
           /\ IsTree' <=> IsTree
<1> USE DEF tree
<1>1. \A n : Above(n)' = Above(n)
    BY DEF Above
<1>2. \A d : Entered(d)' <=> Entered(d)
    BY <1>1 DEF Entered
<1>3. \A g : Marks(g)' <=> Marks(g)
    BY <1>2 DEF Marks, InReach, StateRepo
<1>4. IsTree' <=> IsTree
    BY DEF IsTree
<1>5. \A g : MayReport(g)' <=> MayReport(g)
    BY <1>2 DEF MayReport, InReach, StateRepo, OtherSpelling
<1> QED BY <1>1, <1>2, <1>3, <1>4, <1>5

\* Nor do the steps of the walk itself change what can be read.
LEMMA FilesKept ==
    ASSUME UNCHANGED <<tree, files>>
    PROVE  /\ \A g : Lasting(g)' <=> Lasting(g)
           /\ \A n : Listable(n)' <=> Listable(n)
<1>1. \A n : Above(n)' = Above(n)
    BY TreeKept
<1>2. \A g : Lasting(g)' <=> Lasting(g)
    BY <1>1 DEF Lasting, files
<1>3. \A n : Listable(n)' <=> Listable(n)
    BY <1>1 DEF Listable, Accessible, files
<1> QED BY <1>2, <1>3

\* The way to an entry worth reporting is of directories the walk enters.
LEMMA WayIsEntered ==
    ASSUME IsTree, NEW g \in Nodes, Marks(g), NEW a \in Above(g)
    PROVE  sort[a] = "dir" \/ (a = Root /\ sort[a] = "hidden")
<1>1. Above(g) = {parent[g]} \cup Above(parent[g])
    BY AboveStep DEF Marks, InReach
<1> QED BY <1>1 DEF Marks, InReach, Entered

\* The walk ends: with an error, cut short, or with nothing left to visit.
LEMMA Returned ==
    ASSUME WalkInv, NEW e \in BOOLEAN, Return(e), UNCHANGED <<tree, files, ctxDone>>,
           e \/ ctxDone \/ (pc = "walk" /\ todo = <<>>)
    PROVE  WalkInv'
<1>1. /\ \A g : Marks(g)' <=> Marks(g)
      /\ \A g : MayReport(g)' <=> MayReport(g)
      /\ \A g : Lasting(g)' <=> Lasting(g)
      /\ \A n : Listable(n)' <=> Listable(n)
      /\ IsTree'
    BY TreeKept, FilesKept DEF WalkInv
<1>2. /\ <<>> \in Seq(Nodes) /\ ToSet(<<>>) = {} /\ IsInjective(<<>>)
      /\ <<>> \in Seq(RepoPaths)
    BY Nothing
<1>3. todo' = <<>> /\ found' \in {found, <<>>} /\ pc' = "done" /\ err' = e
    BY DEF Return
<1>4. WalkTypeOK'
    BY <1>2, <1>3 DEF WalkInv, WalkTypeOK, tree, files
<1>5. Frontier' /\ Visited'
    <2>1. ToSet(todo') = {}
        BY <1>2, <1>3
    <2>2. \A p \in ToSet(found') : \E g \in Nodes :
             sort[g] \in {"gitDir", "gitFile"} /\ p = <<"spelled", parent[g]>>
        BY <1>2, <1>3 DEF WalkInv, Visited
    <2> QED BY <2>1, <2>2 DEF Frontier, Visited, tree
<1>6. NothingInvented'
    <2>1. IsInjective(found') /\ ToSet(found') \subseteq ToSet(found)
        BY <1>2, <1>3 DEF WalkInv, NothingInvented
    <2> QED BY <1>1, <2>1 DEF WalkInv, NothingInvented, tree, files
<1>7. NothingHidden'
    <2>1. SUFFICES ASSUME Completed' PROVE NothingHidden'
        BY DEF NothingHidden
    <2>2. pc = "walk" /\ todo = <<>> /\ found' = found
        BY <1>3, <2>1 DEF Completed, Return
    <2>3. Awaited /\ RootListed /\ ToSet(todo) = {}
        BY <2>2, <1>2 DEF WalkInv
    <2>4. \A g \in Nodes : Marks(g) /\ Lasting(g) /\ g \notin denied => Reported(g)
        BY <2>3 DEF Awaited
    <2>5. \A g \in Nodes : Reported(g)' <=> Reported(g)
        BY <2>2 DEF Reported, tree
    <2>6. Root \notin touched => Listable(Root) /\ sort[Root] \in Directories
        BY <2>3 DEF RootListed
    <2> QED BY <1>1, <2>4, <2>5, <2>6 DEF NothingHidden, tree, files
<1> QED BY <1>1, <1>3, <1>4, <1>5, <1>6, <1>7 DEF WalkInv

\* What comes next, and what is left then.
LEMMA Rest ==
    ASSUME WalkInv, todo # <<>>
    PROVE  /\ Head(todo) \in Nodes /\ Tail(todo) \in Seq(Nodes) /\ IsInjective(Tail(todo))
           /\ ToSet(todo) = {Head(todo)} \cup ToSet(Tail(todo))
           /\ Head(todo) \notin ToSet(Tail(todo))
           /\ ToSet(todo) \subseteq Nodes
<1>1. todo \in Seq(Nodes) /\ IsInjective(todo)
    BY DEF WalkInv, WalkTypeOK
<1> QED BY <1>1, HeadAndTail, Elements

\* Nothing worth reporting is lost with the entry passed over.
PassedOver ==
    /\ Head(todo) # Root \/ Listable(Root)
    /\ \A g \in Nodes :
         Marks(g) /\ Lasting(g) /\ g \notin denied /\ ~Reported(g)
             => Head(todo) \notin {g} \cup Above(g)

LEMMA Passing ==
    ASSUME WalkInv, pc = "walk", todo # <<>>, PassedOver,
           todo' = Tail(todo), UNCHANGED <<tree, files, ctxDone, pc, found, err>>
    PROVE  WalkInv'
<1>1. /\ \A n : Above(n)' = Above(n)
      /\ \A d : Entered(d)' <=> Entered(d)
      /\ \A g : Marks(g)' <=> Marks(g)
      /\ \A g : MayReport(g)' <=> MayReport(g)
      /\ \A g : Lasting(g)' <=> Lasting(g)
      /\ \A n : Listable(n)' <=> Listable(n)
      /\ IsTree'
    BY TreeKept, FilesKept DEF WalkInv
<1>2. /\ todo' \in Seq(Nodes) /\ IsInjective(todo')
      /\ ToSet(todo) = {Head(todo)} \cup ToSet(todo') /\ Head(todo) \in Nodes
    BY Rest
<1>3. WalkTypeOK'
    BY <1>2 DEF WalkInv, WalkTypeOK, tree, files
<1>4. Frontier'
    BY <1>1, <1>2 DEF WalkInv, Frontier, tree
<1>5. Visited'
    BY <1>1, <1>2 DEF WalkInv, Visited, tree
<1>6. Awaited'
    <2>1. SUFFICES ASSUME NEW g \in Nodes,
                          Marks(g) /\ Lasting(g) /\ g \notin denied /\ ~Reported(g)
                   PROVE  \E n \in ToSet(todo') : n \in {g} \cup Above(g)
        BY <1>1 DEF Awaited, Reported, tree, files
    <2> QED BY <1>2, <2>1 DEF PassedOver, WalkInv, Awaited
<1>7. RootListed'
    BY <1>1, <1>2 DEF WalkInv, RootListed, PassedOver, tree, files
<1>8. NothingHidden'
    BY DEF NothingHidden, Completed
<1>9. NothingInvented'
    BY <1>1 DEF WalkInv, NothingInvented, tree, files
<1> QED BY <1>1, <1>3, <1>4, <1>5, <1>6, <1>7, <1>8, <1>9 DEF WalkInv

\* What cannot be read is on the way to nothing that could be read all the while.
LEMMA DeniedStep ==
    ASSUME WalkInv, pc = "walk", todo # <<>>, NEW n, n = Head(todo), Denied(n),
           ~Accessible(n) \/ (sort[n] \in Directories /\ n \in denied),
           UNCHANGED <<tree, files, ctxDone>>
    PROVE  WalkInv'
<1>1. CASE n = Root
    <2>1. Return(TRUE)
        BY <1>1 DEF Denied
    <2> QED BY <2>1, Returned
<1>2. CASE n # Root
    <2>1. todo' = Tail(todo) /\ UNCHANGED <<pc, found, err>>
        BY <1>2 DEF Denied, Ongoing
    <2>2. ASSUME NEW g \in Nodes, Marks(g), Lasting(g), g \notin denied,
                 n \in {g} \cup Above(g)
          PROVE  FALSE
        <3>1. IsTree
            BY DEF WalkInv
        <3>2. Above(n) \subseteq Above(g)
            BY <2>2, <3>1, AboveAbove
        <3>3. Accessible(n) /\ n \notin denied
            BY <2>2, <3>2 DEF Lasting, Accessible
        <3> QED BY <3>3
    <2>3. PassedOver
        BY <1>2, <2>2 DEF PassedOver
    <2> QED BY <2>1, <2>3, Passing
<1> QED BY <1>1, <1>2

\* A .git is on the way to nothing else that is to be reported.
LEMMA GitIsLast ==
    ASSUME WalkInv, NEW g \in Nodes, Marks(g), NEW n \in {g} \cup Above(g),
           sort[n] \in {"gitDir", "gitFile"}
    PROVE  n = g
<1>1. IsTree
    BY DEF WalkInv
<1> QED BY <1>1, WayIsEntered

\* The directory of a .git is reported, once, if it is not the state repository.
LEMMA FoundGitStep ==
    ASSUME WalkInv, pc = "walk", todo # <<>>, NEW n, n = Head(todo), FoundGit(n),
           Accessible(n), sort[n] \in Directories => n \notin denied,
           sort[n] \in {"gitDir", "gitFile"}, UNCHANGED <<tree, files, ctxDone>>
    PROVE  WalkInv'
<1> DEFINE p == <<"spelled", parent[n]>>
<1>1. todo' = Tail(todo) /\ UNCHANGED <<pc, err>>
    BY DEF FoundGit, AfterGit, Ongoing
<1>2. /\ n \in Nodes /\ todo' \in Seq(Nodes) /\ IsInjective(todo')
      /\ ToSet(todo) = {n} \cup ToSet(todo') /\ n \notin ToSet(todo')
    BY <1>1, Rest
<1>3. n # Root \/ Listable(Root)
    BY DEF WalkInv, RootListed, Listable
<1>4. CASE Excluded(parent[n])
    <2>1. found' = found
        BY <1>4 DEF FoundGit
    <2>2. PassedOver
        BY <1>3, <1>4, GitIsLast DEF PassedOver, Excluded, Marks, StateRepo
    <2> QED BY <1>1, <2>1, <2>2, Passing
<1>5. CASE ~Excluded(parent[n])
    <2>1. found' = Append(found, p)
        BY <1>5 DEF FoundGit
    <2>2. found \in Seq(RepoPaths) /\ IsInjective(found) /\ p \in RepoPaths /\ IsTree
        <3>1. parent[n] \in 0..N
            BY <1>2, WalkAssumption DEF WalkInv, IsTree, Nodes
        <3> QED BY <3>1 DEF WalkInv, WalkTypeOK, NothingInvented, RepoPaths
    <2>3. p \notin ToSet(found)
        <3>1. SUFFICES ASSUME p \in ToSet(found) PROVE FALSE
            OBVIOUS
        <3>2. PICK g \in Nodes : /\ sort[g] \in {"gitDir", "gitFile"}
                                 /\ p = <<"spelled", parent[g]>>
                                 /\ ToSet(todo) \cap ({g} \cup Above(g)) = {}
            BY <3>1 DEF WalkInv, Visited
        <3>3. g # n /\ parent[g] = parent[n]
            BY <1>2, <3>2
        <3>4. \A k \in Nodes : k = Root <=> parent[k] = 0
            BY <2>2, WalkAssumption DEF IsTree, Nodes, Root
        <3>5. g # Root /\ n # Root
            BY <1>2, <3>3, <3>4
        <3> QED BY <1>2, <2>2, <3>2, <3>3, <3>5 DEF IsTree
    <2>4. /\ found' \in Seq(RepoPaths) /\ ToSet(found') = ToSet(found) \cup {p}
          /\ IsInjective(found')
        BY <2>1, <2>2, <2>3, Appended
    <2>5. /\ \A k : Above(k)' = Above(k)
          /\ \A d : Entered(d)' <=> Entered(d)
          /\ \A g : Marks(g)' <=> Marks(g)
          /\ \A g : MayReport(g)' <=> MayReport(g)
          /\ \A g : Lasting(g)' <=> Lasting(g)
          /\ \A k : Listable(k)' <=> Listable(k)
          /\ IsTree'
        BY <2>2, TreeKept, FilesKept
    <2>6. WalkTypeOK'
        BY <1>1, <1>2, <2>4 DEF WalkInv, WalkTypeOK, tree, files
    <2>7. Frontier'
        BY <1>2, <2>5 DEF WalkInv, Frontier, tree
    <2>8. Visited'
        <3>1. ToSet(todo') \cap ({n} \cup Above(n)) = {}
            BY <1>2 DEF WalkInv, Frontier
        <3>2. ASSUME NEW q \in ToSet(found')
              PROVE  \E g \in Nodes : /\ sort[g] \in {"gitDir", "gitFile"}
                                      /\ q = <<"spelled", parent[g]>>
                                      /\ ToSet(todo') \cap ({g} \cup Above(g)) = {}
            <4>1. CASE q = p
                BY <1>2, <3>1, <4>1
            <4>2. CASE q \in ToSet(found)
                BY <1>2, <4>2 DEF WalkInv, Visited
            <4> QED BY <2>4, <4>1, <4>2
        <3> QED BY <2>5, <3>2 DEF Visited, tree
    <2>9. Awaited'
        <3>1. SUFFICES ASSUME NEW g \in Nodes, Marks(g), Lasting(g), g \notin denied,
                              <<"spelled", parent[g]>> \notin ToSet(found')
                       PROVE  \E k \in ToSet(todo') : k \in {g} \cup Above(g)
            BY <2>5 DEF Awaited, Reported, tree, files
        <3>2. ~Reported(g) /\ g # n
            BY <2>4, <3>1 DEF Reported
        <3>3. PICK k \in ToSet(todo) : k \in {g} \cup Above(g)
            BY <3>1, <3>2 DEF WalkInv, Awaited
        <3>4. k # n
            BY <3>1, <3>2, <3>3, GitIsLast
        <3> QED BY <1>2, <3>3, <3>4
    <2>10. RootListed'
        BY <1>2, <1>3, <2>5 DEF WalkInv, RootListed, tree, files
    <2>11. NothingHidden'
        BY <1>1 DEF NothingHidden, Completed
    <2>12. NothingInvented'
        <3>1. \/ p = <<"spelled", 0>> /\ sort[Root] = "gitDir"
              \/ n \in there /\ MayReport(n)
            <4>1. CASE n = Root
                BY <4>1 DEF WalkInv, RootListed, Directories, IsTree
            <4>2. CASE n # Root
                <5>1. Entered(parent[n])
                    BY <1>2, <4>2 DEF WalkInv, Frontier
                <5> QED BY <1>5, <4>2, <5>1
                        DEF MayReport, InReach, StateRepo, OtherSpelling, Excluded, Accessible
            <4> QED BY <4>1, <4>2
        <3>2. \A q \in ToSet(found') :
                \/ q = <<"spelled", 0>> /\ sort[Root] = "gitDir"
                \/ \E g \in there \cup touched : MayReport(g) /\ q = <<"spelled", parent[g]>>
            BY <2>4, <3>1 DEF WalkInv, NothingInvented
        <3> QED BY <2>4, <2>5, <3>2 DEF NothingInvented, tree, files
    <2> QED BY <1>1, <2>5, <2>6, <2>7, <2>8, <2>9, <2>10, <2>11, <2>12 DEF WalkInv
<1> QED BY <1>4, <1>5

\* The entries of a directory come before what else is left, and each way goes on.
LEMMA DescendStep ==
    ASSUME WalkInv, pc = "walk", todo # <<>>, NEW n, n = Head(todo), Descend(n),
           Accessible(n), sort[n] \in Directories => n \notin denied,
           sort[n] \notin {"gitDir", "gitFile"}, UNCHANGED <<tree, files, ctxDone>>
    PROVE  WalkInv'
<1> DEFINE rest == Tail(todo)
           kids == {k \in there \ {Root} : parent[k] = n}
<1>1. UNCHANGED <<pc, err, found>>
    BY DEF Descend, Ongoing
<1>2. /\ n \in Nodes /\ rest \in Seq(Nodes) /\ IsInjective(rest)
      /\ ToSet(todo) = {n} \cup ToSet(rest) /\ n \notin ToSet(rest)
      /\ ToSet(todo) \subseteq Nodes
    BY Rest
<1>3. IsTree /\ there \subseteq Nodes /\ found \in Seq(RepoPaths)
    BY DEF WalkInv, WalkTypeOK
<1>4. n # Root \/ Listable(Root)
    BY DEF WalkInv, RootListed, Listable
<1>5. CASE sort[n] = "file" \/ Skipped(n)
    <2>1. \A g \in Nodes : Marks(g) => n \notin {g} \cup Above(g)
        BY <1>3, <1>5, WayIsEntered DEF Marks, InReach, Skipped
    <2>2. PassedOver
        BY <1>4, <2>1 DEF PassedOver
    <2>3. todo' = Tail(todo)
        BY <1>5 DEF Descend
    <2> QED BY <1>1, <2>2, <2>3, Passing
<1>6. CASE ~(sort[n] = "file" \/ Skipped(n))
    <2>1. todo' = Entries(n) \o rest
        BY <1>6 DEF Descend
    <2>2. /\ Entries(n) \in Seq(Nodes) /\ IsInjective(Entries(n))
          /\ ToSet(Entries(n)) = kids
        BY <1>3, EntriesMeans
    <2>3. /\ todo' \in Seq(Nodes) /\ ToSet(todo') = kids \cup ToSet(rest)
          /\ kids \cap ToSet(rest) = {} => IsInjective(todo')
        <3> HIDE DEF kids, rest
        <3> DEFINE es == Entries(n)
        <3>1. es \in Seq(Nodes) /\ IsInjective(es) /\ ToSet(es) = kids
            BY <2>2
        <3> HIDE DEF es
        <3>2. /\ es \o rest \in Seq(Nodes) /\ ToSet(es \o rest) = kids \cup ToSet(rest)
              /\ kids \cap ToSet(rest) = {} => IsInjective(es \o rest)
            BY <1>2, <3>1, Concatenation
        <3> QED BY <2>1, <3>2 DEF es
    <2>4. /\ \A k : Above(k)' = Above(k)
          /\ \A d : Entered(d)' <=> Entered(d)
          /\ \A g : Marks(g)' <=> Marks(g)
          /\ \A g : MayReport(g)' <=> MayReport(g)
          /\ \A g : Lasting(g)' <=> Lasting(g)
          /\ \A k : Listable(k)' <=> Listable(k)
          /\ IsTree'
        BY <1>3, TreeKept, FilesKept
    <2>5. \A k \in kids : /\ k \in Nodes /\ k # Root /\ parent[k] = n
                          /\ Above(k) = {n} \cup Above(n)
        BY <1>3, AboveStep
    <2>6. \A k \in kids : k \notin {n} \cup Above(n)
        <3>1. \A k \in kids : n < k
            BY <1>3, <2>5, WalkAssumption DEF IsTree, Nodes
        <3>2. \A a \in Above(n) : a < n
            BY <1>2, <1>3, AboveBefore, WalkAssumption DEF Nodes
        <3>3. \A k \in kids : k \in Nat
            BY <2>5, WalkAssumption DEF Nodes
        <3>4. n \in Nat
            BY <1>2, WalkAssumption DEF Nodes
        <3> QED BY <3>1, <3>2, <3>3, <3>4
    <2>7. \A a, b \in ToSet(todo) : a \notin Above(b)
        BY DEF WalkInv, Frontier
    <2>8. kids \cap ToSet(rest) = {}
        BY <1>2, <2>5, <2>7
    <2>9. WalkTypeOK'
        BY <1>1, <2>3, <2>8 DEF WalkInv, WalkTypeOK, tree, files
    <2>10. Entered(n)
        <3>1. sort[n] = "dir" \/ (n = Root /\ sort[n] = "hidden")
            <4>1. sort[n] \in Sorts
                BY <1>2, <1>3 DEF IsTree
            <4> QED BY <4>1, <1>6 DEF Sorts, Skipped
        <3>2. CASE n = Root
            BY <1>3, <3>1, <3>2, AboveStep, <1>2 DEF Entered
        <3>3. CASE n # Root
            <4>1. Entered(parent[n]) /\ Above(n) = {parent[n]} \cup Above(parent[n])
                BY <1>2, <1>3, <3>3, AboveStep DEF WalkInv, Frontier
            <4> QED BY <3>1, <4>1 DEF Entered
        <3> QED BY <3>2, <3>3
    <2>11. Frontier'
        <3>1. \A b \in ToSet(todo), a \in kids : a \notin Above(b)
            <4>1. SUFFICES ASSUME NEW b \in ToSet(todo), NEW a \in kids, a \in Above(b)
                           PROVE  FALSE
                OBVIOUS
            <4>2. n \in Above(b)
                BY <1>2, <1>3, <2>5, <4>1, AboveAbove
            <4> QED BY <1>2, <2>7, <4>2
        <3>2. ASSUME NEW b \in ToSet(todo'), NEW a \in ToSet(todo')
              PROVE  a \notin Above(b)
            <4>1. CASE b \in ToSet(rest)
                BY <1>2, <2>3, <2>7, <3>1, <4>1
            <4>2. CASE b \in kids /\ a \in kids
                BY <2>5, <2>6, <4>2
            <4>3. CASE b \in kids /\ a \in ToSet(rest)
                BY <1>2, <2>5, <2>7, <4>3
            <4> QED BY <2>3, <3>2, <4>1, <4>2, <4>3
        <3>3. \A b \in ToSet(todo') : b # Root => Entered(parent[b])
            BY <1>2, <2>3, <2>5, <2>10 DEF WalkInv, Frontier
        <3> HIDE DEF kids, rest
        <3> QED BY <2>4, <3>2, <3>3 DEF Frontier, tree
    <2>12. Visited'
        <3>1. ASSUME NEW q \in ToSet(found)
              PROVE  \E g \in Nodes : /\ sort[g] \in {"gitDir", "gitFile"}
                                      /\ q = <<"spelled", parent[g]>>
                                      /\ ToSet(todo') \cap ({g} \cup Above(g)) = {}
            <4>1. PICK g \in Nodes : /\ sort[g] \in {"gitDir", "gitFile"}
                                     /\ q = <<"spelled", parent[g]>>
                                     /\ ToSet(todo) \cap ({g} \cup Above(g)) = {}
                BY <3>1 DEF WalkInv, Visited
            <4>2. ASSUME NEW k \in kids, k \in {g} \cup Above(g)
                  PROVE  FALSE
                <5>1. n \in Above(g)
                    BY <1>3, <2>5, <4>2, AboveAbove
                <5> QED BY <1>2, <4>1, <5>1
            <4> QED BY <1>2, <2>3, <4>1, <4>2
        <3> QED BY <1>1, <2>4, <3>1 DEF Visited, tree
    <2>13. Awaited'
        <3>1. SUFFICES ASSUME NEW g \in Nodes, Marks(g), Lasting(g), g \notin denied,
                              ~Reported(g)
                       PROVE  \E k \in ToSet(todo') : k \in {g} \cup Above(g)
            BY <1>1, <2>4 DEF Awaited, Reported, tree, files
        <3>2. PICK k \in ToSet(todo) : k \in {g} \cup Above(g)
            BY <3>1 DEF WalkInv, Awaited
        <3>3. CASE k # n
            BY <1>2, <2>3, <3>2, <3>3
        <3>4. CASE k = n
            <4>1. n \in Above(g)
                BY <3>1, <3>2, <3>4 DEF Marks, InReach
            <4>2. PICK c \in {g} \cup Above(g) : c # Root /\ parent[c] = n
                BY <1>3, <4>1, WayDown
            <4>3. c \in kids
                BY <3>1, <4>2 DEF Lasting
            <4> QED BY <2>3, <4>2, <4>3
        <3> QED BY <3>3, <3>4
    <2>14. RootListed'
        BY <1>2, <1>4, <2>3, <2>4 DEF WalkInv, RootListed, tree, files
    <2>15. NothingHidden'
        BY <1>1 DEF NothingHidden, Completed
    <2>16. NothingInvented'
        BY <1>1, <2>4 DEF WalkInv, NothingInvented, tree, files
    <2> QED BY <1>1, <2>4, <2>9, <2>11, <2>12, <2>13, <2>14, <2>15, <2>16 DEF WalkInv
<1> QED BY <1>5, <1>6

LEMMA VisitStep == ASSUME WalkInv, Visit PROVE WalkInv'
<1> DEFINE n == Head(todo)
           fails == ~Accessible(n) \/ (sort[n] \in Directories /\ n \in denied)
<1>1. pc = "walk" /\ todo # <<>> /\ UNCHANGED <<tree, files, ctxDone>>
    BY DEF Visit
<1>2. CASE ctxDone /\ Return(FALSE)
    BY <1>1, <1>2, Returned
<1>3. CASE fails /\ Denied(n)
    BY <1>1, <1>3, DeniedStep
<1>4. CASE ~fails /\ sort[n] \in {"gitDir", "gitFile"} /\ FoundGit(n)
    BY <1>1, <1>4, FoundGitStep
<1>5. CASE ~fails /\ sort[n] \notin {"gitDir", "gitFile"} /\ Descend(n)
    BY <1>1, <1>5, DescendStep
<1> QED BY <1>2, <1>3, <1>4, <1>5 DEF Visit

\* The walk begins with the root, on the way to everything else.
LEMMA OpenStep == ASSUME WalkInv, Open PROVE WalkInv'
<1>1. pc = "start" /\ UNCHANGED <<tree, files, ctxDone>>
    BY DEF Open
<1>2. CASE Return(TRUE)
    BY <1>1, <1>2, Returned
<1>3. CASE /\ Accessible(Root) /\ sort[Root] \in Directories
           /\ pc' = "walk" /\ todo' = <<Root>> /\ UNCHANGED <<found, err>>
    <2>1. todo' \in Seq(Nodes) /\ ToSet(todo') = {Root} /\ IsInjective(todo') /\ Root \in Nodes
        <3>1. Root \in Nodes
            BY WalkAssumption DEF Root, Nodes
        <3> QED BY <1>3, <3>1, OneElement
    <2>2. /\ \A k : Above(k)' = Above(k)
          /\ \A g : Marks(g)' <=> Marks(g)
          /\ \A g : MayReport(g)' <=> MayReport(g)
          /\ IsTree /\ IsTree'
        BY <1>1, TreeKept DEF WalkInv
    <2>3. WalkTypeOK'
        BY <1>1, <1>3, <2>1 DEF WalkInv, WalkTypeOK, tree, files
    <2>4. Frontier'
        BY <2>1, <2>2, AboveStep DEF Frontier
    <2>5. Visited'
        <3>1. ToSet(found') = {}
            BY <1>1, <1>3, Nothing DEF WalkInv
        <3> QED BY <3>1 DEF Visited
    <2>6. Awaited'
        BY <2>1, <2>2, RootAbove DEF Awaited
    <2>7. RootListed'
        BY <1>1, <1>3, <2>1 DEF RootListed, tree
    <2>8. NothingHidden'
        BY <1>3 DEF NothingHidden, Completed
    <2>9. NothingInvented'
        BY <1>1, <1>3, <2>2 DEF WalkInv, NothingInvented, tree, files
    <2> QED BY <1>3, <2>2, <2>3, <2>4, <2>5, <2>6, <2>7, <2>8, <2>9 DEF WalkInv
<1> QED BY <1>2, <1>3 DEF Open

\* What changed is not there all the while, and is on the way to nothing that is.
LEMMA ChangeStep == ASSUME WalkInv, NEW n \in Nodes, Change(n) PROVE WalkInv'
<1>1. /\ pc = "walk" /\ touched' = touched \cup {n} /\ changes' \in 0..MaxChanges
      /\ UNCHANGED <<tree, ctxDone, pc, todo, found, err>>
    BY WalkAssumption DEF Change, WalkInv, WalkTypeOK
<1>2. /\ there' \subseteq Nodes /\ there' \ {n} = there \ {n}
      /\ denied' \ {n} = denied \ {n}
      /\ denied' \subseteq {k \in Nodes : sort[k] \in Directories}
    BY DEF Change, SymDiff, WalkInv, WalkTypeOK
<1>3. /\ \A k : Above(k)' = Above(k)
      /\ \A d : Entered(d)' <=> Entered(d)
      /\ \A g : Marks(g)' <=> Marks(g)
      /\ \A g : MayReport(g)' <=> MayReport(g)
      /\ IsTree'
    BY <1>1, TreeKept DEF WalkInv
<1>4. ASSUME NEW g, Lasting(g)'
      PROVE  Lasting(g) /\ (g \notin denied' => g \notin denied)
    <2>1. {g} \cup Above(g) \subseteq there' \ touched' /\ Above(g) \cap denied' = {}
        BY <1>3, <1>4 DEF Lasting
    <2> QED BY <1>1, <1>2, <2>1 DEF Lasting
<1>5. WalkTypeOK'
    BY <1>1, <1>2 DEF WalkInv, WalkTypeOK, tree
<1>6. Frontier' /\ Visited'
    BY <1>1, <1>3 DEF WalkInv, Frontier, Visited, tree
<1>7. Awaited'
    BY <1>1, <1>3, <1>4 DEF WalkInv, Awaited, Reported, tree
<1>8. RootListed'
    <2>1. Above(Root) = {}
        BY <1>3, AboveStep, WalkAssumption DEF WalkInv, Root, Nodes
    <2>2. n # Root /\ Listable(Root) => Listable(Root)'
        BY <1>2, <1>3, <2>1 DEF Listable, Accessible
    <2> QED BY <1>1, <2>2 DEF WalkInv, RootListed, tree
<1>9. NothingHidden'
    BY <1>1 DEF NothingHidden, Completed
<1>10. NothingInvented'
    <2>1. there \cup touched \subseteq there' \cup touched'
        BY <1>1, <1>2
    <2> QED BY <1>1, <1>3, <2>1 DEF WalkInv, NothingInvented, tree
<1> QED BY <1>1, <1>3, <1>5, <1>6, <1>7, <1>8, <1>9, <1>10 DEF WalkInv

LEMMA CancelStep == ASSUME WalkInv, Cancel PROVE WalkInv'
<1>1. pc # "done" /\ ctxDone' \in BOOLEAN /\ UNCHANGED <<tree, files, pc, todo, found, err>>
    BY DEF Cancel
<1>2. /\ \A k : Above(k)' = Above(k)
      /\ \A d : Entered(d)' <=> Entered(d)
      /\ \A g : Marks(g)' <=> Marks(g)
      /\ \A g : MayReport(g)' <=> MayReport(g)
      /\ \A g : Lasting(g)' <=> Lasting(g)
      /\ \A k : Listable(k)' <=> Listable(k)
      /\ IsTree'
    BY <1>1, TreeKept, FilesKept DEF WalkInv
<1>3. WalkTypeOK'
    BY <1>1 DEF WalkInv, WalkTypeOK, tree, files
<1>4. Frontier' /\ Visited'
    BY <1>1, <1>2 DEF WalkInv, Frontier, Visited, tree
<1>5. pc' = "walk" => Awaited' /\ RootListed'
    BY <1>1, <1>2 DEF WalkInv, Awaited, Reported, RootListed, tree, files
<1>6. NothingHidden'
    BY <1>1 DEF NothingHidden, Completed
<1>7. NothingInvented'
    BY <1>1, <1>2 DEF WalkInv, NothingInvented, tree, files
<1> QED BY <1>1, <1>2, <1>3, <1>4, <1>5, <1>6, <1>7 DEF WalkInv

LEMMA StutterStep == ASSUME WalkInv, UNCHANGED walkVars PROVE WalkInv'
<1>1. UNCHANGED <<tree, files, ctxDone, pc, todo, found, err>>
    BY DEF walkVars
<1>2. /\ \A k : Above(k)' = Above(k)
      /\ \A d : Entered(d)' <=> Entered(d)
      /\ \A g : Marks(g)' <=> Marks(g)
      /\ \A g : MayReport(g)' <=> MayReport(g)
      /\ \A g : Lasting(g)' <=> Lasting(g)
      /\ \A k : Listable(k)' <=> Listable(k)
      /\ IsTree'
    BY <1>1, TreeKept, FilesKept DEF WalkInv
<1>3. WalkTypeOK'
    BY <1>1 DEF WalkInv, WalkTypeOK, tree, files
<1>4. Frontier' /\ Visited'
    BY <1>1, <1>2 DEF WalkInv, Frontier, Visited, tree
<1>5. pc' = "walk" => Awaited' /\ RootListed'
    BY <1>1, <1>2 DEF WalkInv, Awaited, Reported, RootListed, tree, files
<1>6. NothingHidden'
    BY <1>1, <1>2 DEF WalkInv, NothingHidden, Completed, Reported, tree, files
<1>7. NothingInvented'
    BY <1>1, <1>2 DEF WalkInv, NothingInvented, tree, files
<1> QED BY <1>1, <1>2, <1>3, <1>4, <1>5, <1>6, <1>7 DEF WalkInv

LEMMA WalkStarts == ASSUME WalkInit PROVE WalkInv
<1>1. /\ IsTree /\ there \subseteq Nodes /\ touched = {} /\ changes = 0 /\ ctxDone = FALSE
      /\ denied \subseteq {n \in Nodes : sort[n] \in Directories}
      /\ pc = "start" /\ todo = <<>> /\ found = <<>> /\ err = FALSE
    BY DEF WalkInit
<1>2. /\ <<>> \in Seq(Nodes) /\ <<>> \in Seq(RepoPaths) /\ IsInjective(<<>>)
      /\ ToSet(<<>>) = {}
    BY Nothing
<1>3. WalkTypeOK
    <2>1. todo \in Seq(Nodes) /\ found \in Seq(RepoPaths) /\ IsInjective(todo)
        BY <1>1, <1>2
    <2>2. changes \in 0..MaxChanges
        BY <1>1, WalkAssumption
    <2> QED BY <1>1, <2>1, <2>2 DEF WalkTypeOK
<1>4. ToSet(todo) = {} /\ ToSet(found) = {} /\ IsInjective(found)
    BY <1>1, <1>2
<1>5. Frontier /\ Visited /\ NothingInvented
    BY <1>4 DEF Frontier, Visited, NothingInvented
<1>6. NothingHidden
    BY <1>1 DEF NothingHidden, Completed
<1> QED BY <1>1, <1>3, <1>5, <1>6 DEF WalkInv

LEMMA WalkKept == ASSUME WalkInv, [WalkNext]_walkVars PROVE WalkInv'
<1>1. CASE Open
    BY <1>1, OpenStep
<1>2. CASE Visit
    BY <1>2, VisitStep
<1>3. CASE Finish
    <2>1. /\ pc = "walk" /\ todo = <<>> /\ Return(FALSE)
          /\ UNCHANGED <<tree, files, ctxDone>>
        BY <1>3 DEF Finish
    <2> QED BY <2>1, Returned
<1>4. CASE Done \/ UNCHANGED walkVars
    BY <1>4, StutterStep DEF Done
<1>5. CASE Cancel
    BY <1>5, CancelStep
<1>6. CASE \E n \in Nodes : Change(n)
    BY <1>6, ChangeStep
<1> QED BY <1>1, <1>2, <1>3, <1>4, <1>5, <1>6 DEF WalkNext

\* What is to be reported has something on its way still to visit until it is
\* reported, whatever the files and however they change (repos.go:57-130).
THEOREM WalkCorrect == WalkSpec => []WalkInv
BY WalkStarts, WalkKept, PTL DEF WalkSpec

\* A walk that ends without an error and was not cut short has every repository
\* that was there all the while and could be read, in a tree of any size
\* (repos.go:25-28,57-130).
THEOREM NothingHiddenCorrect == WalkSpec => []NothingHidden
<1>1. WalkInv => NothingHidden
    BY DEF WalkInv
<1> QED BY <1>1, WalkCorrect, PTL

\* Every directory reported had a .git, is not the state repository and is not
\* below one to skip; none is reported twice (repos.go:57-130).
THEOREM NothingInventedCorrect == WalkSpec => []NothingInvented
<1>1. WalkInv => NothingInvented
    BY DEF WalkInv
<1> QED BY <1>1, WalkCorrect, PTL

-------------------------------------------------------------------------------
(* Situations: types.                                                        *)

\* What is published of a repository is one.
LEMMA RedactedIsRepo ==
    ASSUME NEW r \in Repos
    PROVE  Redacted(r) \in Repos
<1> DEFINE p == [r.path EXCEPT !.parent = None]
           o == IF r.origin = None THEN None ELSE [r.origin EXCEPT !.redacted = TRUE]
<1>1. /\ r.path \in Paths /\ r.origin \in [url : Origins, redacted : BOOLEAN] \cup {None}
      /\ r.branch \in Branches \cup {Detached, None} /\ r.tip \in Tips \cup {None}
      /\ r.marks \in SUBSET Aspects
    BY DEF Repos
<1>2. p \in Paths
    BY <1>1 DEF Paths
<1>3. o \in [url : Origins, redacted : BOOLEAN] \cup {None}
    BY <1>1
<1>4. Redacted(r) = [path |-> p, origin |-> o, branch |-> r.branch, tip |-> r.tip,
                     marks |-> r.marks]
    <2>1. r = [path |-> r.path, origin |-> r.origin, branch |-> r.branch, tip |-> r.tip,
               marks |-> r.marks]
        BY DEF Repos
    <2>2. Redacted(r) = [r EXCEPT !.path = p, !.origin = o]
        BY <2>1 DEF Redacted
    <2> HIDE DEF p, o
    <2> QED BY <2>1, <2>2
<1> HIDE DEF p, o
<1> QED BY <1>1, <1>2, <1>3, <1>4 DEF Repos

\* What can be reported of a tree is a report.
LEMMA TreesAreRepos ==
    ASSUME NEW i \in Trees, NEW o \in [url : Origins, redacted : {FALSE}] \cup {None},
           NEW r \in TreeStates(i, o)
    PROVE  r \in Repos
<1>1. [parent |-> "src", base |-> i] \in Paths
    BY DEF Paths
<1> QED BY <1>1 DEF TreeStates, Repos

\* Trees are what a check can report of them, and what is published, with the path
\* and the origin redacted or not, is such a report (main.go:551-675,
\* snapshot.go:103-113).
LEMMA SituationsTyped == Spec => []TypeOK
<1>1. Init => TypeOK
    <2>1. SUFFICES ASSUME Init PROVE TypeOK
        OBVIOUS
    <2>2. PICK b \in Branches, t \in Tips :
             trees = [m \in Machines |->
                        [i \in Trees |-> [path |-> [parent |-> "src", base |-> i],
                                          origin |-> origins[i], branch |-> b, tip |-> t,
                                          marks |-> {}]]]
        BY <2>1 DEF Init
    <2>3. ASSUME NEW i \in Trees
          PROVE  LET r == [path |-> [parent |-> "src", base |-> i],
                           origin |-> origins[i], branch |-> b, tip |-> t, marks |-> {}]
                 IN  r \in Repos /\ r \in TreeStates(i, origins[i])
        <3> DEFINE r == [path |-> [parent |-> "src", base |-> i],
                         origin |-> origins[i], branch |-> b, tip |-> t, marks |-> {}]
        <3>1. origins[i] \in [url : Origins, redacted : {FALSE}] \cup {None}
            BY <2>1, <2>3 DEF Init
        <3>2. Consistent(r)
            <4>1. r.branch \notin {None, Detached} \/ r.branch = Detached
                BY SituationsAssumption
            <4> QED BY <4>1, SituationsAssumption DEF Consistent, Reportable
        <3>3. r \in TreeStates(i, origins[i])
            BY <3>1, <3>2 DEF TreeStates
        <3> QED BY <3>1, <3>3, TreesAreRepos
    <2>4. trees \in [Machines -> [Trees -> Repos]]
        BY <2>2, <2>3
    <2>5. \A m \in Machines, i \in Trees : trees[m][i] \in TreeStates(i, origins[i])
        BY <2>2, <2>3
    <2>6. board \in [Machines -> SUBSET Repos]
        BY <2>1 DEF Init
    <2>7. stale \subseteq Machines /\ corrupt \subseteq Machines /\ work \in 0..MaxWork
        BY <2>1, SituationsAssumption DEF Init
    <2>8. origins \in [Trees -> [url : Origins, redacted : {FALSE}] \cup {None}]
        BY <2>1 DEF Init
    <2> QED BY <2>4, <2>5, <2>6, <2>7, <2>8 DEF TypeOK
<1>2. TypeOK /\ [Next]_vars => TypeOK'
    <2>1. SUFFICES ASSUME TypeOK, [Next]_vars PROVE TypeOK'
        OBVIOUS
    <2>2. ASSUME NEW m \in Machines, Work(m)
          PROVE  TypeOK'
        <3>1. PICK i \in Trees : \E r \in TreeStates(i, origins[i]) :
                    trees' = [trees EXCEPT ![m][i] = r]
            BY <2>2 DEF Work
        <3>2. PICK r \in TreeStates(i, origins[i]) : trees' = [trees EXCEPT ![m][i] = r]
            BY <3>1
        <3>3. origins[i] \in [url : Origins, redacted : {FALSE}] \cup {None}
            BY <2>1 DEF TypeOK
        <3>4. r \in Repos
            BY <3>2, <3>3, TreesAreRepos
        <3>5. trees' \in [Machines -> [Trees -> Repos]]
            BY <2>1, <3>2, <3>4 DEF TypeOK
        <3>6. \A k \in Machines, j \in Trees :
                 trees'[k][j] = IF k = m /\ j = i THEN r ELSE trees[k][j]
            BY <2>1, <3>2 DEF TypeOK
        <3>7. \A k \in Machines, j \in Trees : trees'[k][j] \in TreeStates(j, origins[j])
            BY <2>1, <3>2, <3>6 DEF TypeOK
        <3>8. work' \in 0..MaxWork
            BY <2>1, <2>2, SituationsAssumption DEF Work, TypeOK
        <3> QED BY <2>1, <2>2, <3>5, <3>7, <3>8 DEF TypeOK, Work, TreeStates, Consistent
    <2>3. ASSUME NEW m \in Machines, Publish(m)
          PROVE  TypeOK'
        <3>1. Published(m) \in SUBSET Repos
            BY <2>1, RedactedIsRepo DEF Published, Range, TypeOK
        <3> QED BY <2>1, <2>3, <3>1 DEF TypeOK, Publish, TreeStates, Consistent
    <2>4. ASSUME NEW m \in Machines, Age(m)
          PROVE  TypeOK'
        BY <2>1, <2>4 DEF TypeOK, Age, TreeStates, Consistent
    <2>5. ASSUME NEW m \in Machines, Damage(m)
          PROVE  TypeOK'
        BY <2>1, <2>5 DEF TypeOK, Damage, TreeStates, Consistent
    <2>6. CASE UNCHANGED vars
        BY <2>1, <2>6 DEF TypeOK, vars, TreeStates, Consistent
    <2> QED BY <2>1, <2>2, <2>3, <2>4, <2>5, <2>6 DEF Next
<1> QED BY <1>1, <1>2, PTL DEF Spec

-------------------------------------------------------------------------------
(* Rows and groups.                                                          *)

\* The first tree of a group of one.
LEMMA FirstIsOne ==
    ASSUME NEW R, NEW x, R = {x}, x.repo.path.base \in Nat
    PROVE  FirstOf(R) = x
<1>1. \E r \in R : \A y \in R : r.repo.path.base <= y.repo.path.base
    OBVIOUS
<1>2. FirstOf(R) \in R
    BY <1>1 DEF FirstOf
<1> QED BY <1>2

\* Of the trees of a group there is a first one.
LEMMA LeastTree ==
    ASSUME NEW R, R # {}, \A r \in R : r.repo.path.base \in Trees
    PROVE  \E r \in R : \A x \in R : r.repo.path.base <= x.repo.path.base
<1> DEFINE B == {r.repo.path.base : r \in R}
<1>1. B \in SUBSET Nat /\ B # {}
    BY SituationsAssumption DEF Trees
<1>2. PICK b \in B : \A c \in B : b <= c
    <2> HIDE DEF B
    <2> QED BY <1>1, First
<1> QED BY <1>2

\* What the rows of a machine are.
LEMMA RowsAre ==
    ASSUME NEW v \in Machines, NEW x \in Rows(v), ~x.loadError
    PROVE  /\ x.machine \in Machines
           /\ x.local <=> x.machine = v
           /\ x = Row(v, x.machine, x.repo)
           /\ x.repo \in IF x.local THEN Range(trees[v]) ELSE Readable(x.machine)
<1>1. PICK m \in Machines : x \in RowsOf(v, m)
    BY DEF Rows
<1>2. x \notin LoadErrors(m)
    BY DEF LoadErrors
<1>3. PICK r \in IF m = v THEN Range(trees[m]) ELSE Readable(m) : x = Row(v, m, r)
    BY <1>1, <1>2 DEF RowsOf
<1>4. x.machine = m /\ x.repo = r /\ x.local = (m = v)
    BY <1>3 DEF Row
<1> QED BY <1>3, <1>4

\* The rows of its own trees, and of what others published that can be read.
LEMMA HasRow ==
    ASSUME NEW v \in Machines, NEW m \in Machines,
           NEW r \in IF m = v THEN Range(trees[m]) ELSE Readable(m)
    PROVE  LET x == Row(v, m, r)
           IN  /\ x \in Rows(v) /\ ~x.loadError /\ x.repo = r /\ x.machine = m
               /\ x.local <=> m = v
               /\ x \in Group(Rows(v), Key(r)) /\ Key(r) \in Keys(Rows(v))
<1> DEFINE x == Row(v, m, r)
<1>1. x \in Rows(v)
    BY DEF Rows, RowsOf
<1>2. ~x.loadError /\ x.repo = r /\ x.machine = m /\ x.local = (m = v)
    BY DEF Row
<1> HIDE DEF x
<1> QED BY <1>1, <1>2 DEF Group, Keys, x

\* A row is stale when the machine it is from is another one, gone silent.
LEMMA RowStale ==
    ASSUME NEW v, NEW x, NEW m, NEW q, x = Row(v, m, q)
    PROVE  x.stale <=> m # v /\ m \in stale
<1>1. x.stale = (m # v /\ m \in stale)
    BY DEF Row
<1> QED BY <1>1

\* What the rows of a project are, and that the first local one is local.
LEMMA GroupRows ==
    ASSUME TypeOK, NEW v \in Machines, NEW g \in Groups(Rows(v))
    PROVE  /\ \A r \in g : /\ r.local <=> r.machine = v
                           /\ r.stale <=> r.machine \in stale \ {v}
           /\ Locals(g) # {} => FirstOf(Locals(g)).machine = v
<1>1. PICK k : g = Group(Rows(v), k)
    BY DEF Groups
<1>2. ASSUME NEW r \in g
      PROVE  /\ r.machine \in Machines /\ r = Row(v, r.machine, r.repo)
             /\ r.local => r.repo \in Range(trees[v])
    <2>1. r \in Rows(v) /\ ~r.loadError
        BY <1>1 DEF Group
    <2> QED BY <2>1, RowsAre
<1>3. ASSUME NEW r \in g
      PROVE  r.local <=> r.machine = v
    BY <1>1, RowsAre DEF Group
<1>4. ASSUME NEW r \in g
      PROVE  r.stale <=> r.machine \in stale \ {v}
    <2>1. r.stale <=> r.machine # v /\ r.machine \in stale
        BY <1>2, RowStale
    <2> QED BY <2>1
<1>5. ASSUME NEW r \in g, r.local
      PROVE  r.repo.path.base \in Trees
    <2>1. r.repo \in Repos
        BY <1>2, <1>5 DEF TypeOK, Range
    <2> QED BY <2>1 DEF Repos, Paths
<1>6. ASSUME Locals(g) # {}
      PROVE  FirstOf(Locals(g)).machine = v
    <2>1. \A r \in Locals(g) : r.repo.path.base \in Trees
        BY <1>5 DEF Locals
    <2>2. FirstOf(Locals(g)) \in Locals(g)
        BY <1>6, <2>1, LeastTree DEF FirstOf
    <2> QED BY <1>3, <2>2 DEF Locals
<1> QED BY <1>3, <1>4, <1>6

\* The machines of advice that names all without a qualifier, and of advice that
\* shows with each whether it is stale.
LEMMA PlainNames ==
    ASSUME NEW a, NEW R
    PROVE  LET M == {<<a, FALSE>>} \cup {<<r.machine, FALSE>> : r \in R}
           IN  /\ \A x \in M : x[2] = FALSE /\ (x[1] = a \/ \E r \in R : x[1] = r.machine)
               /\ \A r \in R : r.machine \in {x[1] : x \in M}
<1> DEFINE M == {<<a, FALSE>>} \cup {<<r.machine, FALSE>> : r \in R}
<1>1. ASSUME NEW x \in M
      PROVE  x[2] = FALSE /\ (x[1] = a \/ \E r \in R : x[1] = r.machine)
    <2>1. CASE x = <<a, FALSE>>
        BY <2>1
    <2>2. ASSUME NEW r \in R, x = <<r.machine, FALSE>>
          PROVE  x[2] = FALSE /\ x[1] = r.machine
        BY <2>2
    <2> QED BY <2>1, <2>2
<1>2. ASSUME NEW r \in R
      PROVE  r.machine \in {x[1] : x \in M}
    <2>1. <<r.machine, FALSE>> \in M
        OBVIOUS
    <2>2. <<r.machine, FALSE>>[1] = r.machine
        OBVIOUS
    <2> HIDE DEF M
    <2> QED BY <2>1, <2>2
<1> QED BY <1>1, <1>2

LEMMA ShownNames ==
    ASSUME NEW R
    PROVE  LET M == {Shown(r) : r \in R}
           IN  /\ \A x \in M : \E r \in R : x[1] = r.machine /\ x[2] = r.stale
               /\ \A r \in R : r.machine \in {x[1] : x \in M}
<1> DEFINE M == {Shown(r) : r \in R}
<1>1. \A r \in R : Shown(r)[1] = r.machine /\ Shown(r)[2] = r.stale
    BY DEF Shown
<1>2. ASSUME NEW x \in M
      PROVE  \E r \in R : x[1] = r.machine /\ x[2] = r.stale
    BY <1>1
<1>3. ASSUME NEW r \in R
      PROVE  r.machine \in {x[1] : x \in M}
    <2>1. Shown(r) \in M
        OBVIOUS
    <2> HIDE DEF M
    <2> QED BY <1>1, <2>1
<1> QED BY <1>2, <1>3

\* Advice says that it is stale when it rests on the snapshot of a machine that
\* fell silent, and only then, whatever kind it is, and none of a silent machine's
\* work that needs attention goes without (situations.go:265-452).
THEOREM StaleSaidCorrect == Spec => []StaleSaid
<1>1. ASSUME TypeOK, NEW v \in Machines, NEW g \in Groups(Rows(v))
      PROVE  LET S == GroupSituations(g)
                 silent == stale \ {v}
                 named(s) == {x[1] : x \in s.machines}
             IN  /\ \A s \in S :
                      /\ s.stale => named(s) \cap silent # {}
                      /\ s.kind # "tip_mismatch" /\ named(s) \cap silent # {} => s.stale
                      /\ named(s) # {v} /\ named(s) \subseteq silent \cup {v} => s.stale
                      /\ \A x \in s.machines : x[2] => x[1] \in silent
                 /\ (\E r \in g : r.machine \in silent /\ NeedsAttention(r.repo))
                       => \E s \in S : s.stale
    <2> DEFINE S == LocalCues(g) \cup BranchMismatch(g) \cup TipMismatch(g) \cup OtherWork(g)
               silent == stale \ {v}
               named(s) == {x[1] : x \in s.machines}
               Fits(s) == /\ s.stale => named(s) \cap silent # {}
                          /\ s.kind # "tip_mismatch" /\ named(s) \cap silent # {} => s.stale
                          /\ named(s) # {v} /\ named(s) \subseteq silent \cup {v} => s.stale
                          /\ \A x \in s.machines : x[2] => x[1] \in silent
               E == {r \in Remotes(g) : r.stale /\ NeedsAttention(r.repo)}
    <2>1. GroupSituations(g) = S \cup StaleEvidence(g, S)
        BY DEF GroupSituations
    <2>2. \A r \in g : (r.local <=> r.machine = v) /\ (r.stale <=> r.machine \in silent)
        BY <1>1, GroupRows
    <2>3. \A r \in Remotes(g) : r.machine # v /\ (r.stale <=> r.machine \in silent)
        BY <2>2 DEF Remotes
    <2>4. v \notin silent /\ (Locals(g) # {} => FirstOf(Locals(g)).machine = v)
        BY <1>1, GroupRows
    <2>5. ASSUME NEW s \in LocalCues(g)
          PROVE  Fits(s)
        <3>1. PICK l \in Locals(g) : s.machines = {Shown(l)} /\ s.stale = FALSE
            BY DEF LocalCues
        <3>2. l.machine = v /\ ~l.stale
            BY <2>2, <2>4 DEF Locals
        <3>3. \A x \in s.machines : x[1] = v /\ ~x[2]
            BY <3>1, <3>2 DEF Shown
        <3> QED BY <2>4, <3>1, <3>3
    <2>6. ASSUME NEW s \in BranchMismatch(g)
          PROVE  Fits(s)
        <3> DEFINE F == Elsewhere(g)
                   M == {<<FirstOf(Locals(g)).machine, FALSE>>} \cup {<<r.machine, FALSE>> : r \in F}
        <3>1. s = Cross("branch_mismatch", M, F, FALSE) /\ F # {}
            BY <2>6 DEF BranchMismatch
        <3>2. F \subseteq Remotes(g) /\ Locals(g) # {}
            BY <3>1 DEF Elsewhere, LocalBranches
        <3>3. /\ \A x \in M : x[2] = FALSE
              /\ \A x \in M : x[1] = v \/ \E r \in F : x[1] = r.machine
              /\ \A r \in F : r.machine \in {x[1] : x \in M}
            <4> DEFINE a == FirstOf(Locals(g)).machine
            <4>1. /\ \A x \in M : x[2] = FALSE /\ (x[1] = a \/ \E r \in F : x[1] = r.machine)
                  /\ \A r \in F : r.machine \in {x[1] : x \in M}
                BY PlainNames
            <4>2. a = v
                BY <2>4, <3>2
            <4> HIDE DEF M, F, a
            <4> QED BY <4>1, <4>2
        <3>4. \A r \in F : r.stale <=> r.machine \in silent
            BY <2>3, <3>2
        <3>5. s.machines = M /\ (s.stale <=> \E r \in F : r.stale)
            BY <3>1 DEF Cross
        <3> HIDE DEF F, M, silent
        <3>6. /\ \A r \in F : r.machine \in named(s)
              /\ \A n \in named(s) : n = v \/ \E r \in F : n = r.machine
            BY <3>3, <3>5
        <3> HIDE DEF named
        <3>7. /\ s.stale <=> named(s) \cap silent # {}
              /\ named(s) # {v} /\ named(s) \subseteq silent \cup {v} => s.stale
            <4>1. s.stale => named(s) \cap silent # {}
                BY <3>4, <3>5, <3>6
            <4>2. named(s) \cap silent # {} => s.stale
                BY <2>4, <3>4, <3>5, <3>6
            <4>3. named(s) # {}
                BY <3>1, <3>6
            <4>4. named(s) # {v} /\ named(s) \subseteq silent \cup {v}
                     => named(s) \cap silent # {}
                BY <4>3
            <4> QED BY <4>1, <4>2, <4>4
        <3> QED BY <3>3, <3>5, <3>7
    <2>7. ASSUME NEW s \in TipMismatch(g)
          PROVE  Fits(s)
        <3> DEFINE M == {<<FirstOf(Locals(g)).machine, FALSE>>}
                            \cup {<<r.machine, FALSE>> : r \in Remotes(g)}
        <3>1. /\ s = Cross("tip_mismatch", M, OtherTips(g), FALSE)
              /\ OtherTips(g) # {} /\ OtherTips(g) \subseteq Remotes(g)
            BY <2>7 DEF TipMismatch, OtherTips
        <3>2. /\ s.kind = "tip_mismatch" /\ s.machines = M
              /\ s.stale <=> \E r \in OtherTips(g) : r.stale
            BY <3>1 DEF Cross
        <3>3. \A r \in Remotes(g) : r.machine \in named(s)
            BY <3>2, PlainNames
        <3>4. \A x \in M : x[2] = FALSE
            BY PlainNames
        <3> HIDE DEF M, silent
        <3>5. s.stale => named(s) \cap silent # {}
            BY <2>3, <3>1, <3>2, <3>3
        <3>6. named(s) \subseteq silent \cup {v} => s.stale
            BY <2>3, <3>1, <3>2, <3>3
        <3> QED BY <3>2, <3>4, <3>5, <3>6
    <2>8. ASSUME NEW s, NEW kind, NEW F, F # {}, F \subseteq Remotes(g), NEW both,
                 s = Cross(kind, {Shown(r) : r \in F}, F, both)
          PROVE  Fits(s)
        <3> DEFINE M == {Shown(r) : r \in F}
        <3>1. /\ \A x \in M : \E r \in F : x[1] = r.machine /\ x[2] = r.stale
              /\ \A r \in F : r.machine \in {x[1] : x \in M}
            BY ShownNames
        <3>2. \A r \in F : r.stale <=> r.machine \in silent
            BY <2>3, <2>8
        <3>3. s.machines = M /\ (s.stale <=> \E r \in F : r.stale)
            BY <2>8 DEF Cross
        <3> HIDE DEF M, silent
        <3>4. /\ \A r \in F : r.machine \in named(s)
              /\ \A n \in named(s) : n = v \/ \E r \in F : n = r.machine
            BY <3>1, <3>3
        <3>5. \A x \in s.machines : x[2] => x[1] \in silent
            BY <3>1, <3>2, <3>3
        <3> HIDE DEF named
        <3>6. /\ s.stale <=> named(s) \cap silent # {}
              /\ named(s) # {v} /\ named(s) \subseteq silent \cup {v} => s.stale
            <4>1. s.stale => named(s) \cap silent # {}
                BY <3>2, <3>3, <3>4
            <4>2. named(s) \cap silent # {} => s.stale
                BY <2>4, <3>2, <3>3, <3>4
            <4>3. named(s) # {}
                BY <2>8, <3>4
            <4>4. named(s) # {v} /\ named(s) \subseteq silent \cup {v}
                     => named(s) \cap silent # {}
                BY <4>3
            <4> QED BY <4>1, <4>2, <4>4
        <3> QED BY <3>5, <3>6
    <2>9. ASSUME NEW s \in OtherWork(g)
          PROVE  Fits(s)
        <3>1. WorkElsewhere(g) \subseteq Remotes(g)
            BY DEF WorkElsewhere
        <3> QED BY <2>8, <2>9, <3>1 DEF OtherWork
    <2> HIDE DEF S, Fits
    <2>10. ASSUME NEW s \in StaleEvidence(g, S)
           PROVE  Fits(s)
        BY <2>8, <2>10 DEF StaleEvidence
    <2>11. E # {} => \E s \in S \cup StaleEvidence(g, S) : s.stale
        <3>1. CASE Qualified(g, S)
            BY <3>1 DEF Qualified
        <3>2. CASE ~Qualified(g, S)
            <4>1. SUFFICES ASSUME E # {}
                           PROVE  \E s \in StaleEvidence(g, S) : s.stale
                OBVIOUS
            <4>2. StaleEvidence(g, S) = {Cross("stale_evidence", {Shown(r) : r \in E}, E, FALSE)}
                BY <3>2, <4>1 DEF StaleEvidence
            <4>3. Cross("stale_evidence", {Shown(r) : r \in E}, E, FALSE).stale
                BY <4>1 DEF Cross
            <4> QED BY <4>2, <4>3
        <3> QED BY <3>1, <3>2
    <2>12. (\E r \in g : r.machine \in silent /\ NeedsAttention(r.repo)) => E # {}
        BY <2>2, <2>4 DEF Remotes
    <2>13. \A s \in GroupSituations(g) : Fits(s)
        BY <2>1, <2>5, <2>6, <2>7, <2>9, <2>10 DEF S
    <2> QED BY <2>1, <2>11, <2>12, <2>13 DEF Fits
<1>2. TypeOK => StaleSaid
    BY <1>1 DEF StaleSaid
<1> QED BY <1>2, SituationsTyped, PTL

\* The situations of the project of a row are told.
LEMMA Told ==
    ASSUME NEW v \in Machines, NEW k \in Keys(Rows(v)),
           NEW s \in GroupSituations(Group(Rows(v), k))
    PROVE  <<k, s>> \in Detected(v)
BY DEF Detected, SituationsOf

\* Two machines with uncommitted work in one project are warned of each other as
\* soon as it is published, however many trees and machines there are and however
\* it was redacted (situations.go:359-408).
THEOREM CollisionSurfacedCorrect == Spec => []CollisionSurfaced
<1>1. ASSUME NEW v \in Machines, NEW m \in Machines, NEW here \in Range(trees[v]),
             NEW far \in board[m], v # m, m \notin corrupt,
             {here.origin, far.origin} \cap {None} = {},
             here.origin.url = far.origin.url, "dirty" \in here.marks \cap far.marks,
             "error" \notin here.marks \cup far.marks
      PROVE  \E s \in Detected(v) : /\ s[2].kind = "other_machine_work" /\ s[2].both
                                    /\ <<m, m \in stale>> \in s[2].machines
    <2> DEFINE k == <<"origin", here.origin.url>>
               g == Group(Rows(v), k)
               l == Row(v, v, here)
               r == Row(v, m, far)
               W == WorkElsewhere(g)
               both == /\ \E x \in Locals(g) : Works(x) /\ Has(x, "dirty")
                       /\ \E x \in W : Has(x, "dirty")
               s == Cross("other_machine_work", {Shown(x) : x \in W}, W, both)
    <2>1. Key(here) = k /\ Key(far) = k
        BY <1>1 DEF Key
    <2>2. far \in Readable(m)
        BY <1>1 DEF Readable
    <2>3. l \in Locals(g) /\ l.repo = here
        BY <2>1, HasRow DEF Locals
    <2>4. r \in Remotes(g) /\ r.repo = far /\ r.machine = m /\ k \in Keys(Rows(v))
        BY <1>1, <2>1, <2>2, HasRow DEF Remotes
    <2>5. Shown(r) = <<m, m \in stale>>
        BY <1>1 DEF Row, Shown
    <2> HIDE DEF k, g, l, r
    <2>6. r \in W /\ Has(r, "dirty")
        BY <1>1, <2>4 DEF WorkElsewhere, Works, Has
    <2>7. Works(l) /\ Has(l, "dirty")
        BY <1>1, <2>3 DEF Works, Has
    <2>8. both /\ W # {} /\ Locals(g) # {}
        BY <2>3, <2>6, <2>7
    <2>9. OtherWork(g) = {s}
        BY <2>8 DEF OtherWork
    <2>10. s \in GroupSituations(g)
        BY <2>9 DEF GroupSituations
    <2>11. /\ s.kind = "other_machine_work" /\ s.both
           /\ <<m, m \in stale>> \in s.machines
        <3>1. s.kind = "other_machine_work" /\ s.both = both
              /\ s.machines = {Shown(x) : x \in W}
            BY DEF Cross
        <3> QED BY <2>5, <2>6, <2>8, <3>1
    <2>12. <<k, s>> \in Detected(v)
        <3> HIDE DEF s
        <3> QED BY <2>4, <2>10, Told DEF g
    <2> HIDE DEF s
    <2> QED BY <2>11, <2>12
<1>2. CollisionSurfaced
    BY <1>1 DEF CollisionSurfaced
<1> QED BY <1>2, PTL

\* The branches that a project is on at a machine.
BranchesAt(m, url) ==
    {b \in {r.branch : r \in {x \in Range(trees[m]) :
                                 x.origin # None /\ x.origin.url = url}} : Comparable(b)}

\* What a machine whose snapshot is current is known to be on is what it is on.
LEMMA Known ==
    ASSUME TypeOK, NEW v \in Machines, NEW m \in Machines, NEW url,
           m # v => m \notin corrupt /\ board[m] = Published(m)
    PROVE  LET g == Group(Rows(v), <<"origin", url>>)
           IN  {b \in {r.repo.branch : r \in {x \in g : x.machine = m}} : Comparable(b)}
                 = BranchesAt(m, url)
<1> DEFINE k == <<"origin", url>>
           g == Group(Rows(v), k)
           B == {b \in {r.repo.branch : r \in {x \in g : x.machine = m}} : Comparable(b)}
           Same(r, x) == r.branch = x.branch /\ (Key(r) = k <=> Key(x) = k)
           repos == IF m = v THEN Range(trees[m]) ELSE Readable(m)
<1>1. \A r : Key(r) = k <=> r.origin # None /\ r.origin.url = url
    BY DEF Key
<1>2. ASSUME NEW r \in Range(trees[m])
      PROVE  Redacted(r).branch = r.branch /\ (Key(Redacted(r)) = k <=> Key(r) = k)
    <2>1. r \in Repos
        BY DEF TypeOK, Range
    <2>2. Redacted(r).branch = r.branch
        BY <2>1 DEF Redacted, Repos
    <2>3. r.origin = None => Redacted(r).origin = None
        BY <2>1 DEF Redacted, Repos
    <2>4. r.origin # None =>
             /\ Redacted(r).origin = [r.origin EXCEPT !.redacted = TRUE]
             /\ Redacted(r).origin # None /\ Redacted(r).origin.url = r.origin.url
        <3>1. SUFFICES ASSUME r.origin # None
                       PROVE  /\ Redacted(r).origin = [r.origin EXCEPT !.redacted = TRUE]
                              /\ Redacted(r).origin # None
                              /\ Redacted(r).origin.url = r.origin.url
            OBVIOUS
        <3>2. Redacted(r).origin = [r.origin EXCEPT !.redacted = TRUE]
            BY <2>1, <3>1 DEF Redacted, Repos
        <3>3. r.origin \in [url : Origins, redacted : BOOLEAN]
            BY <2>1, <3>1 DEF Repos
        <3>4. /\ [r.origin EXCEPT !.redacted = TRUE] \in [url : Origins, redacted : BOOLEAN]
              /\ [r.origin EXCEPT !.redacted = TRUE].url = r.origin.url
            BY <3>3
        <3> QED BY <3>2, <3>4, SituationsAssumption
    <2> QED BY <1>1, <2>2, <2>3, <2>4
<1>3. /\ \A r \in Range(trees[m]) : \E x \in repos : Same(r, x)
      /\ \A x \in repos : \E r \in Range(trees[m]) : Same(r, x)
    <2>1. CASE m = v
        BY <2>1
    <2>2. CASE m # v
        <3>1. repos = Published(m)
            BY <2>2 DEF Readable
        <3> QED BY <1>2, <2>2, <3>1 DEF Published
    <2> QED BY <2>1, <2>2
<1>4. ASSUME NEW b \in B
      PROVE  b \in BranchesAt(m, url)
    <2>1. PICK x \in g : x.machine = m /\ b = x.repo.branch
        OBVIOUS
    <2>2. x.repo \in repos /\ Key(x.repo) = k
        BY <2>1, RowsAre DEF Group
    <2> HIDE DEF repos, k
    <2>3. PICK r \in Range(trees[m]) : Same(r, x.repo)
        BY <1>3, <2>2
    <2> QED BY <1>1, <1>4, <2>1, <2>2, <2>3 DEF BranchesAt
<1>5. ASSUME NEW b \in BranchesAt(m, url)
      PROVE  b \in B
    <2>1. PICK r \in Range(trees[m]) : /\ r.origin # None /\ r.origin.url = url
                                       /\ b = r.branch /\ Comparable(b)
        BY DEF BranchesAt
    <2>2. PICK x \in repos : Same(r, x)
        BY <1>3
    <2>3. Key(x) = k /\ b = x.branch
        BY <1>1, <2>1, <2>2
    <2>4. LET y == Row(v, m, x)
          IN  y \in g /\ y.machine = m /\ y.repo = x
        BY <2>2, <2>3, HasRow
    <2> HIDE DEF g
    <2> QED BY <2>1, <2>3, <2>4
<1> QED BY <1>4, <1>5

\* Only a branch mismatch is one.
LEMMA KindOfMismatch ==
    ASSUME NEW g, NEW s \in GroupSituations(g)
    PROVE  s.kind = "branch_mismatch" <=> s \in BranchMismatch(g)
<1> DEFINE S == LocalCues(g) \cup BranchMismatch(g) \cup TipMismatch(g) \cup OtherWork(g)
<1>1. s \in S \cup StaleEvidence(g, S)
    BY DEF GroupSituations
<1>2. \A x \in LocalCues(g) : x.kind # "branch_mismatch"
    BY DEF LocalCues
<1>3. \A x \in BranchMismatch(g) : x.kind = "branch_mismatch"
    <2> DEFINE E == Elsewhere(g)
               M == {<<FirstOf(Locals(g)).machine, FALSE>>} \cup {<<r.machine, FALSE>> : r \in E}
    <2>1. BranchMismatch(g) \subseteq {Cross("branch_mismatch", M, E, FALSE)}
        BY DEF BranchMismatch
    <2> HIDE DEF E, M
    <2> QED BY <2>1 DEF Cross
<1>4. \A x \in TipMismatch(g) : x.kind = "tip_mismatch"
    <2> DEFINE E == OtherTips(g)
               M == {<<FirstOf(Locals(g)).machine, FALSE>>}
                        \cup {<<r.machine, FALSE>> : r \in Remotes(g)}
    <2>1. TipMismatch(g) \subseteq {Cross("tip_mismatch", M, E, FALSE)}
        BY DEF TipMismatch
    <2> HIDE DEF E, M
    <2> QED BY <2>1 DEF Cross
<1>5. \A x \in OtherWork(g) : x.kind = "other_machine_work"
    BY DEF OtherWork, Cross
<1> HIDE DEF S
<1>6. \A x \in StaleEvidence(g, S) : x.kind = "stale_evidence"
    BY DEF StaleEvidence, Cross
<1> QED BY <1>1, <1>2, <1>3, <1>4, <1>5, <1>6 DEF S

\* A machine is told of a branch mismatch with another if both have branches of a
\* project checked out and none in common.
LEMMA WhenTold ==
    ASSUME TypeOK, NEW m \in Machines, NEW n \in Machines, m # n,
           n \notin corrupt, board[n] = Published(n)
    PROVE  ToldOfBranch(m, n) <=>
               \E url : /\ BranchesAt(m, url) # {} /\ BranchesAt(n, url) # {}
                        /\ BranchesAt(m, url) \cap BranchesAt(n, url) = {}
<1> DEFINE k(url) == <<"origin", url>>
           g(url) == Group(Rows(m), k(url))
<1>1. ASSUME NEW url
      PROVE  /\ LocalBranches(g(url)) = BranchesAt(m, url)
             /\ (\E r \in Elsewhere(g(url)) : r.machine = n) <=>
                    /\ BranchesAt(m, url) # {} /\ BranchesAt(n, url) # {}
                    /\ BranchesAt(m, url) \cap BranchesAt(n, url) = {}
    <2> DEFINE G == g(url)
               At(x) == {b \in {r.repo.branch : r \in {y \in G : y.machine = x}} : Comparable(b)}
    <2>1. At(m) = BranchesAt(m, url) /\ At(n) = BranchesAt(n, url)
        BY Known
    <2>2. ASSUME NEW r \in G
          PROVE  r.local <=> r.machine = m
        <3>1. r \in Rows(m) /\ ~r.loadError
            BY DEF Group
        <3> QED BY <3>1, RowsAre
    <2> HIDE DEF G
    <2>3. LocalBranches(G) = At(m)
        BY <2>2 DEF LocalBranches, Locals
    <2>4. (\E r \in Elsewhere(G) : r.machine = n) <=>
              At(m) # {} /\ At(n) # {} /\ At(m) \cap At(n) = {}
        <3>1. ASSUME NEW r \in Elsewhere(G), r.machine = n
              PROVE  At(m) # {} /\ At(n) # {} /\ At(m) \cap At(n) = {}
            <4>1. r \in G /\ Comparable(r.repo.branch) /\ At(m) # {}
                BY <2>3 DEF Elsewhere, Remotes
            <4>2. \A x \in Remotes(G) : x.machine = n => x.repo.branch \notin At(m)
                BY <2>3, <3>1 DEF Elsewhere
            <4>3. r.repo.branch \in At(n)
                BY <3>1, <4>1
            <4>4. \A x \in G : x.machine = n => x \in Remotes(G)
                BY <2>2 DEF Remotes
            <4> QED BY <4>1, <4>2, <4>3, <4>4
        <3>2. ASSUME At(m) # {}, At(n) # {}, At(m) \cap At(n) = {}
              PROVE  \E r \in Elsewhere(G) : r.machine = n
            <4>1. PICK r \in G : r.machine = n /\ Comparable(r.repo.branch)
                BY <3>2
            <4>2. r \in Remotes(G)
                BY <2>2, <4>1 DEF Remotes
            <4>3. \A x \in Remotes(G) : x.machine = n => x.repo.branch \notin At(m)
                BY <3>2 DEF Remotes
            <4> QED BY <2>3, <3>2, <4>1, <4>2, <4>3 DEF Elsewhere
        <3> QED BY <3>1, <3>2
    <2> HIDE DEF At
    <2> QED BY <2>1, <2>3, <2>4 DEF G
<1>2. ASSUME NEW url
      PROVE  (\E s \in BranchMismatch(g(url)) : <<n, FALSE>> \in s.machines) <=>
                 \E r \in Elsewhere(g(url)) : r.machine = n
    <2> DEFINE G == g(url)
               E == Elsewhere(G)
               M == {<<FirstOf(Locals(G)).machine, FALSE>>}
                        \cup {<<r.machine, FALSE>> : r \in E}
    <2>1. E # {} => FirstOf(Locals(G)).machine = m
        <3>1. SUFFICES ASSUME E # {} PROVE FirstOf(Locals(G)).machine = m
            OBVIOUS
        <3>2. ASSUME NEW r \in Locals(G)
              PROVE  r.machine = m /\ r.repo \in Range(trees[m])
            <4>1. r \in Rows(m) /\ ~r.loadError /\ r.local
                BY DEF Group, Locals
            <4> QED BY <4>1, RowsAre
        <3>3. \A r \in Locals(G) : r.repo.path.base \in Trees
            BY <3>2 DEF TypeOK, Range, Repos, Paths
        <3> HIDE DEF G
        <3>4. Locals(G) # {}
            BY <3>1 DEF Elsewhere, LocalBranches
        <3>5. \E r \in Locals(G) : \A x \in Locals(G) : r.repo.path.base <= x.repo.path.base
            BY <3>3, <3>4, LeastTree
        <3>6. FirstOf(Locals(G)) \in Locals(G)
            BY <3>5 DEF FirstOf
        <3> QED BY <3>2, <3>6
    <2>2. BranchMismatch(G) = IF E = {} THEN {}
                              ELSE {Cross("branch_mismatch", M, E, FALSE)}
        BY DEF BranchMismatch
    <2>3. Cross("branch_mismatch", M, E, FALSE).machines = M
        BY DEF Cross
    <2>4. <<n, FALSE>> \in M <=> n = FirstOf(Locals(G)).machine \/ \E r \in E : r.machine = n
        OBVIOUS
    <2> HIDE DEF G, E, M
    <2>5. (\E s \in BranchMismatch(G) : <<n, FALSE>> \in s.machines) <=> \E r \in E : r.machine = n
        BY <2>1, <2>2, <2>3, <2>4
    <2> QED BY <2>5 DEF G, E
<1>3. ASSUME NEW url, NEW s \in BranchMismatch(g(url)), <<n, FALSE>> \in s.machines
      PROVE  ToldOfBranch(m, n)
    <2>1. PICK r \in Elsewhere(g(url)) : r.machine = n
        BY <1>2, <1>3
    <2>2. k(url) \in Keys(Rows(m))
        BY <2>1 DEF Elsewhere, Remotes, Group, Keys
    <2>3. s \in GroupSituations(g(url)) /\ s.kind = "branch_mismatch"
        <3>1. s \in GroupSituations(g(url))
            BY <1>3 DEF GroupSituations
        <3> QED BY <1>3, <3>1, KindOfMismatch
    <2>4. <<k(url), s>> \in Detected(m)
        BY <2>2, <2>3, Told
    <2> QED BY <1>3, <2>3, <2>4 DEF ToldOfBranch
<1>4. ASSUME ToldOfBranch(m, n)
      PROVE  \E url : \E s \in BranchMismatch(g(url)) : <<n, FALSE>> \in s.machines
    <2>1. PICK t \in Detected(m) : /\ t[1][1] = "origin" /\ t[2].kind = "branch_mismatch"
                                   /\ <<n, FALSE>> \in t[2].machines
        BY <1>4 DEF ToldOfBranch
    <2>2. PICK q \in Keys(Rows(m)) : \E s \in GroupSituations(Group(Rows(m), q)) : t = <<q, s>>
        BY <2>1 DEF Detected, SituationsOf
    <2>3. PICK s \in GroupSituations(Group(Rows(m), q)) : t = <<q, s>>
        BY <2>2
    <2>4. q[1] = "origin" /\ s.kind = "branch_mismatch" /\ <<n, FALSE>> \in s.machines
        BY <2>1, <2>3
    <2>5. \E url : q = k(url)
        BY <2>2, <2>4 DEF Keys, Key
    <2> QED BY <2>3, <2>4, <2>5, KindOfMismatch
<1> QED BY <1>1, <1>2, <1>3, <1>4

\* A branch mismatch is mutual: of two machines whose snapshots are current both
\* are told of the other or neither, by WhenTold a symmetric condition on their
\* trees (situations.go:265-317).
THEOREM MismatchMutualCorrect == Spec => []MismatchMutual
<1>1. TypeOK => MismatchMutual
    <2>1. SUFFICES ASSUME TypeOK, NEW m \in Machines, NEW n \in Machines, m < n,
                          {m, n} \cap corrupt = {},
                          board[m] = Published(m), board[n] = Published(n)
                   PROVE  ToldOfBranch(m, n) <=> ToldOfBranch(n, m)
        BY DEF MismatchMutual
    <2>2. m # n
        BY <2>1, SituationsAssumption DEF Machines
    <2>3. m \notin corrupt /\ n \notin corrupt
        BY <2>1
    <2> QED BY <2>1, <2>2, <2>3, WhenTold
<1> QED BY <1>1, SituationsTyped, PTL

\* A project that looks calm in the matrix has no situation, if no machine has
\* more than one tree of it: then the cells are the rows the situations are
\* derived from (matrix.go:88-180, situations.go:175-455).
THEOREM CalmIsCalmCorrect == Spec => []CalmIsCalm
<1>1. TypeOK => CalmIsCalm
    <2>1. SUFFICES ASSUME TypeOK, NEW v \in Machines, NEW k \in Keys(Rows(v)),
                          LooksCalm(Group(Rows(v), k)), OneTreeEach(Group(Rows(v), k))
                   PROVE  GroupSituations(Group(Rows(v), k)) = {}
        BY DEF CalmIsCalm, Groups
    <2> DEFINE g == Group(Rows(v), k)
    <2>2. ASSUME NEW r \in g
          PROVE  r.repo \in Repos /\ (r.local => r.machine = v)
        <3>1. r \in Rows(v) /\ ~r.loadError
            BY DEF Group
        <3>2. /\ r.machine \in Machines /\ (r.local => r.machine = v)
              /\ r.repo \in IF r.local THEN Range(trees[v]) ELSE Readable(r.machine)
            BY <3>1, RowsAre
        <3> QED BY <2>1, <3>2 DEF TypeOK, Range, Readable
    <2> HIDE DEF g
    <2>3. ASSUME NEW r \in g
          PROVE  r \in Cells(g)
        <3> DEFINE R == {x \in g : x.machine = r.machine}
        <3>1. R = {r}
            BY <2>1 DEF OneTreeEach, g
        <3>2. r.repo.path.base \in Nat
            BY <2>2, SituationsAssumption DEF Repos, Paths, Trees
        <3>3. Rank(r.repo) \in Nat
            BY DEF Rank
        <3> HIDE DEF R
        <3>4. {x \in R : \A y \in R : Rank(x.repo) >= Rank(y.repo)} = {r}
            BY <3>1, <3>3
        <3>5. Collapsed(R) = r
            BY <3>2, <3>4, FirstIsOne DEF Collapsed
        <3> QED BY <3>5 DEF Cells, R
    <2>4. /\ \A r \in g : r.repo.marks \subseteq {"empty"} /\ ~r.stale
          /\ \A r, x \in g : /\ None \notin {r.repo.branch, x.repo.branch}
                             => r.repo.branch = x.repo.branch
          /\ \A r, x \in g : /\ r.repo.branch = x.repo.branch /\ Comparable(r.repo.branch)
                             /\ None \notin {r.repo.tip, x.repo.tip}
                             => r.repo.tip = x.repo.tip
        BY <2>1, <2>3 DEF LooksCalm, BranchesDiffer, TipsDiffer, g
    <2>5. LocalCues(g) = {}
        BY <2>4 DEF LocalCues, Locals, Has, Works
    <2>6. Elsewhere(g) = {}
        BY <2>4 DEF Elsewhere, LocalBranches, Locals, Remotes, Comparable
    <2>7. BranchMismatch(g) = {}
        BY <2>6 DEF BranchMismatch
    <2>8. TipMismatch(g) = {}
        <3>1. CASE Locals(g) = {}
            BY <3>1 DEF TipMismatch
        <3>2. CASE Locals(g) # {}
            <4>1. PICK l \in Locals(g) : TRUE
                BY <3>2
            <4>2. Locals(g) = {l}
                BY <2>1, <2>2, <4>1 DEF Locals, OneTreeEach, g
            <4>3. l \in g /\ l.repo.path.base \in Nat
                BY <2>2, <4>1, SituationsAssumption DEF Locals, Repos, Paths, Trees
            <4>4. FirstOf(Locals(g)) = l
                BY <4>2, <4>3, FirstIsOne
            <4>5. OtherTips(g) = {}
                BY <2>4, <4>3, <4>4 DEF OtherTips, Remotes
            <4> QED BY <4>5 DEF TipMismatch
        <3> QED BY <3>1, <3>2
    <2>9. OtherWork(g) = {}
        <3>1. WorkElsewhere(g) = {}
            BY <2>4 DEF WorkElsewhere, Remotes, Has
        <3> QED BY <3>1 DEF OtherWork
    <2>10. \A S : StaleEvidence(g, S) = {}
        <3>1. {r \in Remotes(g) : r.stale /\ NeedsAttention(r.repo)} = {}
            BY <2>4 DEF Remotes
        <3> QED BY <3>1 DEF StaleEvidence
    <2>11. GroupSituations(g) = {}
        BY <2>5, <2>7, <2>8, <2>9, <2>10 DEF GroupSituations
    <2> QED BY <2>11 DEF g
<1> QED BY <1>1, SituationsTyped, PTL

-------------------------------------------------------------------------------
(* What is shown.                                                            *)

\* Every local tree that needs attention is a cue, but for one without commits
\* that could not be looked at.
LEMMA Cued ==
    ASSUME NEW g, NEW l \in Locals(g), l.repo.marks \subseteq AllMarks,
           NeedsAttention(l.repo), ~({"error", "empty"} \subseteq l.repo.marks)
    PROVE  LocalCues(g) # {}
<1>1. CASE Has(l, "error") /\ ~Has(l, "empty")
    BY <1>1 DEF LocalCues
<1>2. CASE Works(l) /\ Has(l, "dirty")
    BY <1>2 DEF LocalCues
<1>3. CASE Works(l) /\ Has(l, "unpushed")
    BY <1>3 DEF LocalCues
<1>4. CASE Works(l) /\ Has(l, "behind")
    BY <1>4 DEF LocalCues
<1>5. CASE Works(l) /\ Has(l, "noUpstream")
    BY <1>5 DEF LocalCues
<1>6. \/ Has(l, "error") /\ ~Has(l, "empty")
      \/ Works(l) /\ \E a \in {"dirty", "unpushed", "behind", "noUpstream"} : Has(l, a)
    BY DEF Has, Works, NeedsAttention, AllMarks
<1> QED BY <1>1, <1>2, <1>3, <1>4, <1>5, <1>6

\* Every tree here that needs attention is shown, whichever way the trees were
\* dropped before, but for one without commits that could not be looked at
\* (main.go:375-411, situations.go:210).
THEOREM NoTreeMissingCorrect == Spec => []NoTreeMissing
<1>1. TypeOK => NoTreeMissing
    <2>1. SUFFICES ASSUME TypeOK, NEW view \in Views, NEW i \in Trees,
                          NeedsAttention(trees[Viewer][i]),
                          ~({"error", "empty"} \subseteq trees[Viewer][i].marks)
                   PROVE  trees[Viewer][i] \in Own(Visible(Viewer, Results(view), view))
        BY DEF NoTreeMissing
    <2> DEFINE r == trees[Viewer][i]
               R == Combined(Viewer, Results(view), view)
               l == Row(Viewer, Viewer, r)
               k == Key(r)
               g == Group(R, k)
               K == KeysWithSituations(SituationsOf(R))
    <2>2. r \in Range(trees[Viewer]) /\ r \in Repos
        BY <2>1, ViewerAssumption DEF TypeOK, Range
    <2>3. r \in Results(view)
        BY <2>1, <2>2 DEF Results
    <2>4. l \in R /\ l.local /\ l.repo = r /\ ~l.loadError
        BY <2>3 DEF Combined, Row
    <2> HIDE DEF R, l, r
    <2>5. l \in Locals(g) /\ k \in Keys(R)
        BY <2>4 DEF Locals, Group, Keys
    <2>6. LocalCues(g) # {}
        <3>1. l.repo.marks \subseteq AllMarks
            BY <2>2, <2>4, SituationsAssumption DEF Repos
        <3> HIDE DEF g
        <3> QED BY <2>1, <2>4, <2>5, <3>1, Cued DEF r
    <2>7. k \in K
        <3>1. PICK s : s \in GroupSituations(g)
            BY <2>6 DEF GroupSituations
        <3>2. <<k, s>> \in SituationsOf(R)
            BY <2>5, <3>1 DEF SituationsOf
        <3> QED BY <3>2 DEF KeysWithSituations
    <2>8. l \in Filtered(R, K)
        BY <2>4, <2>7 DEF Filtered
    <2> QED BY <2>4, <2>8 DEF Visible, Own, Locals, R, r
<1> QED BY <1>1, SituationsTyped, PTL

\* Projects without a situation can be dropped.
LEMMA OnlyKept ==
    ASSUME NEW R, NEW K, K = KeysWithSituations(SituationsOf(R))
    PROVE  SituationsOf(Filtered(R, K)) = SituationsOf(R)
<1> DEFINE F == Filtered(R, K)
<1>1. \A k \in K : Group(F, k) = Group(R, k) /\ (k \in Keys(F) <=> k \in Keys(R))
    BY DEF Filtered, Group, Keys
<1>2. Keys(F) \subseteq K
    BY DEF Filtered, Keys
<1>3. \A x \in SituationsOf(R) : x[1] \in K
    BY DEF KeysWithSituations
<1> HIDE DEF F
<1>4. ASSUME NEW x \in SituationsOf(R)
      PROVE  x \in SituationsOf(F)
    <2>1. PICK k \in Keys(R) : \E s \in GroupSituations(Group(R, k)) : x = <<k, s>>
        BY DEF SituationsOf
    <2>2. k \in K
        BY <1>3, <2>1
    <2> QED BY <1>1, <2>1, <2>2 DEF SituationsOf
<1>5. ASSUME NEW x \in SituationsOf(F)
      PROVE  x \in SituationsOf(R)
    <2>1. PICK k \in Keys(F) : \E s \in GroupSituations(Group(F, k)) : x = <<k, s>>
        BY DEF SituationsOf
    <2> QED BY <1>1, <1>2, <2>1 DEF SituationsOf
<1> QED BY <1>4, <1>5 DEF F

\* Without other machines a project has the situations of its own trees, and
\* those of the trees that need attention are the same.
LEMMA OwnCues ==
    ASSUME NEW v, NEW A
    PROVE  LET all  == {Row(v, v, r) : r \in A}
               some == {Row(v, v, r) : r \in {x \in A : NeedsAttention(x)}}
           IN  SituationsOf(some) = SituationsOf(all)
<1> DEFINE all  == {Row(v, v, r) : r \in A}
           some == {Row(v, v, r) : r \in {x \in A : NeedsAttention(x)}}
<1>1. \A x \in all : x.local
    <2>1. \A r : Row(v, v, r).local
        BY DEF Row
    <2> QED BY <2>1
<1>2. some = {x \in all : NeedsAttention(x.repo)}
    <2>1. \A r : Row(v, v, r).repo = r
        BY DEF Row
    <2> QED BY <2>1
<1> HIDE DEF all, some
<1>3. ASSUME NEW g, \A x \in g : x.local
      PROVE  GroupSituations(g) = LocalCues(g)
    <2>1. Remotes(g) = {}
        BY <1>3 DEF Remotes
    <2>2. Elsewhere(g) = {} /\ OtherTips(g) = {} /\ WorkElsewhere(g) = {}
        BY <2>1 DEF Elsewhere, OtherTips, WorkElsewhere
    <2>3. \A S : StaleEvidence(g, S) = {}
        BY <2>1 DEF StaleEvidence
    <2> QED BY <2>2, <2>3 DEF GroupSituations, BranchMismatch, TipMismatch, OtherWork
<1>4. ASSUME NEW k
      PROVE  LocalCues(Group(some, k)) = LocalCues(Group(all, k))
    <2> DEFINE L == Locals(Group(all, k))
               M == Locals(Group(some, k))
    <2>1. M = {x \in L : NeedsAttention(x.repo)}
        BY <1>2 DEF Locals, Group
    <2>2. \A x, a : Has(x, a) /\ a # "empty" => NeedsAttention(x.repo)
        BY DEF Has, NeedsAttention
    <2> HIDE DEF L, M
    <2>3. \A a : a # "empty" => {x \in M : Works(x) /\ Has(x, a)} = {x \in L : Works(x) /\ Has(x, a)}
        BY <2>1, <2>2
    <2>4. {x \in M : Has(x, "error") /\ ~Has(x, "empty")}
             = {x \in L : Has(x, "error") /\ ~Has(x, "empty")}
        BY <2>1, <2>2
    <2>5. /\ {x \in M : Works(x) /\ Has(x, "dirty")} = {x \in L : Works(x) /\ Has(x, "dirty")}
          /\ {x \in M : Works(x) /\ Has(x, "unpushed")} = {x \in L : Works(x) /\ Has(x, "unpushed")}
          /\ {x \in M : Works(x) /\ Has(x, "behind")} = {x \in L : Works(x) /\ Has(x, "behind")}
          /\ {x \in M : Works(x) /\ Has(x, "noUpstream")}
                = {x \in L : Works(x) /\ Has(x, "noUpstream")}
        BY <2>3
    <2> QED BY <2>4, <2>5 DEF LocalCues, L, M
<1>5. \A k : (\A x \in Group(all, k) : x.local) /\ (\A x \in Group(some, k) : x.local)
    BY <1>1, <1>2 DEF Group
<1>6. \A k : GroupSituations(Group(some, k)) = GroupSituations(Group(all, k))
    BY <1>3, <1>4, <1>5
<1>7. \A k : k \notin Keys(some) => GroupSituations(Group(some, k)) = {}
    <2>1. SUFFICES ASSUME NEW k, k \notin Keys(some)
                   PROVE  LocalCues(Group(some, k)) = {}
        BY <1>3, <1>5
    <2>2. Locals(Group(some, k)) = {}
        BY <2>1 DEF Locals, Group, Keys
    <2> QED BY <2>2 DEF LocalCues
<1>8. Keys(some) \subseteq Keys(all)
    BY <1>2 DEF Keys
<1>9. SituationsOf(some) = SituationsOf(all)
    BY <1>6, <1>7, <1>8 DEF SituationsOf
<1> QED BY <1>9 DEF all, some

\* --dirty-only hides projects, never a reason: neither the clean trees dropped
\* before nor the projects dropped after change a situation, and no load error is
\* hidden (main.go:375-411, situations.go:501-515).
THEOREM SameSituationsCorrect == Spec => []SameSituations
<1>1. ASSUME NEW view \in Views
      PROVE  LET all == Combined(Viewer, Range(trees[Viewer]), view)
                 shown == Visible(Viewer, Results(view), view)
             IN  /\ SituationsOf(shown) = SituationsOf(all)
                 /\ {r \in all : r.loadError} \subseteq shown
    <2> DEFINE all == Combined(Viewer, Range(trees[Viewer]), view)
               R == Combined(Viewer, Results(view), view)
               shown == Visible(Viewer, Results(view), view)
    <2>1. SituationsOf(shown) = SituationsOf(R)
        BY OnlyKept DEF Visible
    <2>2. SituationsOf(R) = SituationsOf(all)
        <3>1. CASE view.remotes
            BY <3>1 DEF Results
        <3>2. CASE ~view.remotes
            <4>1. ~view.loaded
                BY <3>2 DEF Views
            <4>2. /\ R = {Row(Viewer, Viewer, r) :
                            r \in {x \in Range(trees[Viewer]) : NeedsAttention(x)}}
                  /\ all = {Row(Viewer, Viewer, r) : r \in Range(trees[Viewer])}
                BY <3>2, <4>1 DEF Combined, Results
            <4> HIDE DEF R, all
            <4> QED BY <4>2, OwnCues
        <3> QED BY <3>1, <3>2
    <2>3. {r \in all : r.loadError} \subseteq R
        <3>1. \A r \in Range(trees[Viewer]) : ~Row(Viewer, Viewer, r).loadError
            BY DEF Row
        <3> QED BY <3>1 DEF Combined
    <2>4. {r \in R : r.loadError} \subseteq shown
        BY DEF Visible, Filtered
    <2> HIDE DEF all, R, shown
    <2>5. {r \in all : r.loadError} \subseteq shown
        BY <2>3, <2>4
    <2> QED BY <2>1, <2>2, <2>5 DEF all, shown
<1>2. SameSituations
    BY <1>1 DEF SameSituations
<1> QED BY <1>2, PTL
===============================================================================
