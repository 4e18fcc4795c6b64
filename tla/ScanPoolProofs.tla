---------------------------- MODULE ScanPoolProofs ----------------------------
(* Theorems about ScanPool: what is published is whole, and no worker sends   *)
(* on the closed channel.                                                     *)
EXTENDS ScanPool, SequenceTheorems, TLAPS

(* The operators on sequences of statuses.                                   *)

LEMMA AppendStatus ==
    ASSUME NEW s \in Seq(Statuses), NEW t \in Statuses
    PROVE  /\ Append(s, t) \in Seq(Statuses)
           /\ \A r : Has(Append(s, t), r) <=> Has(s, r) \/ t.repo = r
           /\ Distinct(s) /\ ~Has(s, t.repo) => Distinct(Append(s, t))
           /\ \A i \in 1..Len(Append(s, t)) :
                 Append(s, t)[i] = t \/ \E j \in 1..Len(s) : Append(s, t)[i] = s[j]
<1> DEFINE a == Append(s, t)
<1>1. /\ a \in Seq(Statuses) /\ Len(s) \in Nat /\ Len(a) = Len(s) + 1
      /\ a[Len(s) + 1] = t
      /\ \A i \in 1..Len(s) : a[i] = s[i]
    OBVIOUS
<1> HIDE DEF a
<1>2. \A r : Has(a, r) <=> Has(s, r) \/ t.repo = r
    BY <1>1 DEF Has
<1>3. ASSUME Distinct(s), ~Has(s, t.repo) PROVE Distinct(a)
    BY <1>1, <1>3 DEF Distinct, Has
<1>4. \A i \in 1..Len(a) : a[i] = t \/ \E j \in 1..Len(s) : a[i] = s[j]
    BY <1>1
<1> QED BY <1>1, <1>2, <1>3, <1>4 DEF a

LEMMA TailStatus ==
    ASSUME NEW s \in Seq(Statuses), s # <<>>
    PROVE  /\ Tail(s) \in Seq(Statuses) /\ Head(s) \in Statuses
           /\ 1 \in 1..Len(s) /\ Head(s) = s[1] /\ Has(s, Head(s).repo)
           /\ \A r : Has(Tail(s), r) => Has(s, r)
           /\ \A r : Has(s, r) => Has(Tail(s), r) \/ Head(s).repo = r
           /\ Distinct(s) => Distinct(Tail(s)) /\ ~Has(Tail(s), Head(s).repo)
           /\ \A i \in 1..Len(Tail(s)) : \E j \in 1..Len(s) : Tail(s)[i] = s[j]
<1> DEFINE a == Tail(s)
<1>1. /\ a \in Seq(Statuses) /\ Len(s) \in Nat /\ Len(s) > 0 /\ Len(a) = Len(s) - 1
      /\ Head(s) = s[1] /\ Head(s) \in Statuses
      /\ \A i \in 1..Len(a) : a[i] = s[i + 1]
    OBVIOUS
<1> HIDE DEF a
<1>2. \A r : Has(a, r) => Has(s, r)
    BY <1>1 DEF Has
<1>3. ASSUME NEW r, Has(s, r) PROVE Has(a, r) \/ Head(s).repo = r
  <2>1. PICK i \in 1..Len(s) : s[i].repo = r
      BY <1>3 DEF Has
  <2>2. CASE i = 1
      BY <1>1, <2>1, <2>2
  <2>3. CASE i # 1
    <3>1. i - 1 \in 1..Len(a) /\ a[i - 1] = s[i]
        BY <1>1, <2>3
    <3> QED BY <2>1, <3>1 DEF Has
  <2> QED BY <2>2, <2>3
<1>4. ASSUME Distinct(s) PROVE Distinct(a) /\ ~Has(a, Head(s).repo)
    BY <1>1, <1>4 DEF Distinct, Has
<1>5. \A i \in 1..Len(a) : \E j \in 1..Len(s) : a[i] = s[j]
    BY <1>1
<1>6. 1 \in 1..Len(s) /\ Has(s, Head(s).repo)
    BY <1>1 DEF Has
<1> QED BY <1>1, <1>2, <1>3, <1>4, <1>5, <1>6 DEF a

\* A sorted reordering of distinct statuses has the same ones, in order.
LEMMA SortedStatus ==
    ASSUME NEW s \in Seq(Statuses), NEW t, Sorted(s, t), Distinct(s)
    PROVE  /\ t \in Seq(Statuses)
           /\ \A r : Has(s, r) <=> Has(t, r)
           /\ \A i, j \in 1..Len(t) : i < j => t[i].repo < t[j].repo
           /\ \A i \in 1..Len(t) : \E j \in 1..Len(s) : t[i] = s[j]
<1> DEFINE D == 1..Len(s)
<1>1. DOMAIN s = D /\ Len(s) \in Nat /\ \A i \in D : s[i] \in Statuses
    OBVIOUS
<1>2. PICK p \in Bijection(D, D) : t = [k \in D |-> s[p[k]]]
    BY <1>1 DEF Sorted
<1>3. /\ p \in [D -> D]
      /\ \A i, j \in D : p[i] = p[j] => i = j
      /\ \A i \in D : \E j \in D : p[j] = i
    BY <1>2 DEF Bijection, Injection, Surjection, IsInjective
<1>4. /\ t \in Seq(Statuses) /\ Len(t) = Len(s)
      /\ \A i \in D : t[i] = s[p[i]]
  <2>1. t \in [1..Len(s) -> Statuses]
      BY <1>1, <1>2, <1>3
  <2> QED BY <1>1, <1>2, <2>1
<1>5. \A r : Has(s, r) <=> Has(t, r)
  <2>1. ASSUME NEW r, Has(s, r) PROVE Has(t, r)
    <3>1. PICK i \in D : s[i].repo = r
        BY <2>1 DEF Has
    <3>2. PICK j \in D : p[j] = i
        BY <1>3
    <3> QED BY <1>4, <3>1, <3>2 DEF Has
  <2>2. ASSUME NEW r, Has(t, r) PROVE Has(s, r)
    <3>1. PICK i \in D : t[i].repo = r
        BY <1>4, <2>2 DEF Has
    <3> QED BY <1>3, <1>4, <3>1 DEF Has
  <2> QED BY <2>1, <2>2
<1>6. ASSUME NEW i \in D, NEW j \in D, i < j PROVE t[i].repo < t[j].repo
  <2>1. t[i].repo <= t[j].repo
      BY <1>1, <1>6 DEF Sorted
  <2>2. p[i] # p[j] /\ p[i] \in D /\ p[j] \in D
    <3>1. i # j
        BY <1>1, <1>6
    <3> QED BY <1>3, <3>1
  <2>3. s[p[i]].repo # s[p[j]].repo
      BY <2>2 DEF Distinct
  <2>4. t[i].repo \in Nat /\ t[j].repo \in Nat /\ t[i].repo # t[j].repo
      BY <1>1, <1>4, <2>2, <2>3 DEF Statuses, Repos
  <2> QED BY <2>1, <2>4
<1>7. \A i \in D : \E j \in D : t[i] = s[j]
    BY <1>3, <1>4
<1> QED BY <1>4, <1>5, <1>6, <1>7
-------------------------------------------------------------------------------
(* The invariant.                                                            *)

LEMMA InitPool == ASSUME Init PROVE PoolInv
<1> USE PoolAssumption DEF Init
<1>1. TypeOK
  <2>1. fed \in 0..N /\ found \in Seq(Repos) /\ statusChan \in Seq(Statuses)
        /\ results \in Seq(Statuses)
      OBVIOUS
  <2>2. result \in [Workers -> Statuses \cup {NoStatus}]
      OBVIOUS
  <2> QED BY <2>1, <2>2 DEF TypeOK, Places, WorkerPlaces
<1>2. Progress
    BY DEF Progress
<1>3. Once
    BY DEF Once, Distinct, Has, Busy
<1>4. Truthful /\ Accounted /\ Ordered /\ Reported
    BY DEF Truthful, Accounted, Ordered, Reported, Busy
<1> QED BY <1>1, <1>2, <1>3, <1>4 DEF PoolInv
---------------------------------------------------------------------------

\* What the types say of the constants and of the sequences.
LEMMA PoolTypes ==
    ASSUME TypeOK
    PROVE  /\ N \in Nat /\ MaxWorkers \in Nat \ {0} /\ Unfinished \subseteq Repos
           /\ found \in Seq(Repos) /\ Len(found) \in Nat /\ fed \in Nat
           /\ statusChan \in Seq(Statuses) /\ Len(statusChan) \in Nat
           /\ results \in Seq(Statuses) /\ Len(results) \in Nat
BY PoolAssumption DEF TypeOK, Repos

\* A status is sound for the next state if it is now.
LEMMA SoundStays ==
    ASSUME TypeOK, NEW t, Sound(t), fed' >= fed, fed' \in Nat,
           ctxDone => ctxDone'
    PROVE  Sound(t)'
BY PoolTypes DEF Sound, Statuses, Repos

LEMMA CancelKeeps == ASSUME PoolInv, Cancel PROVE PoolInv'
<1> USE DEF Cancel, pool, PoolInv
<1>1. TypeOK'
    BY DEF TypeOK
<1>2. Progress'
    BY DEF Progress
<1>3. Once'
    BY DEF Once, Busy, Has, Distinct
<1>4. Truthful'
    BY DEF Truthful, Sound
<1>5. Accounted' /\ Ordered' /\ Reported'
    BY DEF Accounted, Ordered, Reported
<1> QED BY <1>1, <1>2, <1>3, <1>4, <1>5

LEMMA WalkKeeps == ASSUME PoolInv, Walk \/ WalkFails PROVE PoolInv'
<1> USE DEF pool, PoolInv
<1>1. /\ pc = "walk" /\ pc' \in {"walk", "walked", "cancelled"}
      /\ pc' = "walk" => pc' = pc
      /\ UNCHANGED <<dirtyOnly, ctxDone, fed, pool, statusChan, closed, results>>
    BY DEF Walk, WalkFails
<1>2. fed = 0 /\ statusChan = <<>> /\ results = <<>> /\ Len(found) <= N /\ ~closed
      /\ \A w \in Workers : worker[w] = "gone"
    BY <1>1 DEF Progress
<1>3. found' \in Seq(Repos) /\ Len(found') <= N /\ \A i \in 1..Len(found') : found'[i] = i
  <2>1. CASE found' = found
      BY <2>1 DEF TypeOK, Progress
  <2>2. CASE Len(found) # N /\ found' = Append(found, Len(found) + 1)
    <3>1. Len(found) + 1 \in Repos /\ Len(found) \in Nat /\ found \in Seq(Repos)
        BY <1>2, <2>2, PoolTypes DEF Repos
    <3>2. /\ Len(found') = Len(found) + 1 /\ found'[Len(found) + 1] = Len(found) + 1
          /\ \A i \in 1..Len(found) : found'[i] = found[i]
          /\ found' \in Seq(Repos)
        BY <2>2, <3>1
    <3> QED BY <1>2, <2>2, <3>1, <3>2, PoolTypes DEF Progress
  <2> QED BY <1>1, <2>1, <2>2 DEF Walk, WalkFails
<1>4. TypeOK'
    BY <1>1, <1>3 DEF TypeOK, Places
<1>5. pc' = "walked" /\ ~ctxDone => Len(found') = N
    BY <1>1 DEF Walk, WalkFails
<1>6. Progress'
    BY <1>1, <1>2, <1>3, <1>5, PoolTypes, <1>4 DEF Progress, TypeOK
<1>7. Once'
    BY <1>1, <1>2 DEF Once, Busy, Has, Distinct
<1>8. Truthful' /\ Accounted' /\ Ordered' /\ Reported'
    BY <1>1, <1>2 DEF Truthful, Accounted, Ordered, Reported
<1> QED BY <1>4, <1>6, <1>7, <1>8

LEMMA SpawnKeeps == ASSUME PoolInv, Spawn PROVE PoolInv'
<1> USE DEF pool, PoolInv
<1>1. /\ pc = "walked" /\ pc' \in {"feed", "collected", "cancelled"}
      /\ pc' = "collected" => found = <<>>
      /\ pc' # "feed" => worker' = worker
      /\ worker' \in [Workers -> WorkerPlaces]
      /\ \A w \in Workers : worker'[w] \in {"receive", "gone"}
      /\ UNCHANGED <<dirtyOnly, ctxDone, found, fed, holds, result, statusChan, closed,
                     results>>
    BY DEF Spawn, Progress, TypeOK, WorkerPlaces
<1>2. fed = 0 /\ statusChan = <<>> /\ results = <<>> /\ Len(found) <= N /\ ~closed
      /\ \A w \in Workers : worker[w] = "gone"
    BY <1>1 DEF Progress
<1>3. TypeOK'
    BY <1>1 DEF TypeOK, Places
<1>4. Progress'
    BY <1>1, <1>2 DEF Progress
<1>5. Once'
    BY <1>1, <1>2 DEF Once, Busy, Has, Distinct
<1>6. Truthful' /\ Accounted' /\ Ordered'
    BY <1>1, <1>2 DEF Truthful, Accounted, Ordered
<1>7. Reported'
  <2>1. ASSUME pc' = "collected", ~ctxDone PROVE Repos = {}
      BY <1>1, <2>1, PoolTypes DEF Progress, Repos
  <2> QED BY <1>1, <2>1 DEF Reported
<1> QED BY <1>3, <1>4, <1>5, <1>6, <1>7

LEMMA FeedKeeps == ASSUME PoolInv, NEW w \in Workers, Feed(w) PROVE PoolInv'
<1> USE DEF pool, PoolInv
<1> DEFINE r == fed + 1
<1>1. /\ pc = "feed" /\ worker[w] = "receive" /\ fed' = r /\ fed < Len(found)
      /\ UNCHANGED <<dirtyOnly, ctxDone, pc, found, result, statusChan, closed, results>>
      /\ worker' = [worker EXCEPT ![w] = "test"]
      /\ holds' = [holds EXCEPT ![w] = found[r]]
    BY DEF Feed
<1>2. r \in Repos /\ found[r] = r /\ r \in 1..Len(found) /\ r > fed /\ r \in Nat
    BY <1>1, PoolTypes DEF Progress, Repos
<1> HIDE DEF r
<1>3. /\ worker'[w] = "test" /\ holds'[w] = r
      /\ \A v \in Workers \ {w} : worker'[v] = worker[v] /\ holds'[v] = holds[v]
      /\ worker' \in [Workers -> WorkerPlaces]
      /\ holds' \in [Workers -> Repos \cup {Nobody}]
    BY <1>1, <1>2 DEF TypeOK, WorkerPlaces
<1>4. TypeOK'
    BY <1>1, <1>2, <1>3, PoolTypes DEF TypeOK, Progress
<1>5. Progress'
    BY <1>1, <1>2, <1>3, PoolTypes DEF Progress
<1>6. ~Has(statusChan, r) /\ ~Has(results, r)
  <2>1. \A i \in 1..Len(statusChan) : statusChan[i].repo <= fed
      BY DEF Truthful, Sound
  <2>2. \A i \in 1..Len(results) : results[i].repo <= fed
      BY DEF Truthful, Sound
  <2> QED BY <1>2, <2>1, <2>2, PoolTypes DEF Has
<1>7. Once'
  <2>1. ASSUME NEW v \in Workers, Busy(v)'
        PROVE  /\ holds'[v] \in 1..fed'
               /\ ~Has(statusChan, holds'[v]) /\ ~Has(results, holds'[v])
               /\ v # w => Busy(v) /\ holds'[v] = holds[v] /\ holds[v] \in 1..fed
    <3>1. CASE v = w
        BY <1>1, <1>2, <1>3, <1>6, <3>1
    <3>2. CASE v # w
      <4>1. Busy(v) /\ holds'[v] = holds[v]
          BY <1>3, <2>1, <3>2 DEF Busy
      <4>2. holds[v] \in 1..fed /\ ~Has(statusChan, holds[v]) /\ ~Has(results, holds[v])
          BY <4>1 DEF Once
      <4> QED BY <1>1, <1>2, <4>1, <4>2, PoolTypes
    <3> QED BY <3>1, <3>2
  <2>2. ASSUME NEW v \in Workers, NEW u \in Workers \ {v}, Busy(v)', Busy(u)'
        PROVE  holds'[u] # holds'[v]
    <3>1. CASE v = w \/ u = w
        BY <1>2, <1>3, <2>1, <2>2, <3>1, PoolTypes
    <3>2. CASE v # w /\ u # w
      <4>1. Busy(v) /\ Busy(u) /\ holds'[v] = holds[v] /\ holds'[u] = holds[u]
          BY <2>1, <2>2, <3>2
      <4> QED BY <4>1 DEF Once
    <3> QED BY <3>1, <3>2
  <2> QED BY <1>1, <2>1, <2>2 DEF Once
<1>8. Truthful'
  <2>1. \A t : Sound(t) => Sound(t)'
      BY <1>1, <1>2, PoolTypes, SoundStays
  <2>2. \A v \in Workers : worker'[v] = "send" => v # w
      BY <1>3
  <2> QED BY <1>1, <1>3, <2>1, <2>2 DEF Truthful
<1>9. Accounted'
  <2> SUFFICES ASSUME ~ctxDone, NEW q \in 1..fed', q \in Unfinished \/ ~dirtyOnly
               PROVE  \/ \E v \in Workers : Busy(v)' /\ holds'[v] = q
                      \/ Has(statusChan, q) \/ Has(results, q)
      BY <1>1 DEF Accounted
  <2>1. CASE q = r
      BY <1>3, <2>1 DEF Busy
  <2>2. CASE q # r
    <3>1. q \in 1..fed
        BY <1>1, <2>2, PoolTypes DEF r
    <3>2. CASE \E v \in Workers : Busy(v) /\ holds[v] = q
      <4>1. PICK v \in Workers : Busy(v) /\ holds[v] = q
          BY <3>2
      <4>2. v # w
          BY <1>1, <4>1 DEF Busy
      <4> QED BY <1>3, <4>1, <4>2 DEF Busy
    <3> QED BY <3>1, <3>2 DEF Accounted
  <2> QED BY <2>1, <2>2
<1>10. Ordered' /\ Reported'
    BY <1>1 DEF Ordered, Reported
<1> QED BY <1>4, <1>5, <1>7, <1>8, <1>9, <1>10

LEMMA CloseJobsKeeps == ASSUME PoolInv, CloseJobs PROVE PoolInv'
<1> USE DEF pool, PoolInv
<1>1. /\ pc = "feed" /\ pc' = "collect" /\ (fed = Len(found) \/ ctxDone)
      /\ UNCHANGED <<dirtyOnly, ctxDone, found, fed, worker, holds, result, statusChan,
                     closed, results>>
    BY DEF CloseJobs
<1>2. TypeOK'
    BY <1>1 DEF TypeOK, Places
<1>3. Progress'
    BY <1>1 DEF Progress
<1>4. Once' /\ Truthful' /\ Accounted'
    BY <1>1 DEF Once, Busy, Has, Distinct, Truthful, Sound, Accounted
<1>5. Ordered' /\ Reported'
    BY <1>1 DEF Ordered, Reported
<1> QED BY <1>2, <1>3, <1>4, <1>5

\* A worker that goes on, or gives up what it received.
LEMMA WorkerMoves ==
    ASSUME PoolInv, NEW w \in Workers, NEW p \in WorkerPlaces \ {"send"},
           worker' = [worker EXCEPT ![w] = p], worker[w] # "gone",
           p \in {"test", "check"} => Busy(w),
           ~ctxDone /\ Busy(w) => p \in {"test", "check"},
           UNCHANGED <<dirtyOnly, ctxDone, pc, found, fed, holds, result, statusChan,
                       closed, results>>
    PROVE  PoolInv'
<1> USE DEF PoolInv
<1>1. /\ worker'[w] = p /\ \A v \in Workers \ {w} : worker'[v] = worker[v]
      /\ worker' \in [Workers -> WorkerPlaces]
    BY DEF TypeOK
<1>2. \A v \in Workers : Busy(v)' => Busy(v)
    BY <1>1 DEF Busy, WorkerPlaces
<1>3. TypeOK'
    BY <1>1 DEF TypeOK
<1>4. Progress'
    BY <1>1 DEF Progress
<1>5. Once'
    BY <1>2 DEF Once, Has, Distinct
<1>6. Truthful'
    BY <1>1 DEF Truthful, Sound
<1>7. Accounted'
  <2> SUFFICES ASSUME ~ctxDone, NEW q \in 1..fed, q \in Unfinished \/ ~dirtyOnly,
                      NEW v \in Workers, Busy(v), holds[v] = q
               PROVE  \E u \in Workers : Busy(u)' /\ holds[u] = q
      BY DEF Accounted
  <2>1. Busy(v)'
      BY <1>1 DEF Busy
  <2> QED BY <2>1
<1>8. Ordered' /\ Reported'
    BY DEF Ordered, Reported
<1> QED BY <1>3, <1>4, <1>5, <1>6, <1>7, <1>8

LEMMA TestKeeps == ASSUME PoolInv, NEW w \in Workers, Test(w) PROVE PoolInv'
<1> DEFINE p == IF ctxDone THEN "receive" ELSE "check"
<1>1. p \in WorkerPlaces \ {"send"}
    BY DEF WorkerPlaces
<1>2. Busy(w) /\ worker[w] # "gone"
    BY DEF Test, Busy
<1> QED BY <1>1, <1>2, WorkerMoves DEF Test

LEMMA ExitKeeps == ASSUME PoolInv, NEW w \in Workers, Exit(w) PROVE PoolInv'
<1>1. "gone" \in WorkerPlaces \ {"send"}
    BY DEF WorkerPlaces
<1>2. ~Busy(w) /\ worker[w] # "gone"
    BY DEF Exit, Busy
<1> QED BY <1>1, <1>2, WorkerMoves DEF Exit

LEMMA CheckKeeps == ASSUME PoolInv, NEW w \in Workers, Check(w) PROVE PoolInv'
<1> USE DEF PoolInv
<1>1. PICK v \in Reports(holds[w]) :
          result' = [result EXCEPT ![w] = [repo |-> holds[w], verdict |-> v]]
    BY DEF Check
<1> DEFINE t == [repo |-> holds[w], verdict |-> v]
<1>2. /\ worker[w] = "check" /\ worker' = [worker EXCEPT ![w] = "send"] /\ Busy(w)
      /\ UNCHANGED <<dirtyOnly, ctxDone, pc, found, fed, holds, statusChan, closed, results>>
    BY DEF Check, Busy
<1>3. holds[w] \in 1..fed /\ holds[w] \in Repos
    BY <1>2, PoolTypes DEF Once, TypeOK, Nobody, Progress, Repos
<1>4. t \in Statuses /\ Sound(t) /\ t.repo = holds[w]
    BY <1>3, PoolTypes DEF Reports, Statuses, Verdicts, Sound
<1> HIDE DEF t
<1>5. /\ worker'[w] = "send" /\ result'[w] = t
      /\ \A u \in Workers \ {w} : worker'[u] = worker[u] /\ result'[u] = result[u]
      /\ worker' \in [Workers -> WorkerPlaces]
      /\ result' \in [Workers -> Statuses \cup {NoStatus}]
    BY <1>1, <1>2, <1>4 DEF TypeOK, WorkerPlaces, t
<1>6. \A u \in Workers : Busy(u)' <=> Busy(u)
    BY <1>2, <1>5 DEF Busy
<1>7. TypeOK'
    BY <1>2, <1>5 DEF TypeOK
<1>8. Progress'
    BY <1>2, <1>5 DEF Progress
<1>9. Once' /\ Accounted'
    BY <1>2, <1>6 DEF Once, Accounted, Has, Distinct
<1>10. Truthful'
    BY <1>2, <1>4, <1>5 DEF Truthful, Sound
<1>11. Ordered' /\ Reported'
    BY <1>2 DEF Ordered, Reported
<1> QED BY <1>7, <1>8, <1>9, <1>10, <1>11

LEMMA SendKeeps == ASSUME PoolInv, NEW w \in Workers, Send(w) PROVE PoolInv'
<1> USE DEF PoolInv
<1> DEFINE t == result[w]
           r == holds[w]
<1>1. /\ worker[w] = "send" /\ worker' = [worker EXCEPT ![w] = "receive"] /\ Busy(w)
      /\ statusChan' = Append(statusChan, t)
      /\ UNCHANGED <<dirtyOnly, ctxDone, pc, found, fed, holds, result, closed, results>>
    BY DEF Send, Busy
<1>2. /\ Sound(t) /\ t \in Statuses /\ t.repo = r /\ r \in Repos
      /\ ~Has(statusChan, r) /\ ~Has(results, r) /\ r \in 1..fed
    BY <1>1 DEF Truthful, Sound, Once, Statuses
<1>3. /\ statusChan' \in Seq(Statuses) /\ Distinct(statusChan')
      /\ \A q : Has(statusChan', q) <=> Has(statusChan, q) \/ q = r
      /\ \A i \in 1..Len(statusChan') :
            statusChan'[i] = t \/ \E j \in 1..Len(statusChan) : statusChan'[i] = statusChan[j]
    BY <1>1, <1>2, PoolTypes, AppendStatus DEF Once
<1>4. /\ worker'[w] = "receive" /\ \A v \in Workers \ {w} : worker'[v] = worker[v]
      /\ worker' \in [Workers -> WorkerPlaces]
    BY <1>1 DEF TypeOK, WorkerPlaces
<1>5. \A v \in Workers : Busy(v)' <=> Busy(v) /\ v # w
    BY <1>4 DEF Busy
<1>6. TypeOK'
    BY <1>1, <1>3, <1>4 DEF TypeOK
<1>7. Progress'
  <2>1. pc \in {"feed", "collect"} /\ ~closed
      BY <1>1 DEF Progress
  <2> QED BY <1>1, <2>1 DEF Progress
<1> HIDE DEF t, r
<1>8. Once'
  <2>1. \A v \in Workers : Busy(v)' =>
           holds[v] \in 1..fed /\ ~Has(statusChan', holds[v]) /\ ~Has(results, holds[v])
      BY <1>1, <1>3, <1>5 DEF Once, r
  <2>2. \A q \in Repos : ~(Has(statusChan', q) /\ Has(results, q))
      BY <1>2, <1>3 DEF Once
  <2>3. \A v \in Workers : Busy(v)' =>
           \A u \in Workers \ {v} : Busy(u)' => holds[u] # holds[v]
      BY <1>5 DEF Once
  <2>4. Distinct(results)
      BY DEF Once
  <2> QED BY <1>1, <1>3, <2>1, <2>2, <2>3, <2>4 DEF Once
<1>9. Truthful'
  <2>1. \A q : Sound(q) => Sound(q)'
      BY <1>1 DEF Sound
  <2> QED BY <1>1, <1>2, <1>3, <1>4, <2>1 DEF Truthful
<1>10. Accounted'
  <2> SUFFICES ASSUME ~ctxDone, NEW q \in 1..fed, q \in Unfinished \/ ~dirtyOnly
               PROVE  \/ \E v \in Workers : Busy(v)' /\ holds[v] = q
                      \/ Has(statusChan', q) \/ Has(results, q)
      BY <1>1 DEF Accounted
  <2>1. CASE q = r
      BY <1>3, <2>1
  <2>2. CASE q # r
      BY <1>3, <1>5, <2>2 DEF Accounted, r
  <2> QED BY <2>1, <2>2
<1>11. Ordered' /\ Reported'
    BY <1>1 DEF Ordered, Reported
<1> QED BY <1>6, <1>7, <1>8, <1>9, <1>10, <1>11

LEMMA CloseStatusesKeeps == ASSUME PoolInv, CloseStatuses PROVE PoolInv'
<1> USE DEF pool, PoolInv
<1>1. /\ pc = "collect" /\ \A w \in Workers : worker[w] = "gone"
      /\ closed' = TRUE
      /\ UNCHANGED <<dirtyOnly, ctxDone, pc, found, fed, worker, holds, result, statusChan,
                     results>>
    BY DEF CloseStatuses, WorkersGone
<1>2. TypeOK'
    BY <1>1 DEF TypeOK
<1>3. Progress'
    BY <1>1 DEF Progress
<1>4. Once' /\ Truthful' /\ Accounted'
    BY <1>1 DEF Once, Busy, Has, Distinct, Truthful, Sound, Accounted
<1>5. Ordered' /\ Reported'
    BY <1>1 DEF Ordered, Reported
<1> QED BY <1>2, <1>3, <1>4, <1>5

LEMMA CollectKeeps == ASSUME PoolInv, Collect PROVE PoolInv'
<1> USE DEF pool, PoolInv
<1> DEFINE t == Head(statusChan)
<1>1. /\ pc = "collect" /\ statusChan # <<>> /\ statusChan' = Tail(statusChan)
      /\ results' = IF Kept(t) THEN Append(results, t) ELSE results
      /\ UNCHANGED <<dirtyOnly, ctxDone, pc, found, fed, worker, holds, result, closed>>
    BY DEF Collect
<1>2. /\ statusChan' \in Seq(Statuses) /\ Distinct(statusChan') /\ t \in Statuses
      /\ \A q : Has(statusChan', q) => Has(statusChan, q) /\ q # t.repo
      /\ \A q : Has(statusChan, q) => Has(statusChan', q) \/ q = t.repo
      /\ \A i \in 1..Len(statusChan') : \E j \in 1..Len(statusChan) : statusChan'[i] = statusChan[j]
      /\ Has(statusChan, t.repo) /\ Sound(t) /\ t.repo \in Repos
  <2>1. Distinct(statusChan)
      BY DEF Once
  <2>2. Sound(t)
    <3>1. 1 \in 1..Len(statusChan) /\ t = statusChan[1]
        BY <1>1, PoolTypes, TailStatus
    <3> QED BY <3>1 DEF Truthful
  <2>3. t.repo \in Repos
      BY <2>2 DEF Sound, Statuses
  <2> QED BY <1>1, <2>1, <2>2, <2>3, PoolTypes, TailStatus
<1> HIDE DEF t
<1>3. ~Has(results, t.repo)
    BY <1>2 DEF Once
<1>4. /\ results' \in Seq(Statuses) /\ Distinct(results')
      /\ \A q : Has(results', q) => Has(results, q) \/ q = t.repo
      /\ \A q : Has(results, q) => Has(results', q)
      /\ Kept(t) => Has(results', t.repo)
      /\ \A i \in 1..Len(results') :
            results'[i] = t \/ \E j \in 1..Len(results) : results'[i] = results[j]
  <2>1. Distinct(results)
      BY DEF Once
  <2>2. CASE Kept(t)
      BY <1>1, <1>2, <1>3, <2>1, <2>2, PoolTypes, AppendStatus
  <2>3. CASE ~Kept(t)
      BY <1>1, <2>1, <2>3, PoolTypes
  <2> QED BY <2>2, <2>3
<1>5. TypeOK'
    BY <1>1, <1>2, <1>4 DEF TypeOK
<1>6. Progress'
    BY <1>1 DEF Progress
<1>7. Once'
  <2>1. \A q \in Repos : ~(Has(statusChan', q) /\ Has(results', q))
      BY <1>2, <1>4 DEF Once
  <2>2. \A v \in Workers : Busy(v) =>
           /\ holds[v] \in 1..fed
           /\ ~Has(statusChan', holds[v]) /\ ~Has(results', holds[v])
           /\ \A u \in Workers \ {v} : Busy(u) => holds[u] # holds[v]
      BY <1>2, <1>4 DEF Once
  <2>3. \A v \in Workers : Busy(v)' <=> Busy(v)
      BY <1>1 DEF Busy
  <2> QED BY <1>1, <1>2, <1>4, <2>1, <2>2, <2>3 DEF Once
<1>8. Truthful'
  <2>1. \A q : Sound(q) => Sound(q)'
      BY <1>1 DEF Sound
  <2> QED BY <1>1, <1>2, <1>4, <2>1 DEF Truthful
<1>9. Accounted'
  <2> SUFFICES ASSUME ~ctxDone, NEW q \in 1..fed, q \in Unfinished \/ ~dirtyOnly
               PROVE  \/ \E v \in Workers : Busy(v)' /\ holds[v] = q
                      \/ Has(statusChan', q) \/ Has(results', q)
      BY <1>1 DEF Accounted
  <2>1. CASE q = t.repo
    <3>1. Kept(t)
        BY <1>2, <2>1 DEF Kept, Sound
    <3> QED BY <1>4, <2>1, <3>1
  <2>2. CASE q # t.repo
    <3>1. CASE \E v \in Workers : Busy(v) /\ holds[v] = q
        BY <1>1, <3>1 DEF Busy
    <3> QED BY <1>2, <1>4, <2>2, <3>1 DEF Accounted
  <2> QED BY <2>1, <2>2
<1>10. Ordered' /\ Reported'
    BY <1>1 DEF Ordered, Reported
<1> QED BY <1>5, <1>6, <1>7, <1>8, <1>9, <1>10

LEMMA EndCollectKeeps == ASSUME PoolInv, EndCollect PROVE PoolInv'
<1> USE DEF pool, PoolInv
<1>1. /\ pc = "collect" /\ statusChan = <<>> /\ closed /\ pc' = "collected"
      /\ Sorted(results, results')
      /\ UNCHANGED <<dirtyOnly, ctxDone, found, fed, worker, holds, result, statusChan, closed>>
    BY DEF EndCollect
<1>2. /\ results' \in Seq(Statuses)
      /\ \A r : Has(results, r) <=> Has(results', r)
      /\ \A i, j \in 1..Len(results') : i < j => results'[i].repo < results'[j].repo
      /\ \A i \in 1..Len(results') : \E j \in 1..Len(results) : results'[i] = results[j]
  <2>1. Distinct(results)
      BY DEF Once
  <2> QED BY <1>1, <2>1, PoolTypes, SortedStatus
<1>3. \A w \in Workers : worker[w] = "gone" /\ ~Busy(w)
    BY <1>1 DEF Progress, Busy
<1>4. TypeOK'
    BY <1>1, <1>2 DEF TypeOK, Places
<1>5. Progress'
    BY <1>1, <1>3 DEF Progress
<1>6. Once'
  <2>1. Distinct(results')
    <3>1. SUFFICES ASSUME NEW i \in 1..Len(results'), NEW j \in 1..Len(results'), i # j
                   PROVE  results'[i].repo # results'[j].repo
        BY DEF Distinct
    <3>2. results'[i].repo \in Nat /\ results'[j].repo \in Nat
      <4>1. results'[i] \in Statuses /\ results'[j] \in Statuses
          BY <1>2
      <4> QED BY <4>1, PoolTypes, PoolAssumption DEF Statuses, Repos
    <3> QED BY <1>2, <3>1, <3>2
  <2>2. \A r : ~Has(statusChan', r)
      BY <1>1 DEF Has
  <2>3. \A w \in Workers : ~Busy(w)'
      BY <1>1, <1>3 DEF Busy
  <2> QED BY <1>1, <2>1, <2>2, <2>3 DEF Once
<1>7. Truthful'
  <2>1. \A q : Sound(q) => Sound(q)'
      BY <1>1 DEF Sound
  <2> QED BY <1>1, <1>2, <1>3, <2>1 DEF Truthful
<1>8. ASSUME ~ctxDone, NEW r \in 1..fed, r \in Unfinished \/ ~dirtyOnly
      PROVE  Has(results', r)
  <2>1. ~Has(statusChan, r)
      BY <1>1 DEF Has
  <2> QED BY <1>2, <1>3, <1>8, <2>1 DEF Accounted
<1>9. Accounted'
    BY <1>1, <1>8 DEF Accounted
<1>10. Ordered'
    BY <1>2 DEF Ordered
<1>11. Reported'
  <2>1. ~ctxDone => fed = N
      BY <1>1 DEF Progress
  <2> QED BY <1>1, <1>8, <2>1, PoolTypes DEF Reported, Repos
<1> QED BY <1>4, <1>5, <1>6, <1>7, <1>9, <1>10, <1>11

LEMMA FinishKeeps == ASSUME PoolInv, Finish PROVE PoolInv'
<1> USE DEF pool, PoolInv
<1>1. /\ pc = "collected" /\ pc' = IF ctxDone THEN "cancelled" ELSE "published"
      /\ UNCHANGED <<dirtyOnly, ctxDone, found, fed, worker, holds, result, statusChan,
                     closed, results>>
    BY DEF Finish, CutShort
<1>2. TypeOK'
    BY <1>1 DEF TypeOK, Places
<1>3. Progress'
    BY <1>1 DEF Progress
<1>4. Once' /\ Truthful' /\ Accounted'
    BY <1>1 DEF Once, Busy, Has, Distinct, Truthful, Sound, Accounted
<1>5. Ordered' /\ Reported'
    BY <1>1 DEF Ordered, Reported
<1> QED BY <1>2, <1>3, <1>4, <1>5

LEMMA StutterKeepsPool == ASSUME PoolInv, UNCHANGED vars PROVE PoolInv'
<1> USE DEF vars, pool, PoolInv
<1>1. TypeOK' /\ Progress' /\ Ordered' /\ Reported'
    BY DEF TypeOK, Progress, Ordered, Reported
<1>2. Once' /\ Truthful' /\ Accounted'
    BY DEF Once, Busy, Has, Distinct, Truthful, Sound, Accounted
<1> QED BY <1>1, <1>2

LEMMA NextPool == ASSUME PoolInv, [Next]_vars PROVE PoolInv'
<1>1. CASE Main
    BY <1>1, WalkKeeps, SpawnKeeps, FeedKeeps, CloseJobsKeeps, CollectKeeps,
       EndCollectKeeps, FinishKeeps DEF Main
<1>2. CASE CloseStatuses \/ Cancel
    BY <1>2, CloseStatusesKeeps, CancelKeeps
<1>3. CASE \E w \in Workers : Work(w)
    BY <1>3, TestKeeps, CheckKeeps, SendKeeps, ExitKeeps DEF Work
<1>4. CASE Done \/ UNCHANGED vars
    BY <1>4, StutterKeepsPool DEF Done
<1> QED BY <1>1, <1>2, <1>3, <1>4 DEF Next
-------------------------------------------------------------------------------
\* In every state of a scan the invariant of the pool holds: until the context
\* ends, a repository that was fed is with one worker, in the status channel, in
\* the results, or filtered out as clean (agent.go:268-321).
THEOREM PoolCorrect == Spec => []PoolInv
<1>1. Init => PoolInv
    BY InitPool
<1>2. PoolInv /\ [Next]_vars => PoolInv'
    BY NextPool
<1> QED BY <1>1, <1>2, PTL DEF Spec

\* Whatever the number of repositories and workers, and wherever the deadline
\* fell, a scan that is published is whole, sorted, and no check in it was cut
\* short (agent.go:245-263).
THEOREM WholeScanCorrect == Spec => []WholeScan
<1>1. PoolInv => WholeScan
  <2> SUFFICES ASSUME PoolInv, pc = "published" PROVE WholeScan
      BY DEF WholeScan
  <2>1. ~ctxDone
      BY DEF PoolInv, Progress
  <2>2. \A i \in 1..Len(results) : results[i].verdict # "cancelled"
      BY <2>1 DEF PoolInv, Truthful, Sound
  <2>3. \A i, j \in 1..Len(results) : i < j => results[i].repo < results[j].repo
      BY DEF PoolInv, Ordered
  <2>4. \A r \in Repos : r \in Unfinished \/ ~dirtyOnly => Has(results, r)
      BY <2>1 DEF PoolInv, Reported
  <2> QED BY <2>2, <2>3, <2>4 DEF WholeScan, Has
<1> QED BY <1>1, PoolCorrect, PTL

\* No worker is left that could send on the status channel once it is closed
\* (agent.go:305-308).
THEOREM NoSendOnClosedCorrect == Spec => []NoSendOnClosed
<1>1. PoolInv => NoSendOnClosed
    BY DEF PoolInv, Progress, NoSendOnClosed
<1> QED BY <1>1, PoolCorrect, PTL
===============================================================================
