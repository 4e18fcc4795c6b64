------------------------------- MODULE ScanPool -------------------------------
(* One scan of a machine (publishAgentSnapshot and checkRepoStatuses in       *)
(* agent.go): the walk that finds the repositories, the goroutine that feeds  *)
(* them to a pool of workers and then collects their statuses, the workers,   *)
(* the goroutine that closes the status channel, and a deadline that may fire *)
(* between any two of their steps.                                            *)
EXTENDS Naturals, Sequences, SequencesExt

CONSTANTS
    N,           \* the repositories the walk can reach are 1..N, in path order
    MaxWorkers,  \* gitexec.ResolvedMaxWorkers
    Unfinished   \* the repositories that need attention

ASSUME PoolAssumption ==
    /\ N \in Nat /\ MaxWorkers \in Nat \ {0}
    /\ Unfinished \subseteq 1..N

Repos == 1..N

Workers == 1..MaxWorkers

\* What a check reports.  cancelled: the error of a check cut short.
Verdicts == {"clean", "attention", "cancelled"}

Statuses == [repo : Repos, verdict : Verdicts]

Nobody == 0   \* the repository of a worker that has none

VARIABLES
    dirtyOnly, \* keep only what needs attention in the report
    ctxDone,  \* the tick's context is cancelled or past its deadline
    pc,       \* where the goroutine of the tick is
    found,    \* the repositories found by the walk
    fed,      \* how many of them were sent on jobs (jobs is unbuffered)
    worker,   \* per worker: receiving, testing the context, checking, sending, gone
    holds,    \* per worker, the repository it received
    result,   \* per worker, the status it is about to send
    statusChan, closed,   \* the status channel, and whether it is closed
    results   \* the statuses collected, and in the end the report

vars == <<dirtyOnly, ctxDone, pc, found, fed, worker, holds, result, statusChan, closed,
          results>>

pool == <<worker, holds, result>>

Places == {"walk", "walked", "feed", "collect", "collected", "published",
           "cancelled"}

WorkerPlaces == {"receive", "test", "check", "send", "gone"}

NoStatus == [repo |-> Nobody, verdict |-> "clean"]
-------------------------------------------------------------------------------
Init ==
    /\ dirtyOnly \in BOOLEAN
    /\ ctxDone = FALSE
    /\ pc = "walk"
    /\ found = <<>>
    /\ fed = 0
    /\ worker = [w \in Workers |-> "gone"]
    /\ holds = [w \in Workers |-> Nobody]
    /\ result = [w \in Workers |-> NoStatus]
    /\ statusChan = <<>>
    /\ closed = FALSE
    /\ results = <<>>

\* The deadline fires, or the process is told to stop.
Cancel ==
    /\ ~ctxDone /\ pc \notin {"published", "cancelled"}
    /\ ctxDone' = TRUE
    /\ UNCHANGED <<dirtyOnly, pc, found, fed, pool, statusChan, closed,
                   results>>

\* The walk visits one repository; cancelled, it stops and keeps what it found.
Walk ==
    /\ pc = "walk"
    /\ IF ctxDone \/ Len(found) = N
       THEN pc' = "walked" /\ UNCHANGED found
       ELSE found' = Append(found, Len(found) + 1) /\ UNCHANGED pc
    /\ UNCHANGED <<dirtyOnly, ctxDone, fed, pool, statusChan, closed, results>>

\* The scan root is missing, unreadable or not a directory.
WalkFails ==
    /\ pc = "walk" /\ found = <<>>
    /\ pc' = "cancelled"
    /\ UNCHANGED <<dirtyOnly, ctxDone, found, fed, pool, statusChan, closed,
                   results>>

\* RepoCheckWorkerCount
WorkerCount == IF Len(found) < MaxWorkers THEN Len(found) ELSE MaxWorkers

\* The context is tested between the walk and the checks.
Cancelled == ctxDone

\* The workers start; with no repository there is nothing to check.
Spawn ==
    /\ pc = "walked"
    /\ IF Cancelled THEN pc' = "cancelled" /\ UNCHANGED worker
       ELSE IF found = <<>> THEN pc' = "collected" /\ UNCHANGED worker
       ELSE /\ pc' = "feed"
            /\ worker' = [w \in Workers |-> IF w <= WorkerCount THEN "receive"
                                            ELSE "gone"]
    /\ UNCHANGED <<dirtyOnly, ctxDone, found, fed, holds, result, statusChan,
                   closed, results>>

\* jobs <- repo meets a worker that receives.
Feed(w) ==
    /\ pc = "feed" /\ fed < Len(found)
    /\ worker[w] = "receive"
    /\ fed' = fed + 1
    /\ worker' = [worker EXCEPT ![w] = "test"]
    /\ holds' = [holds EXCEPT ![w] = found[fed + 1]]
    /\ UNCHANGED <<dirtyOnly, ctxDone, pc, found, result, statusChan, closed,
                   results>>

\* The feed ends, at the last repository or cancelled; jobs is closed.
CloseJobs ==
    /\ pc = "feed"
    /\ fed = Len(found) \/ ctxDone
    /\ pc' = "collect"
    /\ UNCHANGED <<dirtyOnly, ctxDone, found, fed, pool, statusChan, closed,
                   results>>

\* A worker tests the context before it checks what it received.
Test(w) ==
    /\ worker[w] = "test"
    /\ worker' = [worker EXCEPT ![w] = IF ctxDone THEN "receive" ELSE "check"]
    /\ UNCHANGED <<dirtyOnly, ctxDone, pc, found, fed, holds, result,
                   statusChan, closed, results>>

\* What a check of repository r may report: the truth, an error of git (which
\* needs attention), and an error when the context ended meanwhile.
Reports(r) ==
    {IF r \in Unfinished THEN "attention" ELSE "clean", "attention"}
        \cup IF ctxDone THEN {"cancelled"} ELSE {}

Check(w) ==
    /\ worker[w] = "check"
    /\ \E v \in Reports(holds[w]) :
           result' = [result EXCEPT ![w] = [repo |-> holds[w], verdict |-> v]]
    /\ worker' = [worker EXCEPT ![w] = "send"]
    /\ UNCHANGED <<dirtyOnly, ctxDone, pc, found, fed, holds, statusChan,
                   closed, results>>

\* Mutant: the status channel holds one status.
SmallCapacity == 1

\* make(chan RepoSnapshot, len(repos))
Capacity == Len(found)

Send(w) ==
    /\ worker[w] = "send"
    /\ Len(statusChan) < Capacity
    /\ statusChan' = Append(statusChan, result[w])
    /\ worker' = [worker EXCEPT ![w] = "receive"]
    /\ UNCHANGED <<dirtyOnly, ctxDone, pc, found, fed, holds, result, closed,
                   results>>

\* jobs is closed: the worker's range loop ends.
Exit(w) ==
    /\ worker[w] = "receive" /\ pc = "collect"
    /\ worker' = [worker EXCEPT ![w] = "gone"]
    /\ UNCHANGED <<dirtyOnly, ctxDone, pc, found, fed, holds, result,
                   statusChan, closed, results>>

\* Mutant: the channel is closed when the feed ends.
FeedEnded == pc = "collect"

\* wg.Wait returns.
WorkersGone == pc = "collect" /\ \A w \in Workers : worker[w] = "gone"

CloseStatuses ==
    /\ ~closed /\ WorkersGone
    /\ closed' = TRUE
    /\ UNCHANGED <<dirtyOnly, ctxDone, pc, found, fed, pool, statusChan,
                   results>>

\* Mutant: the filter is inverted.
KeptClean(s) == ~dirtyOnly \/ s.verdict = "clean"

\* snapshotNeedsAttention
Kept(s) == ~dirtyOnly \/ s.verdict # "clean"

Collect ==
    /\ pc = "collect" /\ statusChan # <<>>
    /\ statusChan' = Tail(statusChan)
    /\ results' = IF Kept(Head(statusChan)) THEN Append(results, Head(statusChan))
                  ELSE results
    /\ UNCHANGED <<dirtyOnly, ctxDone, pc, found, fed, pool, closed>>

\* sort.Slice: t is some reordering of s by path; of equal paths any may be first.
Sorted(s, t) ==
    /\ \E p \in Bijection(DOMAIN s, DOMAIN s) : t = [k \in DOMAIN s |-> s[p[k]]]
    /\ \A i, j \in DOMAIN s : i < j => t[i].repo <= t[j].repo

\* The range over the status channel ends; the results are sorted by path.
EndCollect ==
    /\ pc = "collect" /\ statusChan = <<>> /\ closed
    /\ pc' = "collected"
    /\ results' \in [DOMAIN results -> Range(results)] /\ Sorted(results, results')
    /\ UNCHANGED <<dirtyOnly, ctxDone, found, fed, pool, statusChan, closed>>

\* Mutant: the context is not tested again after the checks.
NeverCut == FALSE

\* The context is tested again after the checks.
CutShort == ctxDone

\* The scan is published, or thrown away.
Finish ==
    /\ pc = "collected"
    /\ pc' = IF CutShort THEN "cancelled" ELSE "published"
    /\ UNCHANGED <<dirtyOnly, ctxDone, found, fed, pool, statusChan, closed,
                   results>>

Done == pc \in {"published", "cancelled"} /\ UNCHANGED vars
-------------------------------------------------------------------------------
\* The goroutine of the tick on its own; one worker.
Main ==
    \/ Walk \/ WalkFails \/ Spawn \/ (\E w \in Workers : Feed(w)) \/ CloseJobs
    \/ Collect \/ EndCollect \/ Finish

Work(w) == Test(w) \/ Check(w) \/ Send(w) \/ Exit(w)

Next ==
    \/ Main \/ CloseStatuses \/ Cancel \/ Done
    \/ \E w \in Workers : Work(w)

Spec == Init /\ [][Next]_vars

\* Go runs every goroutine that is not blocked.
FairSpec ==
    /\ Spec
    /\ WF_vars(Main) /\ WF_vars(CloseStatuses)
    /\ \A w \in Workers : WF_vars(Work(w))
-------------------------------------------------------------------------------
TypeOK ==
    /\ dirtyOnly \in BOOLEAN
    /\ ctxDone \in BOOLEAN
    /\ pc \in Places
    /\ found \in Seq(Repos)
    /\ fed \in 0..N
    /\ worker \in [Workers -> WorkerPlaces]
    /\ holds \in [Workers -> Repos \cup {Nobody}]
    /\ result \in [Workers -> Statuses \cup {NoStatus}]
    /\ statusChan \in Seq(Statuses)
    /\ closed \in BOOLEAN
    /\ results \in Seq(Statuses)

\* Repository r has a status in s.
Has(s, r) == \E i \in 1..Len(s) : s[i].repo = r

Distinct(s) == \A i, j \in 1..Len(s) : i # j => s[i].repo # s[j].repo

\* A worker that received a repository is not done with it.
Busy(w) == worker[w] \in {"test", "check", "send"}

\* A status that may be collected: of a repository that was fed, no "clean" of one
\* that needs attention, and no cut of its check unless the context ended.
Sound(t) ==
    /\ t \in Statuses /\ t.repo <= fed
    /\ t.repo \in Unfinished => t.verdict # "clean"
    /\ t.verdict = "cancelled" => ctxDone

\* How far the goroutine of the tick is, with what is found, fed and closed.
Progress ==
    /\ Len(found) <= N /\ fed <= Len(found)
    /\ \A i \in 1..Len(found) : found[i] = i
    /\ pc \in {"walk", "walked"} => fed = 0 /\ statusChan = <<>> /\ results = <<>>
    /\ pc \notin {"walk", "cancelled"} /\ ~ctxDone => Len(found) = N
    /\ pc \in {"collect", "collected"} /\ ~ctxDone => fed = Len(found)
    /\ pc \notin {"feed", "collect"} \/ closed =>
           \A w \in Workers : worker[w] = "gone"
    /\ closed => pc \notin {"walk", "walked", "feed"}
    /\ pc = "published" => ~ctxDone

\* No repository is with two workers, or has two statuses.
Once ==
    /\ Distinct(statusChan) /\ Distinct(results)
    /\ \A r \in Repos : ~(Has(statusChan, r) /\ Has(results, r))
    /\ \A w \in Workers : Busy(w) =>
           /\ holds[w] \in 1..fed
           /\ ~Has(statusChan, holds[w]) /\ ~Has(results, holds[w])
           /\ \A v \in Workers \ {w} : Busy(v) => holds[v] # holds[w]

Truthful ==
    /\ \A w \in Workers :
           worker[w] = "send" => Sound(result[w]) /\ result[w].repo = holds[w]
    /\ \A i \in 1..Len(statusChan) : Sound(statusChan[i])
    /\ \A i \in 1..Len(results) : Sound(results[i])

\* No repository that belongs in the report is lost while the context lasts.
Accounted ==
    ~ctxDone => \A r \in 1..fed :
        r \in Unfinished \/ ~dirtyOnly =>
            \/ \E w \in Workers : Busy(w) /\ holds[w] = r
            \/ Has(statusChan, r) \/ Has(results, r)

Ordered ==
    pc \in {"collected", "published"} =>
        \A i, j \in 1..Len(results) : i < j => results[i].repo < results[j].repo

\* All reported once the pool is done.
Reported ==
    pc \in {"collected", "published"} /\ ~ctxDone =>
        \A r \in Repos : r \in Unfinished \/ ~dirtyOnly => Has(results, r)

\* The invariant behind the two below: a repository that is fed is in one place,
\* until the context ends.
PoolInv ==
    TypeOK /\ Progress /\ Once /\ Truthful /\ Accounted /\ Ordered /\ Reported

\* What is published is whole: one status of every repository under the root
\* (of every one that needs attention, for a filtered report), in path order,
\* none of them of a check cut short, wherever the deadline fell (agent.go:254-260).
WholeScan ==
    pc = "published" =>
        /\ \A i \in 1..Len(results) : results[i].verdict # "cancelled"
        /\ \A i, j \in 1..Len(results) : i < j => results[i].repo < results[j].repo
        /\ \A r \in Repos :
               r \in Unfinished \/ ~dirtyOnly =>
                   \E i \in 1..Len(results) : results[i].repo = r

\* No worker sends on the closed status channel, which would be a panic.
NoSendOnClosed == closed => \A w \in Workers : worker[w] \notin {"test", "check", "send"}

\* Every scan ends, published or not: no goroutine waits for another forever
\* (agent.go:277, the capacity of the status channel).
ScanEnds == <>(pc \in {"published", "cancelled"})
===============================================================================
