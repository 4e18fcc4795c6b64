-------------------------------- MODULE Cadence -------------------------------
(* The agent's loop in time (agent.go): a ticker that holds one tick back when *)
(* the loop is late and drops the others, ticks that take up to their deadline, *)
(* the heartbeat that decides whether an unchanged report is published again,  *)
(* the streak of failed ticks that is said to the log, and stale_ttl, by which *)
(* viewers judge the age of what was published.  Time is discrete; ages grow   *)
(* together.  What a tick does to the clone in detail is the matter of         *)
(* StateSync; of it there remains whether a rebase is stuck: one that          *)
(* `git rebase --abort` does not end, and on whose HEAD commits are lost.      *)
EXTENDS Naturals

CONSTANTS
    Interval, Heartbeat, StaleTTL, TickTimeout,   \* the four durations
    EscalateAfter, RepeatEvery                    \* in failed ticks

ASSUME CadenceAssumption ==
    /\ {Interval, StaleTTL, TickTimeout, EscalateAfter, RepeatEvery} \subseteq Nat \ {0}
    /\ Heartbeat \in 1..StaleTTL

\* Ages are told apart up to the first one that is stale.
Ages == 0..(StaleTTL + 1)

VARIABLES
    ticker,    \* time until the ticker fires
    pending,   \* a tick is buffered in its channel
    tick,      \* what the loop does: waits, scans, decides, pushes
    spent,     \* time since the tick began
    built,     \* age of the snapshot of this tick (UpdatedAt)
    file,      \* age of the snapshot in the worktree
    branch,    \* age of the one committed on the branch
    pub,       \* age of the one peers can read
    stuck,     \* the clone is in a rebase that cannot be aborted
    count,     \* failed ticks of the streak, RepeatEvery ones cancelled out
    said,      \* an ERROR was logged since the last publish
    mishaps    \* what happened since the last publish

cadenceVars == <<ticker, pending, tick, spent, built, file, branch, pub, stuck,
                 count, said, mishaps>>

time == <<ticker, pending>>

clone == <<file, branch, pub>>

Older(a) == IF a > StaleTTL THEN a ELSE a + 1

\* The agent starts on a machine that has not published yet: a tick at once.
CadenceInit ==
    /\ ticker = Interval /\ pending = FALSE
    /\ tick = "scan" /\ spent = 0 /\ built = 0
    /\ file = StaleTTL + 1 /\ branch = StaleTTL + 1 /\ pub = StaleTTL + 1
    /\ stuck = FALSE /\ count = 0 /\ said = FALSE
    /\ mishaps = {"new"}
-------------------------------------------------------------------------------
\* Mutant: the deadline of the tick is forgotten.
NoDeadline == TRUE

\* context.WithTimeout: the tick has ended when its time is up.
WithinDeadline == spent < TickTimeout

\* Time passes, unless the loop has something to do at once.
Advance ==
    /\ IF tick = "wait" THEN ~pending ELSE WithinDeadline
    /\ ticker' = IF ticker = 1 THEN Interval ELSE ticker - 1
    /\ pending' = (pending \/ ticker = 1)
    /\ spent' = IF tick = "wait" THEN 0 ELSE Older(spent)
    /\ built' = IF tick \in {"wait", "scan"} THEN 0 ELSE Older(built)
    /\ file' = Older(file) /\ branch' = Older(branch) /\ pub' = Older(pub)
    /\ UNCHANGED <<tick, stuck, count, said, mishaps>>

\* The loop receives from the ticker's channel.
Receive ==
    /\ tick = "wait" /\ pending
    /\ tick' = "scan" /\ pending' = FALSE /\ spent' = 0 /\ built' = 0
    /\ UNCHANGED <<ticker, clone, stuck, count, said, mishaps>>
-------------------------------------------------------------------------------
(* The streak, and how a tick ends.                                          *)

\* Mutant: the first ERROR comes as late as the later ones.
EscalatesLate(n) == n = EscalateAfter + RepeatEvery - 1

\* The n-th failed tick is said: the fifth, and every sixtieth after it.
Escalates(n) == n = EscalateAfter

\* n failed ticks; those beyond EscalateAfter count modulo RepeatEvery.
Counted(n) == IF n = EscalateAfter + RepeatEvery THEN EscalateAfter ELSE n

\* streak.record with an error.
RecordFailure ==
    /\ count' = Counted(count + 1)
    /\ said' = (said \/ Escalates(Counted(count + 1)))
    /\ mishaps' = mishaps \cup {"failed"}

\* streak.record without error: the streak is forgotten.
RecordSuccess == count' = 0

Ends == tick' = "wait" /\ spent' = 0 /\ built' = 0

\* The tick ends without an error, and without publishing.
Nil == Ends /\ RecordSuccess /\ UNCHANGED <<said, mishaps>>

\* It ends with an error: of git, of the scan, of the deadline.
Fail ==
    /\ tick # "wait" /\ Ends /\ RecordFailure
    /\ UNCHANGED <<time, clone, stuck>>
-------------------------------------------------------------------------------
\* pullStateRepoLocked, whose failures are only warnings: a rebase that is in
\* progress is aborted, and what was committed on its HEAD is gone; or the pull
\* stalls and leaves one.
Pull ==
    /\ tick = "scan" /\ spent = 0
    /\ stuck' = ~stuck /\ file' = branch
    /\ mishaps' = mishaps \cup {"stuck"}
    /\ UNCHANGED <<time, tick, spent, built, branch, pub, count, said>>

\* BuildMachineSnapshot, after the scan.
Build ==
    /\ tick = "scan" /\ tick' = "decide" /\ built' = 0
    /\ UNCHANGED <<time, spent, clone, stuck, count, said, mishaps>>

\* Mutant: the report must be older than two heartbeats.
DueLate == file >= 2 * Heartbeat

\* time.Since(prev.UpdatedAt) >= heartbeat
HeartbeatDue == file >= Heartbeat

Unpushed == branch < pub

\* Nothing to commit: what is committed is pushed.  On the detached HEAD of a
\* stuck rebase rev-list fails, which passes for a branch without upstream.
Skip ==
    /\ tick = "decide" /\ ~HeartbeatDue
    /\ IF Unpushed /\ ~stuck
       THEN tick' = "push" /\ UNCHANGED <<spent, built, count, said, mishaps>>
       ELSE Nil
    /\ UNCHANGED <<time, clone, stuck>>

\* The content changed, or a heartbeat is due: a backlog is flushed first, then
\* the snapshot is written and committed, on the branch or on a detached HEAD.
Commit ==
    /\ tick = "decide" /\ tick' = "push"
    /\ file' = built
    /\ branch' = IF stuck THEN branch ELSE built
    /\ pub' = IF Unpushed /\ ~stuck THEN branch ELSE pub
    /\ UNCHANGED <<time, spent, built, stuck, count, said, mishaps>>

\* rebaseAndPush.  With a stuck rebase it only fails (Fail).
Push ==
    /\ tick = "push" /\ ~stuck
    /\ pub' = branch
    /\ Ends /\ RecordSuccess
    /\ said' = FALSE /\ mishaps' = {}
    /\ UNCHANGED <<time, file, branch, stuck>>

\* The agent is killed and started again: the streak is lost.
StartAgain ==
    /\ ticker' = Interval /\ pending' = FALSE
    /\ tick' = "scan" /\ spent' = 0 /\ built' = 0 /\ count' = 0
    /\ mishaps' = mishaps \cup {"restarted"}
    /\ UNCHANGED <<clone, stuck, said>>

CadenceNext ==
    \/ Advance \/ Receive \/ Pull \/ Build \/ Skip \/ Commit \/ Push \/ Fail
    \/ StartAgain

CadenceSpec == CadenceInit /\ [][CadenceNext]_cadenceVars

\* Time passes, and the loop goes on.
CadenceFairSpec == CadenceSpec /\ WF_cadenceVars(Advance \/ Receive)
                 /\ WF_cadenceVars(Build \/ Skip \/ Commit \/ Push \/ Fail)
-------------------------------------------------------------------------------
CadenceTypeOK ==
    /\ ticker \in 1..Interval /\ pending \in BOOLEAN
    /\ tick \in {"wait", "scan", "decide", "push"}
    /\ spent \in 0..TickTimeout /\ built \in 0..spent
    /\ {file, branch, pub} \subseteq Ages
    /\ stuck \in BOOLEAN /\ said \in BOOLEAN
    /\ count \in 0..(EscalateAfter + RepeatEvery - 1)
    /\ mishaps \subseteq {"new", "failed", "stuck", "restarted"}

\* An agent whose ticks succeed is never called stale, quiet as it may be
\* (duration.go:26-28), given durations that leave room for it as the defaults do.
WellIsFresh == mishaps = {} => pub <= StaleTTL

\* Before peers call a machine stale whose agent fails, its log has said so,
\* unless the agent was restarted or a rebase got stuck (agent.go:137-175).
StaleIsSaid ==
    pub > StaleTTL /\ mishaps \cap {"new", "restarted", "stuck"} = {} => said

\* The same of a stuck rebase: a tick returns "nil when the tick published or
\* had nothing to do" (agent.go:173-174), so ticks that never publish what is due
\* are a streak of failures, and the log says so in the end.
StuckIsSaid ==
    <>[](stuck /\ pub > StaleTTL /\ "restarted" \notin mishaps) => <>said

\* staleTTLTooShort
StaleTTLTooShort == StaleTTL < 2 * Heartbeat

\* "warnStaleTTLMismatch logs when stale_ttl is likely to mark healthy agents
\* stale" (config.go:322): without the warning they are not.
CalmWhenUnwarned == ~StaleTTLTooShort /\ mishaps = {} => pub <= StaleTTL
-------------------------------------------------------------------------------
(* The inductive invariant behind the proofs of AgentProofs.                 *)

\* The time from the start of a tick to the start of the next is at most this.
Period == IF TickTimeout > Interval THEN TickTimeout ELSE Interval

\* The age that what peers read may have when a tick starts after n failed ones.
Allowed(n) == Heartbeat - 1 + Period * (n + 1)

\* Nothing is wrong with the clone, and the streak began with a publish.
Untroubled == mishaps \cap {"new", "restarted", "stuck"} = {}

CadenceInv ==
    /\ CadenceTypeOK
    /\ tick # "wait" /\ ~pending => spent + ticker <= Interval
    /\ ~stuck => file = branch
    /\ tick = "push" /\ ~stuck => branch <= Heartbeat - 1 + spent
    /\ mishaps = {} => count = 0 /\ ~said
    /\ Untroubled => ~stuck
    /\ Untroubled /\ ~said =>
           /\ count < EscalateAfter
           /\ tick = "wait" => pub + (IF pending THEN 0 ELSE ticker) <= Allowed(count)
           /\ tick # "wait" => pub <= Allowed(count) + spent
===============================================================================
