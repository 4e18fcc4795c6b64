------------------------------ MODULE CheckMode -------------------------------
(* One folder on its way through `find-uncommitted --json check`: from what is *)
(* true of it, through the process with its early exits (check.go, main.go),   *)
(* the check of its repository (RepoStatus), two output streams and an exit    *)
(* status, to what the editor extension makes of these three (check.ts).  Git  *)
(* commands fail or are killed by their timeouts, the process panics, or the   *)
(* extension kills it when it takes too long.  The worker of an agent's scan,  *)
(* the other caller of checkRepoStatus, has a deadline and nobody to report to. *)
(* Which situations other machines' reports make is the matter of Situations;  *)
(* here it is a fact.                                                          *)
EXTENDS RepoStatus

\* What is true beside the repository: of the installation, of the state
\* repository, of its files, and of what other machines report.  Each is found
\* out when it is first looked at.
Facts == [setup     : {"good", "oldBinary", "badConfig"},
          state     : {"unset", "invalid", "dead", "good"},
          files     : {"good", "corrupt", "unreadable"},
          elsewhere : {"nothing", "work", "tip"}]

NoFacts == [setup |-> "good", state |-> "unset", files |-> "good",
            elsewhere |-> "nothing"]

\* Words on stderr the extension looks for.
Words == {"notGit", "usage", "other"}

VARIABLES
    facts,
    place,     \* the next step of the process, or the agent's worker
    remote,    \* the snapshots loaded: len(remote) > 0
    stdout,    \* the JSON document, once it is printed
    stderr,    \* the words printed
    raw,       \* what the extension gets (RunCheckRaw)
    outcome    \* the FolderOutcome

report == <<facts, remote, stdout, stderr, raw, outcome>>

allVars == <<vars, report, place>>

\* What a step of the process outside checkRepoStatus leaves alone of it.
repository == <<truth, at, status, ctxDone, moves, pending>>

Nothing == [kind |-> "nothing", situations |-> {}]

\* The documents: a result with its situations, or an error.
Documents == [kind : {"nothing", "notTree", "error"}, situations : {{}}]
                 \cup [kind : {"result"},
                       situations : SUBSET {"localError", "local", "cross"}]

Kinds == {"pending", "clear", "local", "elevated", "notGit", "error"}

CheckInit ==
    /\ Init
    /\ facts = NoFacts /\ place \in {"parse", "agent"} /\ remote = FALSE
    /\ stdout = Nothing /\ stderr = {}
    /\ raw = [exit |-> 0, timedOut |-> FALSE] /\ outcome = "pending"
-------------------------------------------------------------------------------
Fault == faults < MaxFaults /\ faults' = faults + 1

Goto(p) == place' = p /\ UNCHANGED <<stdout, stderr, raw>>

\* The process prints a document and words, and ends with status e.
Exit(e, doc, words) ==
    /\ place' = "exited" /\ raw' = [raw EXCEPT !.exit = e]
    /\ stdout' = doc /\ stderr' = stderr \cup words

\* It is found out that fact f is v.
Settle(f, v) == facts' = [facts EXCEPT ![f] = v]

\* What other machines report reaches the comparison: their files are loaded
\* and correlate with this repository.
Seen ==
    /\ remote /\ facts.files = "good"
    /\ status.origin = truth.origin
    /\ facts.elsewhere = "tip" => status.sha

\* DetectSituations, DetectLocalSituations
Situations ==
    {s \in {"localError", "local", "cross"} :
        \/ s = "localError" /\ status.error /\ ~status.empty
        \/ /\ s = "local" /\ ~status.error
           /\ \/ status.dirty \/ status.unpushed \/ status.behind
              \/ status.untrackedUpstream
        \/ s = "cross" /\ facts.elsewhere # "nothing" /\ Seen}

\* fail(): a message on stderr, a JSON error, exit status 1.
FailWith(kind) ==
    Exit(1, [kind |-> kind, situations |-> {}],
         IF kind = "notTree" THEN {"notGit"} ELSE {"other"})

\* flag.Parse, and sticky configuration: neither failure prints JSON.
Parse ==
    /\ place = "parse"
    /\ \/ Settle("setup", "oldBinary") /\ Exit(2, Nothing, {"usage"})
       \/ Settle("setup", "badConfig") /\ Exit(1, Nothing, {"other"})
       \/ UNCHANGED facts /\ Goto("resolve")
    /\ UNCHANGED <<vars, remote, outcome>>

\* resolveGitToplevel: whatever rev-parse fails of, no work tree, one of another
\* user or a timeout, the path is called not inside a work tree.  A path that is
\* gone fails before git runs.
Resolve ==
    /\ place = "resolve"
    /\ \/ ~truth.broken /\ Goto("status") /\ UNCHANGED faults
       \/ truth.broken /\ FailWith("notTree") /\ UNCHANGED faults
       \/ Fault /\ FailWith("notTree")
       \/ Fault /\ FailWith("error")
    /\ UNCHANGED <<repository, facts, remote, outcome>>

\* checkRepoStatus, a command of it, or the user; an agent's scan has a deadline.
Examine ==
    /\ place \in {"status", "agent"}
    /\ Check \/ User \/ (place = "agent" /\ Cancel)
    /\ UNCHANGED <<report, place>>

\* With the status at hand: is there a state repository?
Examined ==
    /\ place = "status" /\ at = "done"
    /\ \/ UNCHANGED facts /\ Goto("report")
       \/ \E s \in {"invalid", "dead", "good"} : Settle("state", s) /\ Goto("validate")
    /\ UNCHANGED <<vars, remote, outcome>>

\* validateStateRepo: a directory with a .git.
LooksLikeClone == facts.state # "invalid"

Validate ==
    /\ place = "validate"
    /\ IF LooksLikeClone THEN Goto("pull") ELSE FailWith("error")
    /\ UNCHANGED <<vars, facts, remote, outcome>>

\* loadRemoteSnapshots: a pull that fails, or the lock of a busy agent, is a
\* warning; git's words about a clone that is none are among it.
PullReadOnly ==
    /\ place = "pull" /\ place' = "load"
    /\ \/ facts.state = "good" /\ UNCHANGED <<stderr, faults>>
       \/ facts.state = "dead" /\ stderr' = stderr \cup {"notGit"} /\ UNCHANGED faults
       \/ Fault /\ stderr' = stderr \cup {"other"}
    /\ UNCHANGED <<repository, facts, remote, stdout, raw, outcome>>

\* LoadAllMachineSnapshots
Load ==
    /\ place = "load" /\ place' = "report"
    /\ \E f \in {"good", "corrupt", "unreadable"}, e \in {"nothing", "work", "tip"} :
         /\ facts' = [facts EXCEPT !.files = f, !.elsewhere = e]
         /\ remote' = (f # "unreadable")
         /\ stderr' = IF f = "good" THEN stderr ELSE stderr \cup {"other"}
    /\ UNCHANGED <<vars, stdout, raw, outcome>>

ExitCode == IF Situations = {} THEN 0 ELSE 2

\* runCheckMode, from the situations to the end.
Report ==
    /\ place = "report"
    /\ \/ Exit(ExitCode, [kind |-> "result", situations |-> Situations], {})
          /\ UNCHANGED faults
       \/ Fault /\ Exit(1, Nothing, {"other"})
    /\ UNCHANGED <<repository, facts, remote, outcome>>

\* A panic: exit status 2, a trace on stderr, no JSON.
Panic ==
    /\ place \notin {"exited", "done", "agent"} /\ Fault
    /\ Exit(2, stdout, {"other"})
    /\ UNCHANGED <<repository, facts, remote, outcome>>

\* The extension's timer: the child is killed, whatever it printed is kept.
TimeOut ==
    /\ place \notin {"done", "agent"} /\ ~raw.timedOut /\ Fault
    /\ raw' = [exit |-> 1, timedOut |-> TRUE] /\ place' = "exited"
    /\ UNCHANGED <<repository, facts, remote, stdout, stderr, outcome>>
-------------------------------------------------------------------------------
\* isElevated
IsElevated(doc) == "cross" \in doc.situations

\* Mutant: exit status 2 is attention, with or without a document.
AttentionOf(doc) == IF IsElevated(doc) THEN "elevated" ELSE "local"

\* Exit status 2 with a document, or without.
OutcomeOfTwo(doc) ==
    IF doc.kind = "nothing" \/ ("localError" \in doc.situations /\ ~IsElevated(doc))
    THEN "error"
    ELSE IF IsElevated(doc) THEN "elevated" ELSE "local"

\* The error text says that there is no work tree: that of the document, or of
\* stderr when the document has none.
SaysNoTree(doc, words) ==
    \/ doc.kind = "notTree"
    \/ doc.kind \in {"nothing", "result"} /\ "notGit" \in words

\* outcomeFromRun
OutcomeFromRun(doc, words, exit) ==
    CASE exit = 0 -> "clear"
      [] exit = 2 -> OutcomeOfTwo(doc)
      [] exit = 1 -> IF SaysNoTree(doc, words) THEN "notGit" ELSE "error"

\* The child is gone: close.
Close ==
    /\ place = "exited" /\ place' = "done"
    /\ outcome' = OutcomeFromRun(stdout, stderr, raw.exit)
    /\ UNCHANGED <<vars, facts, remote, stdout, stderr, raw>>

Ended ==
    /\ place = "done" \/ (place = "agent" /\ at = "done")
    /\ UNCHANGED allVars
-------------------------------------------------------------------------------
CheckNext ==
    \/ Parse \/ Resolve \/ Examine \/ Examined \/ Validate \/ PullReadOnly \/ Load
    \/ Report \/ Panic \/ TimeOut \/ Close \/ Ended

CheckSpec == CheckInit /\ [][CheckNext]_allVars
-------------------------------------------------------------------------------
CheckTypeOK ==
    /\ TypeOK
    /\ facts \in Facts /\ remote \in BOOLEAN
    /\ place \in {"parse", "resolve", "status", "validate", "pull", "load", "report",
                  "exited", "done", "agent"}
    /\ stdout \in Documents /\ stderr \subseteq Words
    /\ raw \in [exit : 0..2, timedOut : BOOLEAN] /\ outcome \in Kinds

\* Evidence a failed command withheld without a word: the origin, or the tip.
Withheld == status.origin # truth.origin \/ (facts.elsewhere = "tip" /\ ~status.sha)

\* "clear" is earned: the folder is a work tree in which nothing was left to do
\* all through its check, an unusable state repository was not passed over, and
\* nothing is reported by other machines whose files could be read.  The
\* exceptions: an error of a repository without commits gives no situation
\* (situations.go:210), and evidence a failed command withheld (origin.go:18).
ClearIsEarned ==
    outcome = "clear" =>
        /\ ~truth.broken /\ facts.state # "invalid"
        /\ pending => status.empty /\ status.error
        /\ facts.elsewhere # "nothing" => ~remote \/ facts.files # "good" \/ Withheld

\* Every other outcome has its reason: attention something to attend to, above
\* all cross-machine attention, which notifies the user and is never the sign of
\* a crash; an error a failure; a skipped folder, that it is no work tree of this
\* user, or that nothing but stderr was left to go by (check.ts:174-273).
VerdictJustified ==
    /\ outcome = "local" => Work(truth) \/ faults + moves > 0
    /\ outcome = "elevated" => facts.elsewhere # "nothing" /\ facts.files = "good"
    /\ outcome = "error" =>
          faults + moves > 0 \/ facts.state = "invalid" \/ facts.setup # "good"
    /\ outcome = "notGit" =>
          \/ truth.broken \/ (stdout.kind = "notTree" /\ faults > 0)
          \/ facts.state = "dead" /\ raw.exit = 1 /\ stdout.kind # "error"

\* The steps of the process before it ends.
Working == {"parse", "resolve", "status", "validate", "pull", "load", "report"}

\* What the process knows and did not say yet at each of its steps.
UnderWay ==
    /\ place \in Working \cup {"agent"} =>
          /\ stdout = Nothing /\ raw.exit = 0 /\ facts.setup = "good"
          /\ "notGit" \in stderr => facts.state = "dead"
    /\ place \in {"parse", "resolve", "status", "agent"} => facts = NoFacts /\ ~remote
    /\ place \in {"status", "validate", "pull", "load", "report"} => ~truth.broken
    /\ place \in {"validate", "pull", "load", "report"} => at = "done"
    /\ place \in {"pull", "load", "report"} => facts.state # "invalid"

\* What it said when it ended, by exit status and document.
SaidSo ==
    place \in {"exited", "done"} =>
        /\ stdout.kind = "result" =>
              /\ at = "done" /\ ~truth.broken /\ facts.setup = "good"
              /\ facts.state # "invalid" /\ stdout.situations = Situations
        /\ stdout.kind # "result" => stdout.situations = {}
        /\ stdout.kind = "notTree" => truth.broken \/ faults > 0
        /\ stdout.kind = "error" => faults > 0 \/ facts.state = "invalid"
        /\ stdout.kind = "nothing" => faults > 0 \/ facts.setup # "good"
        /\ raw.exit = 0 => stdout.kind = "result" /\ Situations = {}
        /\ raw.exit = 1 /\ stdout.kind = "result" => faults > 0
        /\ raw.exit = 2 =>
              stdout.kind = "nothing" \/ (stdout.kind = "result" /\ Situations # {})
        /\ "notGit" \in stderr => stdout.kind = "notTree" \/ facts.state = "dead"

\* The invariant behind the properties above.
CheckInv ==
    /\ CheckTypeOK /\ StatusInv /\ UnderWay /\ SaidSo
    /\ outcome = IF place = "done" THEN OutcomeFromRun(stdout, stderr, raw.exit)
                 ELSE "pending"

\* "Timeout and cancellation failures ... MUST NOT be relabeled as
\* invalid-repository ... failures"
\* (openspec/specs/git-command-timeouts/spec.md:10).
NotRelabeled == outcome = "notGit" => truth.broken

\* "Timeout and cancellation failures SHALL be reported"
\* (openspec/specs/git-command-timeouts/spec.md:10): evidence that a killed
\* command withheld does not leave a folder clear that is not.
KillsAreReported ==
    outcome = "clear" /\ remote /\ facts.files = "good" => facts.elsewhere = "nothing"
===============================================================================
