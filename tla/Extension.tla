------------------------------ MODULE Extension -------------------------------
(* The editor extension (extension.ts, check.ts, tiers.ts, notification.ts):  *)
(* refreshes that check the workspace folders one after the other, in child   *)
(* processes, and supersede each other; the status bar; and the notifications *)
(* of an attention episode, which the user may dismiss long after.  The       *)
(* extension host runs one callback at a time: one action is one callback.    *)
EXTENDS Naturals, Sequences, SequencesExt, FiniteSets

CONSTANTS
    NFolders,      \* the workspace folders are 1..NFolders
    Episodes,      \* the cross-machine situations a folder can be in
    None,          \* no fingerprint
    MaxRefreshes,  \* bound on the number of refreshes
    MaxChanges     \* bound on the changes of the world and of the settings

ASSUME ExtensionAssumption ==
    /\ NFolders \in Nat \ {0}
    /\ MaxRefreshes \in Nat /\ MaxChanges \in Nat

\* The fingerprints of attention: situations of folders.  None is none of them
\* (the empty string).
Prints == (SUBSET ((1..NFolders) \X Episodes)) \ {{}}

ASSUME NoneAssumption == \A p \in Prints : p # None

Folders == 1..NFolders

\* What is shown of a folder: nothing, local work only, an error, no work tree,
\* (elevated attention) a set of cross-machine situations; or no program to
\* check with.
Quiet == {"clear", "local", "error", "notGit"}

Outcomes == [kind : Quiet \cup {"missingBinary"}, episodes : {{}}]
                \cup [kind : {"cross"}, episodes : (SUBSET Episodes) \ {{}}]

Worlds == {o \in Outcomes : o.kind # "missingBinary"}

Displays == {"notification", "statusBar"}

Tiers == {"checking", "setup", "cross", "error", "local", "hidden", "clear"}

VARIABLES
    world,         \* what a check of every folder would show now
    binary,        \* the command-line program can be found
    display,       \* the setting attentionDisplay
    debounce,      \* a check-on-open is scheduled
    generation,    \* the number of the latest refresh
    run,           \* per refresh: is it checking, aborted, what has it got
    lastOutcomes,  \* the outcomes last shown
    shown,         \* the refresh that showed them
    bar,           \* the tier the status bar shows
    lastShown,     \* the fingerprint the tracker remembers
    toasts,        \* the notifications on screen, oldest first
    changes,       \* how often the world or a setting changed
    quieted,       \* the fingerprint dismissed, while it is what is reported
    notified       \* those notified or dismissed since attention last cleared

vars == <<world, binary, display, debounce, generation, run, lastOutcomes, shown,
          bar, lastShown, toasts, changes, quieted, notified>>

tracker == <<lastShown, toasts, quieted, notified>>

Refreshes == 1..MaxRefreshes

Runs == [checking : BOOLEAN, aborted : BOOLEAN, got : Seq(Outcomes)]

\* episodeFingerprint: the cross-machine situations of every folder.
Fingerprint(outs) ==
    LET parts == UNION {{<<i, e>> : e \in outs[i].episodes} : i \in DOMAIN outs}
    IN  IF parts = {} THEN None ELSE parts

\* tierFromOutcomes
Tier(outs) ==
    LET kinds == {outs[i].kind : i \in DOMAIN outs}
    IN  IF "missingBinary" \in kinds THEN "setup"
        ELSE IF "cross" \in kinds THEN "cross"
        ELSE IF "error" \in kinds THEN "error"
        ELSE IF "local" \in kinds THEN "local"
        ELSE IF "clear" \in kinds THEN "clear"
        ELSE "hidden"

Clear == [kind |-> "clear", episodes |-> {}]

Init ==
    /\ world = [f \in Folders |-> Clear]
    /\ binary = TRUE /\ display = "notification"
    /\ debounce = TRUE
    /\ generation = 0 /\ shown = 0
    /\ run = [g \in Refreshes |-> [checking |-> FALSE, aborted |-> FALSE, got |-> <<>>]]
    /\ lastOutcomes = <<>>
    /\ bar = "hidden"
    /\ lastShown = None /\ toasts = <<>>
    /\ changes = 0
    /\ quieted = None /\ notified = {}
-------------------------------------------------------------------------------
(* A refresh.                                                                *)

\* Mutants: nothing is aborted; the new controller is aborted, not the old one.
AbortedNone(g) == run
AbortedItself(g) == [run EXCEPT ![g].aborted = TRUE]

\* abortController?.abort() when refresh g begins.
AbortedBy(g) ==
    [h \in Refreshes |-> [run[h] EXCEPT !.aborted = @ \/ h = g - 1]]

Missing == <<[Clear EXCEPT !.kind = "missingBinary"]>>

\* The latest refresh is aborted and the next one begins: it checks the first
\* folder, or shows that there is no program to check with.
Refresh ==
    LET g == generation + 1
    IN  /\ generation < MaxRefreshes
        /\ generation' = g
        /\ IF binary
           THEN /\ run' = [AbortedBy(g) EXCEPT ![g].checking = TRUE]
                /\ bar' = "checking"
                /\ UNCHANGED <<lastOutcomes, shown>>
           ELSE /\ run' = AbortedBy(g)
                /\ bar' = Tier(Missing) /\ lastOutcomes' = Missing /\ shown' = g

\* A command, or the refresh timer.
Request ==
    /\ Refresh
    /\ UNCHANGED <<world, binary, display, debounce, tracker, changes>>

\* The check-on-open is scheduled anew, and fires.
Open ==
    /\ changes < MaxChanges /\ changes' = changes + 1
    /\ debounce' = TRUE
    /\ UNCHANGED <<world, binary, display, generation, run, lastOutcomes, shown,
                   bar, tracker>>

DebounceFires ==
    /\ debounce /\ Refresh
    /\ debounce' = FALSE
    /\ UNCHANGED <<world, binary, display, tracker, changes>>

\* Mutant: an equal fingerprint is shown again.
ShowAlways(d, fp, last) == d = "notification" /\ fp # None

\* shouldShowAttentionNotification
ShouldShow(d, fp, last) == d = "notification" /\ fp # None /\ fp # last

\* takeShowDecision, and the notification it leads to.
Notify(fp) ==
    LET show == ShouldShow(display, fp, lastShown)
    IN  /\ lastShown' = IF fp = None THEN None ELSE IF show THEN fp ELSE lastShown
        /\ toasts' = IF show THEN Append(toasts, fp) ELSE toasts
        /\ notified' = IF fp = None THEN {}
                       ELSE IF show THEN notified \cup {fp} ELSE notified
        /\ quieted' = IF fp = quieted THEN quieted ELSE None

\* Mutant: the generation is not looked at after the await.
NeverSuperseded(g) == FALSE

\* signal.aborted || myGen !== generation
Superseded(g) == run[g].aborted \/ g # generation

\* All folders are checked: the outcomes are shown.
Show(g, outs) ==
    /\ lastOutcomes' = outs /\ shown' = g
    /\ bar' = Tier(outs)
    /\ Notify(Fingerprint(outs))

\* The child process of refresh g ends and the refresh goes on: it gives up, or
\* takes the outcome (a timeout or a crash is an error) and checks the next
\* folder or shows what it got.
ChildEnds(g) ==
    /\ run[g].checking
    /\ IF Superseded(g)
       THEN /\ run' = [run EXCEPT ![g].checking = FALSE]
            /\ UNCHANGED <<lastOutcomes, shown, bar, tracker>>
       ELSE \E o \in {world[Len(run[g].got) + 1], [Clear EXCEPT !.kind = "error"]} :
              LET got  == Append(run[g].got, o)
                  last == Len(got) = NFolders
              IN  /\ run' = [run EXCEPT ![g].got = got, ![g].checking = ~last]
                  /\ IF last THEN Show(g, got)
                     ELSE UNCHANGED <<lastOutcomes, shown, bar, tracker>>
    /\ UNCHANGED <<world, binary, display, debounce, generation, changes>>
-------------------------------------------------------------------------------
(* The user, and the world.                                                  *)

\* Show Details, Open Settings, or closed without a choice.
Close(i) == UNCHANGED <<lastShown, quieted, notified>>

\* Dismiss: the tracker remembers the fingerprint of that notification, be it the
\* one on top or an older one.
Dismiss(i) ==
    /\ lastShown' = toasts[i]
    /\ notified' = notified \cup {toasts[i]}
    /\ quieted' = IF toasts[i] = Fingerprint(lastOutcomes) THEN toasts[i] ELSE None

Answer ==
    /\ \E i \in DOMAIN toasts :
         /\ Close(i) \/ Dismiss(i)
         /\ toasts' = RemoveAt(toasts, i)
    /\ UNCHANGED <<world, binary, display, debounce, generation, run, lastOutcomes,
                   shown, bar, changes>>

\* Mutant: the memory of the tracker survives a change of the setting.
KeepMemory == UNCHANGED lastShown

\* notificationTracker.reset
ResetMemory == lastShown' = None

\* The setting attentionDisplay changes: a new memory, and a refresh.
Configure ==
    /\ changes < MaxChanges /\ changes' = changes + 1
    /\ \E d \in Displays \ {display} : display' = d
    /\ ResetMemory /\ Refresh
    /\ notified' = {} /\ quieted' = None
    /\ UNCHANGED <<world, binary, debounce, toasts>>

\* Somebody works here or elsewhere; the program is installed or removed.
WorldChanges ==
    /\ changes < MaxChanges /\ changes' = changes + 1
    /\ \/ /\ \E f \in Folders, o \in Worlds : world' = [world EXCEPT ![f] = o]
          /\ UNCHANGED binary
       \/ binary' = ~binary /\ UNCHANGED world
    /\ UNCHANGED <<display, debounce, generation, run, lastOutcomes, shown, bar,
                   tracker>>
-------------------------------------------------------------------------------
Next ==
    \/ Request \/ Open \/ DebounceFires \/ Answer \/ Configure \/ WorldChanges
    \/ \E g \in Refreshes : ChildEnds(g)

Spec == Init /\ [][Next]_vars

\* A child process ends, killed by its timeout or by the abort if need be, and
\* a scheduled check-on-open fires.
FairSpec ==
    /\ Spec
    /\ \A g \in Refreshes : WF_vars(ChildEnds(g))
    /\ WF_vars(DebounceFires)
-------------------------------------------------------------------------------
TypeOK ==
    /\ world \in [Folders -> Worlds] /\ binary \in BOOLEAN
    /\ display \in Displays /\ debounce \in BOOLEAN
    /\ generation \in 0..MaxRefreshes /\ shown \in 0..MaxRefreshes
    /\ run \in [Refreshes -> Runs]
    /\ lastOutcomes \in Seq(Outcomes) /\ bar \in Tiers
    /\ changes \in 0..MaxChanges

\* What the status bar shows is never the result of a superseded refresh: once
\* it is not "checking" it shows the latest one (extension.ts:146-173).
LatestShown == bar \notin {"checking"} => shown = generation

\* At most one refresh is not superseded: checks do not pile up.
OneAtATime ==
    Cardinality({g \in Refreshes : run[g].checking /\ ~run[g].aborted}) <= 1

\* The status bar does not stay at "checking".
BarSettles == <>[](bar # "checking")

\* An episode that was dismissed is not notified again as long as refreshes
\* report the same and no older notification is dismissed after it: the tracker
\* remembers one fingerprint, so that would bring it back (notification.ts:137-140; openspec/specs/vscode-extension/spec.md:44).
NoRespam ==
    [][Len(toasts') > Len(toasts) => Last(toasts') # quieted]_vars

\* Cross-machine attention on the status bar was notified, unless the user
\* chose the status bar only (extension.ts:190-205).
AttentionNotified ==
    display = "notification" /\ bar = "cross" =>
        Fingerprint(lastOutcomes) \in notified

\* The invariant behind the four above.  A refresh that checks and was not aborted
\* is the latest one, and has folders left to check; the tracker remembers
\* something that was notified or dismissed, the fingerprint that is quiet if
\* there is one.
ExtensionInv ==
    /\ TypeOK
    /\ \A g \in Refreshes :
         /\ g > generation => run[g].got = <<>> /\ ~run[g].checking
         /\ run[g].checking => Len(run[g].got) < NFolders
         /\ run[g].checking /\ ~run[g].aborted => g = generation
    /\ Len(lastOutcomes) <= NFolders
    /\ toasts \in Seq(Prints)
    /\ lastShown # None => lastShown \in notified
    /\ quieted # None => quieted = lastShown
    /\ LatestShown /\ AttentionNotified
===============================================================================
