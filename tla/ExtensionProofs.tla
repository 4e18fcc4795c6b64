---------------------------- MODULE ExtensionProofs ---------------------------
(* Theorems about Extension: what the status bar shows is the latest, checks  *)
(* do not pile up, cross-machine attention is notified, and a dismissed       *)
(* episode is not notified again.                                             *)
EXTENDS Extension, SequenceTheorems, FiniteSetTheorems, TLAPS

LEMMA Bounds == NFolders \in Nat \ {0} /\ MaxRefreshes \in Nat /\ MaxChanges \in Nat
BY ExtensionAssumption

LEMMA OutcomeFacts ==
    ASSUME NEW o \in Outcomes
    PROVE  /\ o.kind \in Quiet \cup {"missingBinary", "cross"}
           /\ o.episodes \in SUBSET Episodes
           /\ o.kind = "cross" => o.episodes # {}
<1>1. CASE o \in [kind : Quiet \cup {"missingBinary"}, episodes : {{}}]
  <2>1. o.kind \in Quiet \cup {"missingBinary"} /\ o.episodes = {}
      BY <1>1
  <2>2. o.kind # "cross"
      BY <2>1 DEF Quiet
  <2> QED BY <2>1, <2>2
<1>2. CASE o \in [kind : {"cross"}, episodes : (SUBSET Episodes) \ {{}}]
    BY <1>2
<1> QED BY <1>1, <1>2 DEF Outcomes

LEMMA ClearOutcomes ==
    /\ [Clear EXCEPT !.kind = "error"] \in Outcomes
    /\ [Clear EXCEPT !.kind = "missingBinary"] \in Outcomes
    /\ Missing \in Seq(Outcomes) /\ Len(Missing) = 1
    /\ Tier(Missing) = "setup"
<1>1. /\ [Clear EXCEPT !.kind = "error"] = [kind |-> "error", episodes |-> {}]
      /\ [Clear EXCEPT !.kind = "missingBinary"] = [kind |-> "missingBinary", episodes |-> {}]
    BY DEF Clear
<1>2. [kind |-> "error", episodes |-> {}] \in Outcomes
    BY DEF Outcomes, Quiet
<1>3. [kind |-> "missingBinary", episodes |-> {}] \in Outcomes
    BY DEF Outcomes, Quiet
<1>4. Missing = <<[kind |-> "missingBinary", episodes |-> {}]>>
    BY <1>1 DEF Missing
<1>5. 1 \in DOMAIN Missing /\ Missing[1].kind = "missingBinary"
    BY <1>4
<1>6. Tier(Missing) = "setup"
    BY <1>5 DEF Tier
<1> QED BY <1>1, <1>2, <1>3, <1>4, <1>6

\* The tier is never "checking"; it is "cross" for the sake of one folder.
LEMMA TierFacts ==
    ASSUME NEW outs
    PROVE  /\ Tier(outs) \in Tiers \ {"checking"}
           /\ Tier(outs) = "cross" => \E i \in DOMAIN outs : outs[i].kind = "cross"
BY DEF Tier, Tiers

\* The fingerprint of cross-machine attention is one.
LEMMA FingerprintFacts ==
    ASSUME NEW outs \in Seq(Outcomes), Len(outs) <= NFolders
    PROVE  /\ Fingerprint(outs) \in Prints \cup {None}
           /\ Tier(outs) = "cross" => Fingerprint(outs) \in Prints
<1> DEFINE parts == UNION {{<<i, e>> : e \in outs[i].episodes} : i \in DOMAIN outs}
<1>1. /\ DOMAIN outs = 1..Len(outs) /\ DOMAIN outs \subseteq 1..NFolders
      /\ \A i \in DOMAIN outs : outs[i] \in Outcomes
    BY Bounds
<1>2. \A i \in DOMAIN outs : outs[i].episodes \subseteq Episodes
    BY <1>1, OutcomeFacts
<1>3. parts \subseteq (1..NFolders) \X Episodes
    BY <1>1, <1>2
<1>4. ASSUME Tier(outs) = "cross" PROVE parts # {}
  <2>1. PICK i \in DOMAIN outs : outs[i].kind = "cross"
      BY <1>4, TierFacts
  <2>2. PICK e \in outs[i].episodes : TRUE
      BY <1>1, <2>1, OutcomeFacts
  <2>3. <<i, e>> \in parts
      BY <2>2
  <2> QED BY <2>3
<1>5. Fingerprint(outs) = IF parts = {} THEN None ELSE parts
    BY DEF Fingerprint
<1> HIDE DEF parts
<1> QED BY <1>3, <1>4, <1>5 DEF Prints
-------------------------------------------------------------------------------
(* The invariant.                                                            *)

\* What it says of the refreshes.
RunsInv ==
    /\ generation \in 0..MaxRefreshes /\ shown \in 0..MaxRefreshes
    /\ run \in [Refreshes -> Runs]
    /\ lastOutcomes \in Seq(Outcomes) /\ bar \in Tiers
    /\ \A g \in Refreshes :
         /\ g > generation => run[g].got = <<>> /\ ~run[g].checking
         /\ run[g].checking => Len(run[g].got) < NFolders
         /\ run[g].checking /\ ~run[g].aborted => g = generation
    /\ Len(lastOutcomes) <= NFolders
    /\ LatestShown

\* What it says of the tracker.
TrackerInv ==
    /\ toasts \in Seq(Prints)
    /\ lastShown # None => lastShown \in notified
    /\ quieted # None => quieted = lastShown

\* What it says of the world.
WorldInv ==
    /\ world \in [Folders -> Worlds] /\ binary \in BOOLEAN
    /\ display \in Displays /\ debounce \in BOOLEAN
    /\ changes \in 0..MaxChanges

LEMMA InvParts ==
    /\ ExtensionInv <=> RunsInv /\ TrackerInv /\ WorldInv /\ AttentionNotified
    /\ ExtensionInv' <=> RunsInv' /\ TrackerInv' /\ WorldInv' /\ AttentionNotified'
BY DEF ExtensionInv, TypeOK, RunsInv, TrackerInv, WorldInv

LEMMA InitExtension == ASSUME Init PROVE ExtensionInv
<1> USE Bounds DEF Init
<1>1. Clear \in Worlds
  <2>1. Clear = [kind |-> "clear", episodes |-> {}]
      BY DEF Clear
  <2>2. [kind |-> "clear", episodes |-> {}] \in Outcomes
      BY DEF Outcomes, Quiet
  <2> QED BY <2>1, <2>2 DEF Worlds
<1>2. WorldInv
    BY <1>1 DEF WorldInv, Displays
<1>3. RunsInv
  <2>1. [checking |-> FALSE, aborted |-> FALSE, got |-> <<>>] \in Runs
      BY DEF Runs
  <2>2. lastOutcomes \in Seq(Outcomes) /\ Len(lastOutcomes) = 0
      OBVIOUS
  <2> QED BY <2>1, <2>2 DEF RunsInv, Tiers, LatestShown
<1>4. TrackerInv /\ AttentionNotified
    BY DEF TrackerInv, AttentionNotified
<1> QED BY <1>2, <1>3, <1>4, InvParts

LEMMA RefreshKeeps ==
    ASSUME RunsInv, Refresh
    PROVE  RunsInv' /\ bar' # "cross"
<1> USE Bounds
<1> DEFINE n == generation + 1
<1>1. /\ n \in Refreshes /\ generation' = n /\ n \in 0..MaxRefreshes
      /\ generation \in Nat
    BY DEF Refresh, RunsInv, Refreshes
<1>2. \/ /\ run' = [AbortedBy(n) EXCEPT ![n].checking = TRUE]
         /\ bar' = "checking" /\ lastOutcomes' = lastOutcomes /\ shown' = shown
      \/ /\ run' = AbortedBy(n)
         /\ bar' = "setup" /\ lastOutcomes' = Missing /\ shown' = n
    BY ClearOutcomes DEF Refresh
<1> HIDE DEF n
<1> DEFINE a == AbortedBy(n)
<1>3. \A h \in Refreshes :
         /\ a[h] \in Runs
         /\ a[h].checking = run[h].checking /\ a[h].got = run[h].got
         /\ ~a[h].aborted => ~run[h].aborted /\ h # n - 1
  <2>1. \A h \in Refreshes : a[h] = [run[h] EXCEPT !.aborted = @ \/ h = n - 1]
      BY DEF AbortedBy
  <2>2. \A h \in Refreshes : run[h] \in Runs
      BY DEF RunsInv
  <2>3. ASSUME NEW h \in Refreshes
        PROVE  a[h] = [checking |-> run[h].checking,
                       aborted |-> run[h].aborted \/ h = n - 1, got |-> run[h].got]
      BY <2>1, <2>2, <2>3 DEF Runs
  <2> HIDE DEF a
  <2>4. ASSUME NEW h \in Refreshes
        PROVE  /\ a[h] \in Runs
               /\ a[h].checking = run[h].checking /\ a[h].got = run[h].got
               /\ ~a[h].aborted => ~run[h].aborted /\ h # n - 1
    <3>1. a[h] = [checking |-> run[h].checking,
                  aborted |-> run[h].aborted \/ h = n - 1, got |-> run[h].got]
        BY <2>3
    <3>2. run[h].checking \in BOOLEAN /\ run[h].got \in Seq(Outcomes)
        BY <2>2 DEF Runs
    <3>3. (run[h].aborted \/ h = n - 1) \in BOOLEAN
        OBVIOUS
    <3>4. a[h] \in Runs
        BY <3>1, <3>2, <3>3 DEF Runs
    <3>5. a[h].checking = run[h].checking /\ a[h].got = run[h].got
        BY <3>1
    <3>6. a[h].aborted = (run[h].aborted \/ h = n - 1)
        BY <3>1
    <3> QED BY <3>4, <3>5, <3>6
  <2> QED BY <2>4
<1>4. a = [h \in Refreshes |-> a[h]]
    BY DEF AbortedBy
<1> HIDE DEF a
<1>5. run' \in [Refreshes -> Runs]
  <2>1. CASE run' = a
      BY <1>3, <1>4, <2>1
  <2>2. CASE run' = [a EXCEPT ![n].checking = TRUE]
    <3>1. [a[n] EXCEPT !.checking = TRUE] \in Runs
        BY <1>1, <1>3 DEF Runs
    <3> QED BY <1>3, <1>4, <2>2, <3>1
  <2> QED BY <1>2, <2>1, <2>2 DEF a
<1>6. ASSUME NEW h \in Refreshes
      PROVE  /\ run'[h].got = run[h].got
             /\ h # n => run'[h].checking = run[h].checking
             /\ ~run'[h].aborted => ~run[h].aborted /\ h # n - 1
  <2>1. CASE run' = a
      BY <1>3, <2>1
  <2>2. CASE run' = [a EXCEPT ![n].checking = TRUE]
    <3>1. a[n] \in Runs
        BY <1>1, <1>3
    <3>2. /\ h # n => run'[h] = a[h]
          /\ run'[n] = [a[n] EXCEPT !.checking = TRUE]
        BY <1>1, <1>4, <2>2
    <3> QED BY <1>3, <3>1, <3>2 DEF Runs
  <2> QED BY <1>2, <2>1, <2>2 DEF a
<1>7. run[n].got = <<>>
    BY <1>1 DEF RunsInv, n
<1>8. ASSUME NEW g \in Refreshes
      PROVE  /\ g > n => run'[g].got = <<>> /\ ~run'[g].checking
             /\ run'[g].checking => Len(run'[g].got) < NFolders
             /\ run'[g].checking /\ ~run'[g].aborted => g = n
  <2>1. g \in Nat
      BY DEF Refreshes
  <2>2. ASSUME g > n PROVE run'[g].got = <<>> /\ ~run'[g].checking
    <3>1. g # n /\ g > generation
        BY <1>1, <2>1, <2>2 DEF n
    <3> QED BY <1>6, <3>1 DEF RunsInv
  <2>3. ASSUME run'[g].checking PROVE Len(run'[g].got) < NFolders
    <3>1. CASE g = n
        BY <1>6, <1>7, <3>1
    <3>2. CASE g # n
        BY <1>6, <2>3, <3>2 DEF RunsInv
    <3> QED BY <3>1, <3>2
  <2>4. ASSUME run'[g].checking, ~run'[g].aborted, g # n PROVE FALSE
    <3>1. g = generation
        BY <1>6, <2>4 DEF RunsInv
    <3>2. g # n - 1
        BY <1>6, <2>4
    <3> QED BY <1>1, <3>1, <3>2 DEF n
  <2> QED BY <2>2, <2>3, <2>4
<1>9. /\ shown' \in 0..MaxRefreshes /\ bar' \in Tiers \ {"cross"}
      /\ lastOutcomes' \in Seq(Outcomes) /\ Len(lastOutcomes') <= NFolders
      /\ bar' # "checking" => shown' = n
  <2>1. CASE bar' = "checking" /\ lastOutcomes' = lastOutcomes /\ shown' = shown
      BY <2>1 DEF RunsInv, Tiers
  <2>2. CASE bar' = "setup" /\ lastOutcomes' = Missing /\ shown' = n
    <3>1. 1 <= NFolders
        OBVIOUS
    <3> QED BY <1>1, <2>2, <3>1, ClearOutcomes DEF Tiers
  <2> QED BY <1>2, <2>1, <2>2
<1> QED BY <1>1, <1>5, <1>8, <1>9 DEF RunsInv, LatestShown

LEMMA ChildEndsKeepsRuns ==
    ASSUME RunsInv, WorldInv, NEW g \in Refreshes, ChildEnds(g)
    PROVE  /\ RunsInv'
           /\ \/ UNCHANGED <<lastOutcomes, shown, bar, tracker>>
              \/ bar' = Tier(lastOutcomes') /\ Notify(Fingerprint(lastOutcomes'))
<1> USE Bounds
<1>1. run[g].checking /\ generation' = generation /\ run[g] \in Runs
    BY DEF ChildEnds, RunsInv
<1>2. CASE /\ run' = [run EXCEPT ![g].checking = FALSE]
           /\ UNCHANGED <<lastOutcomes, shown, bar, tracker>>
  <2>1. /\ run'[g] = [run[g] EXCEPT !.checking = FALSE]
        /\ \A h \in Refreshes \ {g} : run'[h] = run[h]
        /\ run' = [h \in Refreshes |-> run'[h]]
      BY <1>2 DEF RunsInv
  <2>2. run'[g] \in Runs /\ ~run'[g].checking /\ run'[g].got = run[g].got
      BY <1>1, <2>1 DEF Runs
  <2>3. run' \in [Refreshes -> Runs]
      BY <2>1, <2>2 DEF RunsInv
  <2>4. \A h \in Refreshes :
          /\ h > generation => run'[h].got = <<>> /\ ~run'[h].checking
          /\ run'[h].checking => Len(run'[h].got) < NFolders
          /\ run'[h].checking /\ ~run'[h].aborted => h = generation
      BY <2>1, <2>2 DEF RunsInv
  <2> QED BY <1>1, <1>2, <2>3, <2>4 DEF RunsInv, LatestShown
<1>3. ASSUME ~Superseded(g),
             NEW o \in {world[Len(run[g].got) + 1], [Clear EXCEPT !.kind = "error"]},
             LET got  == Append(run[g].got, o)
                 last == Len(got) = NFolders
             IN  /\ run' = [run EXCEPT ![g].got = got, ![g].checking = ~last]
                 /\ IF last THEN Show(g, got)
                    ELSE UNCHANGED <<lastOutcomes, shown, bar, tracker>>
      PROVE  /\ RunsInv'
             /\ \/ UNCHANGED <<lastOutcomes, shown, bar, tracker>>
                \/ bar' = Tier(lastOutcomes') /\ Notify(Fingerprint(lastOutcomes'))
  <2> DEFINE got == Append(run[g].got, o)
  <2>1. g = generation /\ ~run[g].aborted
      BY <1>3 DEF Superseded
  <2>2. /\ run[g].got \in Seq(Outcomes) /\ Len(run[g].got) \in Nat
        /\ Len(run[g].got) < NFolders
      BY <1>1 DEF RunsInv, Runs
  <2>3. o \in Outcomes
    <3>1. Len(run[g].got) + 1 \in Folders
        BY <2>2 DEF Folders
    <3> QED BY <3>1, ClearOutcomes DEF WorldInv, Worlds
  <2>4. got \in Seq(Outcomes) /\ Len(got) = Len(run[g].got) + 1 /\ Len(got) <= NFolders
      BY <2>2, <2>3
  <2>5. /\ run' = [run EXCEPT ![g].got = got, ![g].checking = Len(got) # NFolders]
        /\ Len(got) = NFolders => Show(g, got)
        /\ Len(got) # NFolders => UNCHANGED <<lastOutcomes, shown, bar, tracker>>
      BY <1>3
  <2> HIDE DEF got
  <2>6. /\ run'[g] = [checking |-> Len(got) # NFolders, aborted |-> run[g].aborted,
                      got |-> got]
        /\ \A h \in Refreshes \ {g} : run'[h] = run[h]
        /\ run' = [h \in Refreshes |-> run'[h]]
      BY <1>1, <2>5 DEF RunsInv, Runs
  <2>7. run'[g] \in Runs
      BY <1>1, <2>4, <2>6 DEF Runs
  <2>8. run' \in [Refreshes -> Runs]
      BY <2>6, <2>7 DEF RunsInv
  <2>9. /\ run'[g].got = got /\ run'[g].checking = (Len(got) # NFolders)
        /\ run'[g].aborted = run[g].aborted
      BY <2>6
  <2>10. ASSUME NEW h \in Refreshes
         PROVE  /\ h > generation => run'[h].got = <<>> /\ ~run'[h].checking
                /\ run'[h].checking => Len(run'[h].got) < NFolders
                /\ run'[h].checking /\ ~run'[h].aborted => h = generation
    <3>1. CASE h = g
      <4>1. ~(h > generation)
          BY <2>1, <3>1 DEF Refreshes
      <4>2. Len(got) # NFolders => Len(got) < NFolders
          BY <2>2, <2>4
      <4> QED BY <2>1, <2>9, <3>1, <4>1, <4>2
    <3>2. CASE h # g
        BY <2>6, <3>2 DEF RunsInv
    <3> QED BY <3>1, <3>2
  <2>11. CASE Len(got) = NFolders
    <3>1. lastOutcomes' = got /\ shown' = g /\ bar' = Tier(got) /\ Notify(Fingerprint(got))
        BY <2>5, <2>11 DEF Show
    <3>2. bar' \in Tiers /\ shown' \in 0..MaxRefreshes
        BY <3>1, TierFacts, <2>1 DEF RunsInv
    <3> QED BY <1>1, <2>1, <2>4, <2>8, <2>10, <3>1, <3>2 DEF RunsInv, LatestShown
  <2>12. CASE Len(got) # NFolders
    <3>1. UNCHANGED <<lastOutcomes, shown, bar, tracker>>
        BY <2>5, <2>12
    <3> QED BY <1>1, <2>8, <2>10, <3>1 DEF RunsInv, LatestShown
  <2> QED BY <2>11, <2>12
<1>4. \/ /\ run' = [run EXCEPT ![g].checking = FALSE]
         /\ UNCHANGED <<lastOutcomes, shown, bar, tracker>>
      \/ ~Superseded(g) /\
         \E o \in {world[Len(run[g].got) + 1], [Clear EXCEPT !.kind = "error"]} :
            LET got  == Append(run[g].got, o)
                last == Len(got) = NFolders
            IN  /\ run' = [run EXCEPT ![g].got = got, ![g].checking = ~last]
                /\ IF last THEN Show(g, got)
                   ELSE UNCHANGED <<lastOutcomes, shown, bar, tracker>>
    BY DEF ChildEnds
<1> QED BY <1>2, <1>3, <1>4

\* The tracker after a decision about fingerprint fp.
LEMMA NotifyKeeps ==
    ASSUME TrackerInv, display \in Displays, NEW fp \in Prints \cup {None}, Notify(fp)
    PROVE  /\ TrackerInv'
           /\ display = "notification" /\ fp \in Prints => fp \in notified'
           /\ toasts' = toasts \/ (toasts' = Append(toasts, fp) /\ fp # quieted)
<1>1. fp # None => fp \in Prints
    OBVIOUS
<1>2. fp \in Prints => fp # None
    BY NoneAssumption
<1>3. CASE fp = None
    BY <1>2, <1>3 DEF Notify, ShouldShow, TrackerInv
<1>4. CASE fp # None /\ ShouldShow(display, fp, lastShown)
  <2>1. /\ lastShown' = fp /\ toasts' = Append(toasts, fp) /\ notified' = notified \cup {fp}
        /\ quieted' = IF fp = quieted THEN quieted ELSE None
      BY <1>4 DEF Notify
  <2>2. Append(toasts, fp) \in Seq(Prints)
      BY <1>1, <1>4 DEF TrackerInv
  <2>3. fp # lastShown
      BY <1>4 DEF ShouldShow
  <2>4. fp # quieted
      BY <1>4, <2>3 DEF TrackerInv
  <2> QED BY <2>1, <2>2, <2>4 DEF TrackerInv
<1>5. CASE fp # None /\ ~ShouldShow(display, fp, lastShown)
  <2>1. /\ lastShown' = lastShown /\ toasts' = toasts /\ notified' = notified
        /\ quieted' = IF fp = quieted THEN quieted ELSE None
      BY <1>5 DEF Notify
  <2>2. display = "notification" => fp = lastShown
      BY <1>5 DEF ShouldShow
  <2> QED BY <1>5, <2>1, <2>2 DEF TrackerInv
<1> QED BY <1>3, <1>4, <1>5

LEMMA AnswerKeeps ==
    ASSUME TrackerInv, Answer
    PROVE  TrackerInv' /\ notified \subseteq notified' /\ Len(toasts') < Len(toasts)
<1>1. PICK i \in DOMAIN toasts : (Close(i) \/ Dismiss(i)) /\ toasts' = RemoveAt(toasts, i)
    BY DEF Answer
<1>2. toasts \in Seq(Prints) /\ Len(toasts) \in Nat /\ i \in 1..Len(toasts)
    BY <1>1 DEF TrackerInv
<1>3. toasts' = SubSeq(toasts, 1, i - 1) \o SubSeq(toasts, i + 1, Len(toasts))
    BY <1>1 DEF RemoveAt
<1>4. /\ SubSeq(toasts, 1, i - 1) \in Seq(Prints)
      /\ SubSeq(toasts, i + 1, Len(toasts)) \in Seq(Prints)
      /\ Len(SubSeq(toasts, 1, i - 1)) = i - 1
      /\ Len(SubSeq(toasts, i + 1, Len(toasts))) = Len(toasts) - i
    BY <1>2
<1> DEFINE before == SubSeq(toasts, 1, i - 1)
           after  == SubSeq(toasts, i + 1, Len(toasts))
<1>5. toasts' \in Seq(Prints) /\ Len(toasts') = Len(toasts) - 1
  <2>1. Len(before \o after) = Len(before) + Len(after) /\ before \o after \in Seq(Prints)
      BY <1>4, ConcatProperties
  <2>2. toasts' = before \o after
      BY <1>3
  <2>3. Len(before) = i - 1 /\ Len(after) = Len(toasts) - i
      BY <1>4
  <2> HIDE DEF before, after
  <2>4. (i - 1) + (Len(toasts) - i) = Len(toasts) - 1
      BY <1>2
  <2> QED BY <2>1, <2>2, <2>3, <2>4
<1>6. CASE Close(i)
    BY <1>2, <1>5, <1>6 DEF Close, TrackerInv
<1>7. CASE Dismiss(i)
    BY <1>2, <1>5, <1>7 DEF Dismiss, TrackerInv
<1> QED BY <1>1, <1>6, <1>7

\* What a step does to the notifications: none is added, or one that is not quiet.
LEMMA NextExtension ==
    ASSUME ExtensionInv, [Next]_vars
    PROVE  /\ ExtensionInv'
           /\ Len(toasts') > Len(toasts) => Last(toasts') # quieted
<1> USE Bounds
<1>1. RunsInv /\ TrackerInv /\ WorldInv /\ AttentionNotified /\ Len(toasts) \in Nat
    BY InvParts DEF TrackerInv
<1>2. CASE Request \/ DebounceFires
  <2>1. Refresh /\ UNCHANGED <<world, binary, display, lastShown, toasts, quieted,
                               notified, changes>>
        /\ debounce' \in BOOLEAN
      BY <1>1, <1>2 DEF Request, DebounceFires, tracker, WorldInv
  <2>2. RunsInv' /\ bar' # "cross"
      BY <1>1, <2>1, RefreshKeeps
  <2>3. WorldInv' /\ TrackerInv' /\ AttentionNotified'
      BY <1>1, <2>1, <2>2 DEF WorldInv, TrackerInv, AttentionNotified
  <2> QED BY <1>1, <2>1, <2>2, <2>3, InvParts
<1>3. CASE Configure
  <2>1. /\ Refresh /\ display' \in Displays /\ changes' \in 0..MaxChanges
        /\ lastShown' = None /\ notified' = {} /\ quieted' = None
        /\ UNCHANGED <<world, binary, debounce, toasts>>
      BY <1>1, <1>3 DEF Configure, ResetMemory, WorldInv
  <2>2. RunsInv' /\ bar' # "cross"
      BY <1>1, <2>1, RefreshKeeps
  <2>3. WorldInv' /\ TrackerInv' /\ AttentionNotified'
      BY <1>1, <2>1, <2>2 DEF WorldInv, TrackerInv, AttentionNotified
  <2> QED BY <1>1, <2>1, <2>2, <2>3, InvParts
<1>4. CASE Open \/ WorldChanges
  <2>1. /\ UNCHANGED <<display, generation, run, lastOutcomes, shown, bar, lastShown,
                       toasts, quieted, notified>>
        /\ changes' \in 0..MaxChanges /\ debounce' \in BOOLEAN /\ binary' \in BOOLEAN
    <3>1. changes \in Nat /\ changes < MaxChanges /\ changes' = changes + 1
        BY <1>1, <1>4 DEF Open, WorldChanges, WorldInv
    <3>2. binary' \in BOOLEAN /\ debounce' \in BOOLEAN
        BY <1>1, <1>4 DEF Open, WorldChanges, WorldInv
    <3>3. UNCHANGED <<display, generation, run, lastOutcomes, shown, bar, lastShown,
                      toasts, quieted, notified>>
        BY <1>4 DEF Open, WorldChanges, tracker
    <3> QED BY <3>1, <3>2, <3>3
  <2>2. world' \in [Folders -> Worlds]
      BY <1>1, <1>4 DEF Open, WorldChanges, WorldInv
  <2>3. WorldInv' /\ RunsInv' /\ TrackerInv' /\ AttentionNotified'
      BY <1>1, <2>1, <2>2 DEF WorldInv, RunsInv, LatestShown, TrackerInv, AttentionNotified
  <2> QED BY <1>1, <2>1, <2>3, InvParts
<1>5. CASE Answer
  <2>1. TrackerInv' /\ notified \subseteq notified' /\ Len(toasts') < Len(toasts)
      BY <1>1, <1>5, AnswerKeeps
  <2>2. UNCHANGED <<world, binary, display, debounce, generation, run, lastOutcomes,
                    shown, bar, changes>>
      BY <1>5 DEF Answer
  <2>3. WorldInv' /\ RunsInv' /\ AttentionNotified'
      BY <1>1, <2>1, <2>2 DEF WorldInv, RunsInv, LatestShown, AttentionNotified
  <2>4. Len(toasts') \in Nat
      BY <2>1 DEF TrackerInv
  <2> QED BY <1>1, <2>1, <2>3, <2>4, InvParts
<1>6. ASSUME NEW g \in Refreshes, ChildEnds(g)
      PROVE  /\ ExtensionInv'
             /\ Len(toasts') > Len(toasts) => Last(toasts') # quieted
  <2>1. UNCHANGED <<world, binary, display, debounce, changes>>
      BY <1>6 DEF ChildEnds
  <2>2. WorldInv'
      BY <1>1, <2>1 DEF WorldInv
  <2>3. /\ RunsInv'
        /\ \/ UNCHANGED <<lastOutcomes, shown, bar, tracker>>
           \/ bar' = Tier(lastOutcomes') /\ Notify(Fingerprint(lastOutcomes'))
      BY <1>1, <1>6, ChildEndsKeepsRuns
  <2>4. CASE UNCHANGED <<lastOutcomes, shown, bar, tracker>>
    <3>1. TrackerInv' /\ AttentionNotified' /\ toasts' = toasts
        BY <1>1, <2>1, <2>4 DEF TrackerInv, AttentionNotified, tracker
    <3> QED BY <1>1, <2>2, <2>3, <3>1, InvParts
  <2>5. CASE bar' = Tier(lastOutcomes') /\ Notify(Fingerprint(lastOutcomes'))
    <3> DEFINE fp == Fingerprint(lastOutcomes')
    <3>1. fp \in Prints \cup {None} /\ (bar' = "cross" => fp \in Prints)
        BY <2>3, <2>5, FingerprintFacts DEF RunsInv
    <3>2. Notify(fp) /\ display \in Displays
        BY <1>1, <2>5 DEF WorldInv
    <3>3. AttentionNotified' <=> (display' = "notification" /\ bar' = "cross" => fp \in notified')
        BY DEF AttentionNotified
    <3> HIDE DEF fp
    <3>4. /\ TrackerInv'
          /\ display = "notification" /\ fp \in Prints => fp \in notified'
          /\ toasts' = toasts \/ (toasts' = Append(toasts, fp) /\ fp # quieted)
        BY <1>1, <3>1, <3>2, NotifyKeeps
    <3>5. AttentionNotified'
        BY <2>1, <3>1, <3>3, <3>4
    <3>6. toasts' = Append(toasts, fp) => Last(toasts') = fp
        BY <1>1 DEF TrackerInv, Last
    <3> QED BY <1>1, <2>2, <2>3, <3>4, <3>5, <3>6, InvParts
  <2> QED BY <2>3, <2>4, <2>5
<1>7. CASE UNCHANGED vars
  <2>1. WorldInv' /\ RunsInv' /\ TrackerInv' /\ AttentionNotified' /\ toasts' = toasts
      BY <1>1, <1>7 DEF vars, WorldInv, RunsInv, LatestShown, TrackerInv, AttentionNotified
  <2> QED BY <1>1, <2>1, InvParts
<1> QED BY <1>2, <1>3, <1>4, <1>5, <1>6, <1>7 DEF Next
-------------------------------------------------------------------------------
\* However many refreshes supersede each other and whatever the user answers, the
\* invariant of the extension holds.
THEOREM ExtensionCorrect == Spec => []ExtensionInv
<1>1. Init => ExtensionInv
    BY InitExtension
<1>2. ExtensionInv /\ [Next]_vars => ExtensionInv'
    BY NextExtension
<1> QED BY <1>1, <1>2, PTL DEF Spec

\* The status bar never settles on the result of a superseded refresh
\* (extension.ts:146-173).
THEOREM LatestShownCorrect == Spec => []LatestShown
<1>1. ExtensionInv => LatestShown
    BY DEF ExtensionInv
<1> QED BY <1>1, ExtensionCorrect, PTL

\* Cross-machine attention on the status bar was notified or dismissed
\* (extension.ts:190-205).
THEOREM AttentionNotifiedCorrect == Spec => []AttentionNotified
<1>1. ExtensionInv => AttentionNotified
    BY DEF ExtensionInv
<1> QED BY <1>1, ExtensionCorrect, PTL

\* At most one refresh checks and is not aborted (extension.ts:131-145).
THEOREM OneAtATimeCorrect == Spec => []OneAtATime
<1>1. ExtensionInv => OneAtATime
  <2> DEFINE S == {g \in Refreshes : run[g].checking /\ ~run[g].aborted}
  <2> SUFFICES ASSUME ExtensionInv PROVE Cardinality(S) <= 1
      BY DEF OneAtATime
  <2>1. S \subseteq {generation}
      BY DEF ExtensionInv
  <2>2. S = {} \/ S = {generation}
      BY <2>1
  <2>3. Cardinality(S) = 0 \/ Cardinality(S) = 1
    <3> HIDE DEF S
    <3> QED BY <2>2, FS_EmptySet, FS_Singleton
  <2> QED BY <2>3
<1> QED BY <1>1, ExtensionCorrect, PTL

\* A notification that is added is not of the fingerprint that was dismissed,
\* while it is what refreshes report (notification.ts:137-140).
THEOREM NoRespamCorrect == Spec => NoRespam
<1>1. ExtensionInv /\ [Next]_vars
         => [Len(toasts') > Len(toasts) => Last(toasts') # quieted]_vars
    BY NextExtension
<1> QED BY <1>1, ExtensionCorrect, PTL DEF Spec, NoRespam
===============================================================================
