--------------------------- MODULE StickyConfigProofs --------------------------
(* Theorems about StickyConfig: a machine keeps one identity, an install      *)
(* sticks, and no process runs under an id that is not in the file.           *)
EXTENDS StickyConfig, FiniteSetTheorems, TLAPS

LEMMA Constants ==
    /\ MaxStarts \in Nat /\ MaxFaults \in Nat
    /\ None \notin Repos /\ None # Chosen /\ None # Host /\ None \notin Generated
    /\ Unset \notin Repos \cup {None, Chosen}
BY StickyAssumption DEF Generated

\* The fields of a process.
Fields(q) ==
    /\ q.pc \in Places /\ q.mode \in {"agent", "install"}
    /\ q.repo \in Repos \cup {None} /\ q.id \in Ids \cup {None}
    /\ q.ensure \in BOOLEAN /\ q.persist \in BOOLEAN /\ q.made \in BOOLEAN
    /\ q.saving \in Configs /\ q.next \in Places

LEMMA ProcessFields == ASSUME NEW q \in Processes PROVE Fields(q)
BY DEF Processes, Fields

LEMMA OffFacts ==
    /\ Off \in Processes /\ Empty \in Configs /\ Empty.id = None /\ Empty.repo = None
    /\ Off.pc = "off" /\ Off.made = FALSE
<1>1. Empty \in Configs /\ Empty.id = None /\ Empty.repo = None
    BY DEF Empty, Configs
<1>2. Off \in Processes
    BY <1>1 DEF Off, Processes, Places
<1> QED BY <1>1, <1>2 DEF Off

LEMMA ConfigFields ==
    ASSUME NEW c \in Configs
    PROVE  c.repo \in Repos \cup {None} /\ c.id \in Ids \cup {None}
BY DEF Configs

LEMMA FileFields ==
    ASSUME TypeOK
    PROVE  /\ file.cfg \in Configs /\ file.exists \in BOOLEAN
           /\ file.cfg.repo \in Repos \cup {None} /\ file.cfg.id \in Ids \cup {None}
<1>1. file.cfg \in Configs /\ file.exists \in BOOLEAN
    BY DEF TypeOK
<1> QED BY <1>1, ConfigFields

\* Two processes agree but for where they are.
Same(q, r) ==
    /\ q.mode = r.mode /\ q.repo = r.repo /\ q.id = r.id /\ q.ensure = r.ensure
    /\ q.persist = r.persist /\ q.made = r.made

LEMMA GotoEffect ==
    ASSUME TypeOK, NEW p \in Procs, NEW l \in Places, Goto(p, l)
    PROVE  /\ proc' \in [Procs -> Processes]
           /\ \A q \in Procs \ {p} : proc'[q] = proc[q]
           /\ l = "off" => proc'[p] = Off /\ ran' = ran
           /\ l # "off" =>
                /\ proc'[p].pc = l /\ Same(proc'[p], proc[p])
                /\ proc'[p].saving = proc[p].saving /\ proc'[p].next = proc[p].next
           /\ ran' = IF l = "running" /\ proc[p].made THEN ran \cup {proc[p].id} ELSE ran
<1> DEFINE n == IF l = "off" THEN Off ELSE [proc[p] EXCEPT !.pc = l]
<1>1. /\ proc' = [proc EXCEPT ![p] = n] /\ proc \in [Procs -> Processes]
      /\ proc[p] \in Processes
    BY DEF Goto, TypeOK
<1>2. CASE l # "off"
  <2>1. n = [proc[p] EXCEPT !.pc = l]
      BY <1>2
  <2>2. /\ n \in Processes /\ n.pc = l /\ Same(n, proc[p])
        /\ n.saving = proc[p].saving /\ n.next = proc[p].next
      BY <1>1, <2>1 DEF Processes, Same
  <2> HIDE DEF n
  <2>3. proc'[p] = n /\ \A q \in Procs \ {p} : proc'[q] = proc[q]
      BY <1>1
  <2>4. proc' \in [Procs -> Processes]
      BY <1>1, <2>2
  <2> QED BY <1>2, <2>2, <2>3, <2>4 DEF Goto
<1>3. CASE l = "off"
  <2>1. n = Off
      BY <1>3
  <2> HIDE DEF n
  <2> QED BY <1>1, <1>3, <2>1, OffFacts DEF Goto
<1> QED BY <1>2, <1>3

LEMMA SavesEffect ==
    ASSUME TypeOK, NEW p \in Procs, NEW c \in Configs, NEW l \in Places, Saves(p, c, l)
    PROVE  /\ proc' \in [Procs -> Processes]
           /\ \A q \in Procs \ {p} : proc'[q] = proc[q]
           /\ proc'[p].pc = "truncate" /\ Same(proc'[p], proc[p])
           /\ proc'[p].saving = c /\ proc'[p].next = l /\ ran' = ran
<1> DEFINE n == [proc[p] EXCEPT !.pc = "truncate", !.saving = c, !.next = l]
<1>1. /\ proc' = [proc EXCEPT ![p] = n] /\ proc \in [Procs -> Processes]
      /\ proc[p] \in Processes /\ ran' = ran
    BY DEF Saves, TypeOK
<1>2. /\ n \in Processes /\ n.pc = "truncate" /\ Same(n, proc[p])
      /\ n.saving = c /\ n.next = l
    BY <1>1 DEF Processes, Same, Places
<1> HIDE DEF n
<1>3. proc'[p] = n /\ \A q \in Procs \ {p} : proc'[q] = proc[q]
    BY <1>1
<1>4. proc' \in [Procs -> Processes]
    BY <1>1, <1>2
<1> QED BY <1>1, <1>2, <1>3, <1>4

\* What a start resolves.
LEMMA StartedFacts ==
    ASSUME TypeOK, NEW inv \in Invocations, NEW n \in Generated
    PROVE  LET s == Started(inv, n)
           IN  \/ s = Off
               \/ /\ s \in Processes /\ s.repo # None /\ s.id # None
                  /\ s.pc = IF s.mode = "install" THEN "truncate" ELSE "config"
                  /\ s.made => s.persist /\ s.id = n /\ file.cfg.id = None
                  /\ s.mode = "install" =>
                        s.saving = [repo |-> s.repo, id |-> s.id] /\ s.next = "running"
<1> DEFINE repo == Resolved(inv.repoFlag, inv.repoEnv, file.cfg.repo)
           id   == Resolved(inv.idFlag, inv.idEnv, file.cfg.id)
           made == MakesId(inv, id, file.cfg)
           own  == IF made THEN n ELSE IF id = None THEN Host ELSE id
           s == [pc      |-> IF inv.mode = "install" THEN "truncate" ELSE "config",
                 mode    |-> inv.mode, repo |-> repo, id |-> own,
                 ensure  |-> inv.repoFlag # Unset,
                 persist |-> made \/ inv.idFlag # Unset,
                 made    |-> made,
                 saving  |-> IF inv.mode = "install" THEN [repo |-> repo, id |-> own]
                             ELSE Empty,
                 next    |-> IF inv.mode = "install" THEN "running" ELSE "off"]
<1>1. Started(inv, n) = IF repo = None THEN Off ELSE s
    BY DEF Started, Lacking
<1>2. /\ inv.mode \in {"agent", "install"}
      /\ inv.repoFlag \in Repos \cup {None, Unset} /\ inv.repoEnv \in Repos \cup {None}
      /\ inv.idFlag \in {Chosen, None, Unset} /\ inv.idEnv \in {Chosen, None}
    BY DEF Invocations
<1>3. repo \in Repos \cup {None}
    BY <1>2, FileFields DEF Resolved
<1>4. id \in Ids \cup {None}
    BY <1>2, FileFields DEF Resolved, Ids
<1>5. made \in BOOLEAN /\ (made => file.cfg.id = None)
    BY DEF MakesId
<1> HIDE DEF repo, id, made
<1>6. own \in Ids /\ own # None /\ (made => own = n)
    BY <1>4, Constants DEF Ids
<1> HIDE DEF own
<1>7. (inv.repoFlag # Unset) \in BOOLEAN /\ (made \/ inv.idFlag # Unset) \in BOOLEAN
    OBVIOUS
<1>8. [repo |-> repo, id |-> own] \in Configs
    BY <1>3, <1>6 DEF Configs
<1>9. CASE repo = None
    BY <1>1, <1>9
<1>10. CASE repo # None
  <2>1. Started(inv, n) = s
      BY <1>1, <1>10
  <2>2. /\ s.pc = (IF s.mode = "install" THEN "truncate" ELSE "config")
        /\ s.repo = repo /\ s.id = own /\ s.made = made /\ s.mode = inv.mode
        /\ s.persist = (made \/ inv.idFlag # Unset)
        /\ s.saving = (IF inv.mode = "install" THEN [repo |-> repo, id |-> own] ELSE Empty)
        /\ s.next = (IF inv.mode = "install" THEN "running" ELSE "off")
      OBVIOUS
  <2>3. CASE inv.mode = "install"
    <3>1. s \in Processes
        BY <1>3, <1>5, <1>6, <1>7, <1>8, <2>3 DEF Processes, Places
    <3> HIDE DEF s
    <3> QED BY <1>5, <1>6, <1>10, <2>1, <2>2, <2>3, <3>1
  <2>4. CASE inv.mode = "agent"
    <3>1. s \in Processes
        BY <1>3, <1>5, <1>6, <1>7, <2>4, OffFacts DEF Processes, Places
    <3> HIDE DEF s
    <3> QED BY <1>5, <1>6, <1>10, <2>1, <2>2, <2>4, <3>1
  <2> QED BY <1>2, <2>3, <2>4
<1> QED BY <1>9, <1>10
-------------------------------------------------------------------------------
(* The invariant.                                                            *)

LEMMA InitSticky == ASSUME Init PROVE StickyInv
<1> USE Constants, OffFacts DEF Init
<1>1. TypeOK
  <2>1. file \in [exists : BOOLEAN, cfg : Configs]
      OBVIOUS
  <2>2. starts \in 0..MaxStarts /\ faults \in 0..MaxFaults
      OBVIOUS
  <2>3. \A p \in Procs : proc[p].pc = "off"
      OBVIOUS
  <2>4. proc \in [Procs -> Processes]
      OBVIOUS
  <2> QED BY <2>1, <2>2, <2>3, <2>4 DEF TypeOK
<1>2. \A p \in Procs : ProcInv(p) /\ ~Starting(p) /\ ~Saving(p)
    BY DEF ProcInv, Starting, Saving, Generated
<1>3. AloneInv
    BY <1>2 DEF AloneInv
<1>4. FaultlessInv
  <2>1. Host \in Ids
      BY DEF Ids
  <2> QED BY <1>2, <2>1 DEF FaultlessInv
<1> QED BY <1>1, <1>2, <1>3, <1>4 DEF StickyInv

\* What the invariant says of the process that takes a step.
LEMMA Stepping ==
    ASSUME StickyInv, NEW p \in Procs
    PROVE  /\ proc[p] \in Processes /\ Fields(proc[p]) /\ ProcInv(p)
           /\ proc[p].pc # "off" => proc[p].repo # None /\ proc[p].id # None
           /\ starts \in Nat /\ starts <= MaxStarts
           /\ faults \in Nat /\ faults <= MaxFaults /\ raced \in BOOLEAN
           /\ ~raced /\ Starting(p) =>
                 \A q \in Procs \ {p} : ~Starting(q) /\ ~Saving(q)
           /\ Saving(p) => Starting(p)
<1>1. TypeOK /\ ProcInv(p) /\ AloneInv
    BY DEF StickyInv
<1>2. proc[p] \in Processes
    BY <1>1 DEF TypeOK
<1>3. \A q \in Procs : Saving(q) => Starting(q)
    BY DEF Saving, Starting
<1>4. ~raced /\ Starting(p) => \A q \in Procs \ {p} : ~Starting(q) /\ ~Saving(q)
    BY <1>1, <1>3 DEF AloneInv
<1>5. /\ starts \in Nat /\ starts <= MaxStarts
      /\ faults \in Nat /\ faults <= MaxFaults /\ raced \in BOOLEAN
    BY <1>1, Constants DEF TypeOK
<1> QED BY <1>1, <1>2, <1>3, <1>4, <1>5, ProcessFields DEF TypeOK

\* A step of p leaves what holds of the other processes alone.
LEMMA OthersStay ==
    ASSUME StickyInv, NEW p \in Procs, \A q \in Procs \ {p} : proc'[q] = proc[q]
    PROVE  \A q \in Procs \ {p} :
               /\ ProcInv(q)' /\ Starting(q)' = Starting(q) /\ Saving(q)' = Saving(q)
               /\ proc'[q].pc # "off" => proc'[q].repo # None /\ proc'[q].id # None
<1>1. ASSUME NEW q \in Procs \ {p}
      PROVE  /\ ProcInv(q)' /\ Starting(q)' = Starting(q) /\ Saving(q)' = Saving(q)
             /\ proc'[q].pc # "off" => proc'[q].repo # None /\ proc'[q].id # None
  <2>1. proc'[q] = proc[q] /\ ProcInv(q)
      BY <1>1 DEF StickyInv
  <2> QED BY <2>1 DEF StickyInv, TypeOK, ProcInv, Starting, Saving
<1> QED BY <1>1

LEMMA StartKeeps == ASSUME StickyInv, NEW p \in Procs, Start(p) PROVE StickyInv'
<1>1. PICK inv \in Invocations : proc' = [proc EXCEPT ![p] = Started(inv, starts')]
    BY DEF Start
<1> DEFINE s == Started(inv, starts')
<1>2. /\ proc[p].pc = "off" /\ starts < MaxStarts /\ starts' = starts + 1
      /\ raced' = (raced \/ ~Settled) /\ UNCHANGED <<file, faults, installed, ran>>
    BY DEF Start
<1>3. starts' \in Generated /\ starts' \in 0..MaxStarts
    BY <1>2, Stepping, Constants DEF Generated
<1>4. \/ s = Off
      \/ /\ s \in Processes /\ s.repo # None /\ s.id # None
         /\ s.pc = IF s.mode = "install" THEN "truncate" ELSE "config"
         /\ s.made => s.persist /\ s.id = starts' /\ file.cfg.id = None
         /\ s.mode = "install" =>
               s.saving = [repo |-> s.repo, id |-> s.id] /\ s.next = "running"
    BY <1>3, StartedFacts DEF StickyInv
<1>5. s \in Processes
    BY <1>4, OffFacts
<1> HIDE DEF s
<1>6. /\ proc'[p] = s /\ \A q \in Procs \ {p} : proc'[q] = proc[q]
      /\ proc' \in [Procs -> Processes]
    BY <1>1, <1>5 DEF s, StickyInv, TypeOK
<1>7. s.pc # "off" => s.repo # None /\ s.id # None
    BY <1>4, OffFacts
<1>8. ProcInv(p)'
  <2>1. s.pc = "off" => s = Off
      BY <1>4
  <2>2. s.made => s.persist /\ s.id \in Generated
      BY <1>3, <1>4, OffFacts
  <2>3. s.mode \in {"agent", "install"}
      BY <1>5, ProcessFields DEF Fields
  <2>4. s.pc \in {"config", "id"} => s.mode = "agent"
      BY <1>4, <2>3, OffFacts
  <2>5. s.pc \in {"truncate", "write"} =>
            /\ s.mode = "install" /\ s.saving = [repo |-> s.repo, id |-> s.id]
            /\ s.next = "running" /\ s.saving.id # None
    <3>1. s.saving = [repo |-> s.repo, id |-> s.id] => s.saving.id = s.id
        OBVIOUS
    <3> QED BY <1>4, <2>3, <3>1, OffFacts
  <2> QED BY <1>6, <2>1, <2>2, <2>4, <2>5 DEF ProcInv, Saving
<1>9. TypeOK'
  <2>1. \A q \in Procs : proc'[q].pc # "off" => proc'[q].repo # None /\ proc'[q].id # None
      BY <1>6, <1>7, OthersStay
  <2>2. raced' \in BOOLEAN
      BY <1>2
  <2> QED BY <1>2, <1>3, <1>6, <2>1, <2>2 DEF StickyInv, TypeOK
<1>10. \A q \in Procs : ProcInv(q)'
    BY <1>6, <1>8, OthersStay
<1>11. ASSUME ~raced'
       PROVE  /\ ~raced /\ \A q \in Procs : ~Starting(q) /\ ~Saving(q)
              /\ \A q \in Procs \ {p} : ~Starting(q)' /\ ~Saving(q)'
  <2>1. ~raced /\ Settled
      BY <1>2, <1>11
  <2>2. \A q \in Procs : ~Starting(q) /\ ~Saving(q)
      BY <2>1 DEF Settled, Starting, Saving
  <2> QED BY <1>6, <2>1, <2>2, OthersStay
<1>12. s.made => file.cfg.id = None
    BY <1>4, OffFacts
<1>13. AloneInv'
  <2> SUFFICES ASSUME ~raced'
               PROVE  Starting(p)' /\ s.made =>
                         /\ file.cfg.id \in {None, s.id}
                         /\ Saving(p)' => s.saving.id = s.id
      BY <1>2, <1>6, <1>11 DEF AloneInv
  <2>1. Saving(p)' => s.saving = [repo |-> s.repo, id |-> s.id]
    <3>1. s.mode \in {"agent", "install"}
        BY <1>5, ProcessFields DEF Fields
    <3> QED BY <1>4, <1>6, <3>1, OffFacts DEF Saving
  <2>2. Saving(p)' => s.saving.id = s.id
    <3>1. s.saving = [repo |-> s.repo, id |-> s.id] => s.saving.id = s.id
        OBVIOUS
    <3> QED BY <2>1, <3>1
  <2> QED BY <1>12, <2>2
<1>14. FaultlessInv'
  <2> SUFFICES ASSUME faults = 0, ~raced'
               PROVE  /\ file.cfg.id = None => ran = {}
                      /\ \A q \in Procs : Starting(q)' /\ proc'[q].made => ran = {}
                      /\ \E i \in Ids : ran \subseteq {i}
                      /\ installed # Empty =>
                            /\ installed.repo # None /\ installed.id # None
                            /\ \A q \in Procs : Saving(q)' => proc'[q].mode = "install"
                            /\ file.cfg = installed
      BY <1>2 DEF FaultlessInv
  <2>1. ~raced /\ \A q \in Procs : ~Saving(q) /\ proc[q].pc # "write"
      BY <1>11 DEF Saving
  <2>2. /\ file.cfg.id = None => ran = {}
        /\ \E i \in Ids : ran \subseteq {i}
        /\ installed # Empty =>
              /\ installed.repo # None /\ installed.id # None
              /\ file.cfg = installed
      BY <2>1 DEF StickyInv, FaultlessInv
  <2>3. \A q \in Procs : Starting(q)' /\ proc'[q].made => ran = {}
      BY <1>6, <1>11, <1>12, <2>2
  <2>4. \A q \in Procs : Saving(q)' => proc'[q].mode = "install"
    <3>1. s.pc = "truncate" \/ s.pc = "write" => s.mode = "install"
        BY <1>4, OffFacts
    <3> QED BY <1>6, <1>11, <3>1 DEF Saving
  <2> QED BY <2>2, <2>3, <2>4
<1> QED BY <1>9, <1>10, <1>13, <1>14 DEF StickyInv

\* The parts of the invariant after a step of p that starts no process.
LEMMA Reassemble ==
    ASSUME StickyInv, NEW p \in Procs, proc' \in [Procs -> Processes],
           \A q \in Procs \ {p} : proc'[q] = proc[q],
           proc'[p].pc # "off" => proc'[p].repo # None /\ proc'[p].id # None,
           ProcInv(p)', file' \in [exists : BOOLEAN, cfg : Configs],
           installed' \in Configs, faults' \in 0..MaxFaults,
           ran' \subseteq Generated, starts' = starts, raced' = raced,
           Starting(p)' => Starting(p),
           ~raced /\ Starting(p)' /\ proc'[p].made =>
               /\ file'.cfg.id \in {None, proc'[p].id}
               /\ Saving(p)' => proc'[p].saving.id = proc'[p].id,
           Starting(p) \/ file' = file,
           FaultlessInv'
    PROVE  StickyInv'
<1>1. \A q \in Procs \ {p} :
         /\ ProcInv(q)' /\ Starting(q)' = Starting(q) /\ Saving(q)' = Saving(q)
         /\ proc'[q].pc # "off" => proc'[q].repo # None /\ proc'[q].id # None
    BY OthersStay
<1>2. TypeOK'
  <2>1. \A q \in Procs : proc'[q].pc # "off" => proc'[q].repo # None /\ proc'[q].id # None
      BY <1>1
  <2> QED BY <2>1 DEF StickyInv, TypeOK
<1>3. \A q \in Procs : ProcInv(q)'
    BY <1>1
<1>4. ASSUME ~raced, NEW q \in Procs, Starting(q)'
      PROVE  /\ \A r \in Procs \ {q} : ~Starting(r)'
             /\ proc'[q].made =>
                  /\ file'.cfg.id \in {None, proc'[q].id}
                  /\ Saving(q)' => proc'[q].saving.id = proc'[q].id
  <2>1. Starting(q)
      BY <1>1, <1>4
  <2>2. \A r \in Procs \ {q} : ~Starting(r)
      BY <1>4, <2>1 DEF StickyInv, AloneInv
  <2>3. \A r \in Procs \ {q} : ~Starting(r)'
      BY <1>1, <2>2
  <2>4. CASE q = p
      BY <1>4, <2>3, <2>4
  <2>5. CASE q # p
    <3>1. ~Starting(p) /\ file' = file /\ proc'[q] = proc[q]
        BY <2>2, <2>5
    <3>2. proc[q].made =>
             /\ file.cfg.id \in {None, proc[q].id}
             /\ Saving(q) => proc[q].saving.id = proc[q].id
        BY <1>4, <2>1 DEF StickyInv, AloneInv
    <3> QED BY <1>1, <2>3, <2>5, <3>1, <3>2
  <2> QED BY <2>4, <2>5
<1>5. AloneInv'
    BY <1>4 DEF AloneInv
<1> QED BY <1>2, <1>3, <1>5 DEF StickyInv

\* A process that starts no longer, or never did: crashed, failed or ended.
LEMMA DropsOut ==
    ASSUME StickyInv, NEW p \in Procs, proc[p].pc # "off", Goto(p, "off"),
           faults' \in 0..MaxFaults, faults' # faults \/ proc[p].pc = "running",
           faults' = faults \/ faults' = faults + 1,
           UNCHANGED <<file, starts, raced, installed>>
    PROVE  StickyInv'
<1>1. /\ proc' \in [Procs -> Processes] /\ \A q \in Procs \ {p} : proc'[q] = proc[q]
      /\ proc'[p] = Off /\ ran' = ran
    BY GotoEffect DEF StickyInv, Places
<1>2. ProcInv(p)' /\ ~Starting(p)' /\ ~Saving(p)' /\ proc'[p].pc = "off"
    BY <1>1, OffFacts DEF ProcInv, Starting, Saving
<1>3. \A q \in Procs \ {p} : Starting(q)' = Starting(q) /\ Saving(q)' = Saving(q)
    BY <1>1, OthersStay
<1>4. FaultlessInv'
  <2>1. CASE faults' = faults
    <3>1. proc[p].pc = "running" /\ ~Saving(p) /\ proc[p].pc # "write"
        BY <2>1 DEF Saving
    <3>2. ASSUME faults = 0, ~raced
          PROVE  /\ file.cfg.id = None => ran = {} \/ \E q \in Procs : proc[q].pc = "write"
                 /\ \A q \in Procs : Starting(q) /\ proc[q].made => ran = {}
                 /\ \E i \in Ids : ran \subseteq {i}
                 /\ installed # Empty =>
                      /\ installed.repo # None /\ installed.id # None
                      /\ \A q \in Procs : Saving(q) => proc[q].mode = "install"
                      /\ file.cfg = installed \/ \E q \in Procs : Saving(q)
        BY <3>2 DEF StickyInv, FaultlessInv
    <3>3. \A q \in Procs : proc[q].pc = "write" => proc'[q].pc = "write"
        BY <1>1, <3>1
    <3>4. \A q \in Procs : Saving(q) <=> Saving(q)'
        BY <1>2, <1>3, <3>1
    <3>5. \A q \in Procs : Starting(q)' => Starting(q) /\ proc'[q] = proc[q]
        BY <1>1, <1>2, <1>3
    <3>6. \A q \in Procs : Saving(q)' => proc'[q] = proc[q]
        BY <1>1, <1>2
    <3> QED BY <1>1, <2>1, <3>2, <3>3, <3>4, <3>5, <3>6 DEF FaultlessInv
  <2>2. CASE faults' # faults
    <3>1. faults' # 0
        BY <2>2, Stepping
    <3> QED BY <3>1 DEF FaultlessInv
  <2> QED BY <2>1, <2>2
<1>5. Starting(p) \/ file' = file
    OBVIOUS
<1>6. /\ file' \in [exists : BOOLEAN, cfg : Configs] /\ installed' \in Configs
      /\ ran' \subseteq Generated
    BY <1>1 DEF StickyInv, TypeOK
<1> QED BY <1>1, <1>2, <1>4, <1>6, Reassemble

LEMMA EndKeeps == ASSUME StickyInv, NEW p \in Procs, End(p) PROVE StickyInv'
<1>1. faults' \in 0..MaxFaults /\ faults' = faults
    BY DEF End, StickyInv, TypeOK
<1> QED BY <1>1, DropsOut DEF End

LEMMA FaultCounts ==
    ASSUME StickyInv, faults < MaxFaults, faults' = faults + 1
    PROVE  faults' \in 0..MaxFaults /\ faults' # 0 /\ faults' # faults
BY Constants DEF StickyInv, TypeOK

LEMMA CrashKeeps == ASSUME StickyInv, NEW p \in Procs, Crash(p) PROVE StickyInv'
BY DropsOut, FaultCounts DEF Crash

LEMMA SaveFailsKeeps == ASSUME StickyInv, NEW p \in Procs, SaveFails(p) PROVE StickyInv'
<1>1. /\ Saving(p) /\ Starting(p) /\ proc[p].pc # "off"
      /\ faults' \in 0..MaxFaults /\ faults' # 0 /\ faults' # faults /\ faults' = faults + 1
      /\ UNCHANGED <<file, starts, raced, installed>>
    BY FaultCounts DEF SaveFails, Saving, Starting
<1>2. CASE Fatal(p)
  <2>1. Goto(p, "off")
      BY <1>2 DEF SaveFails
  <2> QED BY <1>1, <2>1, DropsOut
<1>3. CASE ~Fatal(p)
  <2> DEFINE l == proc[p].next
  <2>1. Goto(p, l)
      BY <1>3 DEF SaveFails
  <2>2. /\ l \in {"id", "running"} /\ proc[p].mode = "agent" /\ proc[p].id # None
        /\ proc[p].repo # None /\ (l = "running" => ~proc[p].made)
        /\ proc[p].made => proc[p].persist /\ proc[p].id \in Generated
    <3>1. Fields(proc[p]) /\ ProcInv(p)
        BY Stepping
    <3> QED BY <1>1, <1>3, <3>1, Stepping DEF Fatal, ProcInv, Fields
  <2> HIDE DEF l
  <2>3. /\ proc' \in [Procs -> Processes] /\ \A q \in Procs \ {p} : proc'[q] = proc[q]
        /\ proc'[p].pc = l /\ Same(proc'[p], proc[p]) /\ ran' = ran
    <3>1. l \in Places /\ l # "off"
        BY <2>2 DEF Places
    <3> QED BY <2>1, <2>2, <3>1, GotoEffect DEF StickyInv
  <2>4. ProcInv(p)' /\ ~Saving(p)'
      BY <2>2, <2>3 DEF ProcInv, Saving, Same
  <2>5. FaultlessInv'
      BY <1>1 DEF FaultlessInv
  <2>6. ~raced /\ Starting(p)' /\ proc'[p].made => file'.cfg.id \in {None, proc'[p].id}
      BY <1>1, <2>3 DEF StickyInv, AloneInv, Same
  <2>7. /\ file' \in [exists : BOOLEAN, cfg : Configs] /\ installed' \in Configs
        /\ ran' \subseteq Generated
      BY <1>1, <2>3 DEF StickyInv, TypeOK
  <2>8. proc'[p].repo # None /\ proc'[p].id # None
      BY <2>2, <2>3 DEF Same
  <2> QED BY <1>1, <2>3, <2>4, <2>5, <2>6, <2>7, <2>8, Reassemble
<1> QED BY <1>2, <1>3

LEMMA TruncateKeeps == ASSUME StickyInv, NEW p \in Procs, Truncate(p) PROVE StickyInv'
<1>1. /\ proc[p].pc = "truncate" /\ Saving(p) /\ Starting(p)
      /\ file' = [exists |-> TRUE, cfg |-> Empty] /\ Goto(p, "write")
      /\ UNCHANGED <<starts, faults, raced, installed>>
    BY DEF Truncate, Saving, Starting
<1>2. /\ proc' \in [Procs -> Processes] /\ \A q \in Procs \ {p} : proc'[q] = proc[q]
      /\ proc'[p].pc = "write" /\ Same(proc'[p], proc[p]) /\ ran' = ran
      /\ proc'[p].saving = proc[p].saving /\ proc'[p].next = proc[p].next
    BY <1>1, GotoEffect DEF StickyInv, Places
<1>3. ProcInv(p)' /\ Saving(p)' /\ Starting(p)'
    BY <1>1, <1>2, Stepping DEF ProcInv, Saving, Starting, Same
<1>4. file' \in [exists : BOOLEAN, cfg : Configs] /\ file'.cfg.id = None
    BY <1>1, OffFacts
<1>5. ~raced /\ proc'[p].made => proc'[p].saving.id = proc'[p].id
    BY <1>1, <1>2 DEF StickyInv, AloneInv, Same
<1>6. FaultlessInv'
  <2> SUFFICES ASSUME faults = 0, ~raced
               PROVE  /\ \A q \in Procs : Starting(q)' /\ proc'[q].made => ran = {}
                      /\ \E i \in Ids : ran \subseteq {i}
                      /\ installed # Empty =>
                            /\ installed.repo # None /\ installed.id # None
                            /\ \A q \in Procs : Saving(q)' => proc'[q].mode = "install"
      BY <1>1, <1>2, <1>3 DEF FaultlessInv
  <2>1. /\ \A q \in Procs : Starting(q) /\ proc[q].made => ran = {}
        /\ \E i \in Ids : ran \subseteq {i}
        /\ installed # Empty =>
             /\ installed.repo # None /\ installed.id # None
             /\ \A q \in Procs : Saving(q) => proc[q].mode = "install"
      BY DEF StickyInv, FaultlessInv
  <2>2. \A q \in Procs \ {p} : ~Starting(q)' /\ ~Saving(q)'
      BY <1>1, <1>2, Stepping, OthersStay
  <2> QED BY <1>1, <1>2, <2>1, <2>2 DEF Same
<1>7. proc'[p].repo # None /\ proc'[p].id # None
    BY <1>1, <1>2, Stepping DEF Same
<1>8. installed' \in Configs /\ faults' \in 0..MaxFaults /\ ran' \subseteq Generated
    BY <1>1, <1>2 DEF StickyInv, TypeOK
<1> QED BY <1>1, <1>2, <1>3, <1>4, <1>5, <1>6, <1>7, <1>8, Reassemble

\* An id that was made up is used when the process with it is up.
LEMMA RanFacts ==
    ASSUME StickyInv, NEW p \in Procs, NEW l \in {"id", "running"}, Goto(p, l),
           Starting(p)
    PROVE  /\ proc' \in [Procs -> Processes] /\ \A q \in Procs \ {p} : proc'[q] = proc[q]
           /\ proc'[p].pc = l /\ Same(proc'[p], proc[p]) /\ ~Saving(p)'
           /\ ran' \subseteq Generated
           /\ faults = 0 /\ ~raced =>
                 /\ \E i \in Ids : ran' \subseteq {i}
                 /\ \A q \in Procs : Starting(q)' /\ proc'[q].made => ran' = {}
           /\ proc'[p].repo # None /\ proc'[p].id # None
<1>1. /\ proc' \in [Procs -> Processes] /\ \A q \in Procs \ {p} : proc'[q] = proc[q]
      /\ proc'[p].pc = l /\ Same(proc'[p], proc[p])
      /\ ran' = IF l = "running" /\ proc[p].made THEN ran \cup {proc[p].id} ELSE ran
    BY GotoEffect DEF StickyInv, Places
<1>2. ~Saving(p)' /\ (l = "running" => ~Starting(p)')
    BY <1>1 DEF Saving, Starting
<1>3. ProcInv(p) /\ proc[p].pc # "off"
    BY Stepping DEF Starting
<1>4. ran \subseteq Generated /\ (proc[p].made => proc[p].id \in Generated)
    BY <1>3 DEF StickyInv, TypeOK, ProcInv
<1>5. ASSUME faults = 0, ~raced
      PROVE  /\ \E i \in Ids : ran' \subseteq {i}
             /\ \A q \in Procs : Starting(q)' /\ proc'[q].made => ran' = {}
  <2>1. /\ \A q \in Procs : Starting(q) /\ proc[q].made => ran = {}
        /\ \E i \in Ids : ran \subseteq {i}
      BY <1>5 DEF StickyInv, FaultlessInv
  <2>2. \A q \in Procs \ {p} : ~Starting(q)'
      BY <1>1, <1>5, Stepping, OthersStay
  <2>3. CASE l = "running" /\ proc[p].made
    <3>1. ran' = {proc[p].id} /\ proc[p].id \in Ids
        BY <1>1, <1>4, <2>1, <2>3 DEF Ids
    <3> QED BY <1>2, <2>2, <2>3, <3>1
  <2>4. CASE ~(l = "running" /\ proc[p].made)
    <3>1. ran' = ran
        BY <1>1, <2>4
    <3> QED BY <1>1, <2>1, <2>2, <3>1 DEF Same
  <2> QED BY <2>3, <2>4
<1>6. proc'[p].repo # None /\ proc'[p].id # None
    BY <1>1, <1>3, Stepping DEF Same
<1> QED BY <1>1, <1>2, <1>4, <1>5, <1>6

LEMMA WriteKeeps == ASSUME StickyInv, NEW p \in Procs, Write(p) PROVE StickyInv'
<1> DEFINE l == proc[p].next
           c == proc[p].saving
<1>1. /\ Saving(p) /\ Starting(p) /\ Goto(p, l)
      /\ file' = [exists |-> TRUE, cfg |-> c]
      /\ installed' = IF proc[p].mode = "install" THEN c ELSE installed
      /\ UNCHANGED <<starts, faults, raced>>
    BY DEF Write, Saving, Starting
<1>2. /\ l \in {"id", "running"} /\ c \in Configs /\ c.id # None
      /\ proc[p].mode = "install" => c = [repo |-> proc[p].repo, id |-> proc[p].id]
      /\ proc[p].made => proc[p].persist /\ proc[p].id \in Generated
      /\ proc[p].repo # None /\ proc[p].id # None
  <2>1. ProcInv(p) /\ Fields(proc[p]) /\ proc[p].pc # "off"
      BY <1>1, Stepping DEF Starting
  <2>2. c \in Configs
      BY <2>1 DEF Fields
  <2> QED BY <1>1, <2>1, <2>2, Stepping DEF ProcInv
<1>3. ~raced /\ proc[p].made => c.id = proc[p].id
    BY <1>1 DEF StickyInv, AloneInv
<1>4. proc[p].mode = "install" => c.repo # None /\ c.id # None
  <2>1. c = [repo |-> proc[p].repo, id |-> proc[p].id] => c.repo = proc[p].repo
      OBVIOUS
  <2> QED BY <1>2, <2>1
<1>5. proc[p].mode = "install" => l = "running"
    BY <1>1, Stepping DEF ProcInv
<1> HIDE DEF l, c
<1>6. /\ proc' \in [Procs -> Processes] /\ \A q \in Procs \ {p} : proc'[q] = proc[q]
      /\ proc'[p].pc = l /\ Same(proc'[p], proc[p]) /\ ~Saving(p)'
      /\ ran' \subseteq Generated
      /\ faults = 0 /\ ~raced =>
            /\ \E i \in Ids : ran' \subseteq {i}
            /\ \A q \in Procs : Starting(q)' /\ proc'[q].made => ran' = {}
      /\ proc'[p].repo # None /\ proc'[p].id # None
    BY <1>1, <1>2, RanFacts
<1>7. ProcInv(p)'
  <2>1. proc'[p].pc \in {"config", "id"} => proc'[p].mode = "agent"
    <3>1. proc[p].mode \in {"agent", "install"}
        BY Stepping DEF Fields
    <3> QED BY <1>2, <1>5, <1>6, <3>1 DEF Same
  <2> QED BY <1>2, <1>6, <2>1 DEF ProcInv, Same
<1>8. file' \in [exists : BOOLEAN, cfg : Configs] /\ file'.cfg = c
    BY <1>1, <1>2
<1>9. installed' \in Configs /\ faults' \in 0..MaxFaults
    BY <1>1, <1>2 DEF StickyInv, TypeOK
<1>10. FaultlessInv'
  <2> SUFFICES ASSUME faults = 0, ~raced
               PROVE  installed' # Empty =>
                        /\ installed'.repo # None /\ installed'.id # None
                        /\ \A q \in Procs : Saving(q)' => proc'[q].mode = "install"
                        /\ file'.cfg = installed'
      BY <1>1, <1>2, <1>6, <1>8 DEF FaultlessInv
  <2>1. \A q \in Procs : ~Saving(q)'
      BY <1>1, <1>6, Stepping, OthersStay
  <2>2. CASE proc[p].mode = "install"
      BY <1>1, <1>4, <1>8, <2>1, <2>2
  <2>3. CASE proc[p].mode # "install"
    <3>1. installed = Empty
        BY <1>1, <2>3 DEF StickyInv, FaultlessInv
    <3> QED BY <1>1, <2>3, <3>1
  <2> QED BY <2>2, <2>3
<1>11. ~raced /\ Starting(p)' /\ proc'[p].made => file'.cfg.id \in {None, proc'[p].id}
    BY <1>3, <1>6, <1>8 DEF Same
<1> QED BY <1>1, <1>6, <1>7, <1>8, <1>9, <1>10, <1>11, Reassemble

\* An agent that goes on without a save.
LEMMA PassKeeps ==
    ASSUME StickyInv, NEW p \in Procs, NEW l \in {"id", "running"}, Goto(p, l),
           proc[p].pc \in {"config", "id"},
           l = "running" /\ proc[p].made => file.cfg.id # None,
           UNCHANGED <<file, starts, faults, raced, installed>>
    PROVE  StickyInv'
<1>1. Starting(p) /\ ~Saving(p)
    BY DEF Starting, Saving
<1>2. /\ proc' \in [Procs -> Processes] /\ \A q \in Procs \ {p} : proc'[q] = proc[q]
      /\ proc'[p].pc = l /\ Same(proc'[p], proc[p]) /\ ~Saving(p)'
      /\ ran' \subseteq Generated
      /\ faults = 0 /\ ~raced =>
            /\ \E i \in Ids : ran' \subseteq {i}
            /\ \A q \in Procs : Starting(q)' /\ proc'[q].made => ran' = {}
      /\ proc'[p].repo # None /\ proc'[p].id # None
    BY <1>1, RanFacts
<1>3. ProcInv(p) /\ proc[p].mode = "agent"
    BY Stepping DEF ProcInv
<1>4. ProcInv(p)'
    BY <1>2, <1>3 DEF ProcInv, Same
<1>5. ASSUME faults = 0, ~raced
      PROVE  /\ \A q \in Procs : ~Saving(q) /\ ~Saving(q)'
             /\ file.cfg.id = None => ran = {}
             /\ installed # Empty =>
                   /\ installed.repo # None /\ installed.id # None
                   /\ file.cfg = installed
  <2>1. \A q \in Procs : ~Saving(q) /\ ~Saving(q)' /\ proc[q].pc # "write"
      BY <1>1, <1>2, <1>5, Stepping, OthersStay DEF Saving
  <2> QED BY <1>5, <2>1 DEF StickyInv, FaultlessInv
<1>6. /\ file' \in [exists : BOOLEAN, cfg : Configs] /\ installed' \in Configs
      /\ faults' \in 0..MaxFaults
    BY DEF StickyInv, TypeOK
<1>7. ~raced /\ Starting(p)' /\ proc'[p].made => file'.cfg.id \in {None, proc'[p].id}
    BY <1>1, <1>2 DEF StickyInv, AloneInv, Same
<1>8. FaultlessInv'
  <2> SUFFICES ASSUME faults = 0, ~raced
               PROVE  /\ file.cfg.id = None => ran' = {}
                      /\ installed # Empty =>
                            /\ installed.repo # None /\ installed.id # None
                            /\ \A q \in Procs : Saving(q)' => proc'[q].mode = "install"
                            /\ file.cfg = installed
      BY <1>2 DEF FaultlessInv
  <2>1. ran' = IF l = "running" /\ proc[p].made THEN ran \cup {proc[p].id} ELSE ran
      BY GotoEffect DEF StickyInv, Places
  <2> QED BY <1>5, <2>1
<1> QED BY <1>1, <1>2, <1>4, <1>6, <1>7, <1>8, Reassemble

\* An agent that begins a save, of a configuration with an id.
LEMMA SaveKeeps ==
    ASSUME StickyInv, NEW p \in Procs, NEW c \in Configs, NEW l \in {"id", "running"},
           Saves(p, c, l), proc[p].pc \in {"config", "id"}, c.id # None,
           ~raced /\ proc[p].made => c.id = proc[p].id,
           faults = 0 /\ ~raced => installed = Empty,
           UNCHANGED <<file, starts, faults, raced, installed>>
    PROVE  StickyInv'
<1>1. Starting(p) /\ ~Saving(p) /\ proc[p].pc # "off"
    BY DEF Starting, Saving
<1>2. /\ proc' \in [Procs -> Processes] /\ \A q \in Procs \ {p} : proc'[q] = proc[q]
      /\ proc'[p].pc = "truncate" /\ Same(proc'[p], proc[p])
      /\ proc'[p].saving = c /\ proc'[p].next = l /\ ran' = ran
    BY SavesEffect DEF StickyInv, Places
<1>3. ProcInv(p) /\ proc[p].mode = "agent"
    BY Stepping DEF ProcInv
<1>4. ProcInv(p)'
    BY <1>2, <1>3 DEF ProcInv, Same
<1>5. FaultlessInv'
  <2> SUFFICES ASSUME faults = 0, ~raced
               PROVE  /\ file.cfg.id = None => ran = {}
                      /\ \A q \in Procs : Starting(q)' /\ proc'[q].made => ran = {}
                      /\ \E i \in Ids : ran \subseteq {i}
      BY <1>2 DEF FaultlessInv
  <2>1. \A q \in Procs : proc[q].pc # "write"
      BY <1>1, Stepping DEF Saving
  <2>2. \A q \in Procs \ {p} : ~Starting(q)'
      BY <1>1, <1>2, Stepping, OthersStay
  <2> QED BY <1>1, <1>2, <2>1, <2>2 DEF StickyInv, FaultlessInv, Same
<1>6. /\ file' \in [exists : BOOLEAN, cfg : Configs] /\ installed' \in Configs
      /\ faults' \in 0..MaxFaults /\ ran' \subseteq Generated
    BY <1>2 DEF StickyInv, TypeOK
<1>7. ~raced /\ proc'[p].made =>
          file'.cfg.id \in {None, proc'[p].id} /\ proc'[p].saving.id = proc'[p].id
    BY <1>1, <1>2 DEF StickyInv, AloneInv, Same
<1>8. proc'[p].repo # None /\ proc'[p].id # None
    BY <1>1, <1>2, Stepping DEF Same
<1> QED BY <1>1, <1>2, <1>4, <1>5, <1>6, <1>7, <1>8, Reassemble

\* While an agent starts alone and no save failed, what was installed is in the file.
LEMMA InstalledStays ==
    ASSUME StickyInv, NEW p \in Procs, proc[p].pc \in {"config", "id"},
           faults = 0, ~raced, installed # Empty
    PROVE  file.cfg.repo # None /\ file.cfg.id # None
<1>1. Starting(p) /\ ~Saving(p)
    BY DEF Starting, Saving
<1>2. \A q \in Procs : ~Saving(q)
    BY <1>1, Stepping
<1> QED BY <1>2 DEF StickyInv, FaultlessInv

LEMMA EnsureConfigKeeps ==
    ASSUME StickyInv, NEW p \in Procs, EnsureConfig(p) PROVE StickyInv'
<1> DEFINE c == Merged(file.cfg, p)
<1>1. /\ proc[p].pc = "config" /\ UNCHANGED <<file, starts, faults, raced, installed>>
      /\ Starting(p)
    BY DEF EnsureConfig, Starting
<1>2. CASE Ensures(p)
  <2>1. Saves(p, c, "id")
      BY <1>2 DEF EnsureConfig
  <2>2. /\ proc[p].repo \in Repos \cup {None} /\ proc[p].id \in Ids \cup {None}
        /\ proc[p].repo # None /\ proc[p].id # None
      BY <1>1, Stepping DEF Fields
  <2>3. c = [repo |-> Filled(file.cfg.repo, proc[p].repo),
             id |-> Filled(file.cfg.id, proc[p].id)]
      BY DEF Merged
  <2>4. c \in Configs /\ c.id = Filled(file.cfg.id, proc[p].id)
      BY <2>2, <2>3, FileFields DEF StickyInv, Filled, Configs
  <2> HIDE DEF c
  <2>5. c.id # None
      BY <2>2, <2>4 DEF Filled
  <2>6. ~raced /\ proc[p].made => c.id = proc[p].id
      BY <1>1, <2>4 DEF StickyInv, AloneInv, Filled
  <2>7. faults = 0 /\ ~raced => installed = Empty
      BY <1>1, <1>2, InstalledStays DEF Ensures
  <2> QED BY <1>1, <2>1, <2>4, <2>5, <2>6, <2>7, SaveKeeps
<1>3. CASE ~Ensures(p)
  <2>1. Goto(p, "id")
      BY <1>3 DEF EnsureConfig
  <2> QED BY <1>1, <2>1, PassKeeps
<1> QED BY <1>2, <1>3

LEMMA EnsureMachineIDKeeps ==
    ASSUME StickyInv, NEW p \in Procs, EnsureMachineID(p) PROVE StickyInv'
<1> DEFINE c == [file.cfg EXCEPT !.id = proc[p].id]
<1>1. /\ proc[p].pc = "id" /\ UNCHANGED <<file, starts, faults, raced, installed>>
      /\ Starting(p)
    BY DEF EnsureMachineID, Starting
<1>2. CASE Persists(p)
  <2>1. Saves(p, c, "running")
      BY <1>2 DEF EnsureMachineID
  <2>2. proc[p].id \in Ids \cup {None} /\ proc[p].id # None
      BY <1>1, Stepping DEF Fields
  <2>3. c \in Configs /\ c.id = proc[p].id
      BY <2>2, FileFields DEF StickyInv, Configs
  <2> HIDE DEF c
  <2>4. faults = 0 /\ ~raced => installed = Empty
      BY <1>1, <1>2, InstalledStays DEF Persists
  <2> QED BY <1>1, <2>1, <2>2, <2>3, <2>4, SaveKeeps
<1>3. CASE ~Persists(p)
  <2>1. Goto(p, "running")
      BY <1>3 DEF EnsureMachineID
  <2>2. proc[p].made => file.cfg.id # None
      BY <1>3, Stepping DEF Persists, ProcInv
  <2> QED BY <1>1, <2>1, <2>2, PassKeeps
<1> QED BY <1>2, <1>3

LEMMA NextSticky == ASSUME StickyInv, [Next]_vars PROVE StickyInv'
<1>1. CASE Next
    BY <1>1, StartKeeps, EnsureConfigKeeps, EnsureMachineIDKeeps, TruncateKeeps,
       WriteKeeps, SaveFailsKeeps, CrashKeeps, EndKeeps DEF Next
<1>2. CASE UNCHANGED vars
  <2>1. TypeOK' /\ \A p \in Procs : ProcInv(p)'
      BY <1>2 DEF vars, StickyInv, TypeOK, ProcInv, Saving
  <2>2. AloneInv' /\ FaultlessInv'
      BY <1>2 DEF vars, StickyInv, AloneInv, FaultlessInv, Starting, Saving
  <2> QED BY <2>1, <2>2 DEF StickyInv
<1> QED BY <1>1, <1>2
-------------------------------------------------------------------------------
\* However processes are started, crash and fail to save, the invariant of the
\* sticky configuration holds.
THEOREM StickyCorrect == Spec => []StickyInv
<1>1. Init => StickyInv
    BY InitSticky
<1>2. StickyInv /\ [Next]_vars => StickyInv'
    BY NextSticky
<1> QED BY <1>1, <1>2, PTL DEF Spec

\* A machine does not turn into several as long as starts do not overlap and no
\* save fails (config.go:132-142, 250-253).
THEOREM OneIdentityCorrect == Spec => []OneIdentity
<1>1. StickyInv => OneIdentity
  <2> SUFFICES ASSUME StickyInv, faults = 0, ~raced PROVE Cardinality(ran) <= 1
      BY DEF OneIdentity
  <2>1. PICK i \in Ids : ran \subseteq {i}
      BY DEF StickyInv, FaultlessInv
  <2>2. ran = {} \/ ran = {i}
      BY <2>1
  <2>3. Cardinality(ran) = 0 \/ Cardinality(ran) = 1
      BY <2>2, FS_EmptySet, FS_Singleton
  <2> QED BY <2>3
<1> QED BY <1>1, StickyCorrect, PTL

\* What the last install wrote stays in the file (config.go:272-275).
THEOREM InstallSticksCorrect == Spec => []InstallSticks
<1>1. StickyInv => InstallSticks
  <2> SUFFICES ASSUME StickyInv, faults = 0, ~raced, Settled, installed # Empty
               PROVE  file.cfg = installed
      BY DEF InstallSticks
  <2>1. \A p \in Procs : ~Saving(p)
      BY DEF Settled, Saving
  <2> QED BY <2>1 DEF StickyInv, FaultlessInv
<1> QED BY <1>1, StickyCorrect, PTL

\* No process gets to run under an id it made up and that is not in the file, even
\* when saves fail (openspec/specs/cli-user-config/spec.md:95-97).
THEOREM NoThrowawayIdCorrect == Spec => NoThrowawayId
<1> DEFINE Kept(p) ==
              ~raced /\ proc[p].pc # "running" /\ proc[p].made /\ proc'[p].pc = "running"
                  => file'.cfg.id = proc[p].id
<1>1. ASSUME StickyInv, Next, NEW p \in Procs PROVE Kept(p)
  <2> SUFFICES ASSUME ~raced, proc[p].pc # "running", proc[p].made,
                      proc'[p].pc = "running"
               PROVE  file'.cfg.id = proc[p].id
      OBVIOUS
  <2>1. Starting(p) /\ TypeOK /\ proc[p].persist
      BY <1>1, OffFacts DEF StickyInv, ProcInv, Starting
  <2>2. /\ file.cfg.id \in {None, proc[p].id}
        /\ Saving(p) => proc[p].saving.id = proc[p].id
      BY <1>1, <2>1 DEF StickyInv, AloneInv
  <2>3. PICK q \in Procs :
            \/ Start(q) \/ EnsureConfig(q) \/ EnsureMachineID(q) \/ Truncate(q)
            \/ Write(q) \/ SaveFails(q) \/ Crash(q) \/ End(q)
      BY <1>1 DEF Next
  <2>4. q = p
    <3>1. proc' = [proc EXCEPT ![q] = proc'[q]]
        BY <2>1, <2>3 DEF TypeOK, Start, EnsureConfig, EnsureMachineID, Truncate, Write,
           SaveFails, Crash, End, Goto, Saves
    <3> QED BY <2>1, <3>1 DEF TypeOK
  <2>5. ~Start(p) /\ ~End(p)
      BY <2>1 DEF Start, End, Starting
  <2>6. \A l \in Places : Goto(p, l) => l = "running"
      BY <2>1, GotoEffect, OffFacts
  <2>7. ~Crash(p) /\ ~Truncate(p)
      BY <2>6 DEF Crash, Truncate, Places
  <2>8. CASE EnsureConfig(p)
    <3>1. Saves(p, Merged(file.cfg, p), "id")
        BY <2>6, <2>8 DEF EnsureConfig, Places
    <3>2. proc'[p].pc = "truncate"
        BY <2>1, <3>1 DEF Saves, TypeOK, Processes
    <3> QED BY <3>2
  <2>9. CASE EnsureMachineID(p)
    <3>1. ~Persists(p)
      <4>1. ASSUME Persists(p) PROVE proc'[p].pc = "truncate"
          BY <2>1, <2>9, <4>1 DEF EnsureMachineID, Saves, TypeOK, Processes
      <4> QED BY <4>1
    <3>2. file.cfg.id # None /\ file' = file
        BY <2>1, <2>9, <3>1 DEF EnsureMachineID, Persists
    <3> QED BY <2>2, <3>2
  <2>10. CASE Write(p)
      BY <2>2, <2>10 DEF Write, Saving
  <2>11. CASE SaveFails(p)
    <3>1. proc[p].next \in Places
        BY <2>1 DEF TypeOK, Processes
    <3>2. ~Fatal(p) /\ proc[p].next = "running"
        BY <2>6, <2>11, <3>1 DEF SaveFails, Places
    <3> QED BY <3>2 DEF Fatal
  <2> QED BY <2>3, <2>4, <2>5, <2>7, <2>8, <2>9, <2>10, <2>11
<1>2. StickyInv /\ [Next]_vars => [\A p \in Procs : Kept(p)]_vars
    BY <1>1
<1> QED BY <1>2, StickyCorrect, PTL DEF Spec, NoThrowawayId
===============================================================================
