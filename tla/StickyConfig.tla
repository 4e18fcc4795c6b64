----------------------------- MODULE StickyConfig -----------------------------
(* The sticky configuration (config.go) and the identity of the machine: how  *)
(* an agent or an install resolves its settings (main.go), makes up a machine *)
(* id when it has none, and saves them in a file that other processes read    *)
(* and write, which is truncated before it is written.  The other settings    *)
(* are resolved and kept like the state repository and are left out.          *)
EXTENDS Naturals, FiniteSets

CONSTANTS
    Procs,        \* the processes that can be there at a time
    Repos,        \* state repositories
    Chosen,       \* a machine id that the user chooses
    Host,         \* the name of the host
    None,         \* the empty string
    Unset,        \* a flag that is not given
    MaxStarts,    \* bound on the number of starts
    MaxFaults     \* bound on the number of failed writes and crashes in a start

ASSUME StickyAssumption ==
    /\ MaxStarts \in Nat /\ MaxFaults \in Nat
    /\ Chosen \notin Nat /\ Host \notin Nat /\ None \notin Nat \cup {Chosen, Host}
    /\ None \notin Repos /\ Unset \notin Repos \cup {None, Chosen}

\* GenerateStableMachineID: the id made up by the n-th start is n.
Generated == 1..MaxStarts

Ids == Generated \cup {Chosen, Host}

Configs == [repo : Repos \cup {None}, id : Ids \cup {None}]

Empty == [repo |-> None, id |-> None]

\* How a process is started: its flags, and its environment.
Invocations ==
    [mode : {"agent", "install"},
     repoFlag : Repos \cup {None, Unset}, repoEnv : Repos \cup {None},
     idFlag : {Chosen, None, Unset}, idEnv : {Chosen, None}]

VARIABLES
    file,      \* config.toml: is it there, and what does it say
    proc,      \* per process: where it is, its settings, what it saves
    starts,    \* how many processes started
    faults,    \* how many writes failed and how many starts crashed
    raced,     \* a process started while another one was starting
    installed, \* the settings of the last install that wrote the file
    ran        \* the generated ids under which a process ran

vars == <<file, proc, starts, faults, raced, installed, ran>>

Places == {"off", "config", "id", "truncate", "write", "running"}

\* A process.  ensure: an agent writes its settings into the file.  persist,
\* made: it saves its id, which it made up.  saving, next: what a save in
\* progress writes, and where it goes on.
Processes ==
    [pc : Places, mode : {"agent", "install"}, repo : Repos \cup {None},
     id : Ids \cup {None}, ensure : BOOLEAN, persist : BOOLEAN, made : BOOLEAN,
     saving : Configs, next : Places]

Off == [pc |-> "off", mode |-> "agent", repo |-> None, id |-> None,
        ensure |-> FALSE, persist |-> FALSE, made |-> FALSE, saving |-> Empty,
        next |-> "off"]

Init ==
    /\ file = [exists |-> FALSE, cfg |-> Empty]
    /\ proc = [p \in Procs |-> Off]
    /\ starts = 0 /\ faults = 0 /\ raced = FALSE
    /\ installed = Empty /\ ran = {}
-------------------------------------------------------------------------------
\* resolveString: a flag that is given wins, even an empty one, then the
\* environment, then the file.
Resolved(flag, env, inFile) ==
    IF flag # Unset THEN flag ELSE IF env # None THEN env ELSE inFile

\* shouldPersistStableMachineID: no source names an id.
MakesId(inv, id, cfg) == id = None /\ inv.idFlag = Unset /\ cfg.id = None

\* requireStateRepo: the process ends without a state repository.
Lacking(repo) == repo = None

\* main: the file is read, a missing one as an empty one, and the settings are
\* resolved.
Started(inv, n) ==
    LET repo == Resolved(inv.repoFlag, inv.repoEnv, file.cfg.repo)
        id   == Resolved(inv.idFlag, inv.idEnv, file.cfg.id)
        made == MakesId(inv, id, file.cfg)
        own  == IF made THEN n ELSE IF id = None THEN Host ELSE id
    IN  IF Lacking(repo) THEN Off
        ELSE [pc      |-> IF inv.mode = "install" THEN "truncate" ELSE "config",
              mode    |-> inv.mode, repo |-> repo, id |-> own,
              ensure  |-> inv.repoFlag # Unset,
              persist |-> made \/ inv.idFlag # Unset,
              made    |-> made,
              saving  |-> IF inv.mode = "install" THEN [repo |-> repo, id |-> own]
                          ELSE Empty,
              next    |-> IF inv.mode = "install" THEN "running" ELSE "off"]

Settled == \A p \in Procs : proc[p].pc \in {"off", "running"}

Start(p) ==
    /\ proc[p].pc = "off" /\ starts < MaxStarts
    /\ raced' = (raced \/ ~Settled)
    /\ starts' = starts + 1
    /\ \E inv \in Invocations : proc' = [proc EXCEPT ![p] = Started(inv, starts')]
    /\ UNCHANGED <<file, faults, installed, ran>>
-------------------------------------------------------------------------------
\* Process p goes on at place l; it is up when it gets to "running".
Goto(p, l) ==
    /\ proc' = [proc EXCEPT ![p] = IF l = "off" THEN Off ELSE [@ EXCEPT !.pc = l]]
    /\ ran' = IF l = "running" /\ proc[p].made THEN ran \cup {proc[p].id} ELSE ran

\* Process p saves configuration c and goes on at l.
Saves(p, c, l) ==
    /\ proc' = [proc EXCEPT ![p] = [@ EXCEPT !.pc = "truncate", !.saving = c, !.next = l]]
    /\ UNCHANGED ran

Filled(old, new) == IF old = None THEN new ELSE old

\* EnsureConfigFromAgent: the empty fields of the file are filled.
Merged(c, p) ==
    [repo |-> Filled(c.repo, proc[p].repo), id |-> Filled(c.id, proc[p].id)]

\* The agent was given its repository by flag, and the file names none.
Ensures(p) == proc[p].ensure /\ file.cfg.repo = None

EnsureConfig(p) ==
    /\ proc[p].pc = "config"
    /\ IF Ensures(p) THEN Saves(p, Merged(file.cfg, p), "id") ELSE Goto(p, "id")
    /\ UNCHANGED <<file, starts, faults, raced, installed>>

\* Mutants: a missing file is not created; an id in the file is replaced.
OnlyIfThere(p) == proc[p].persist /\ file.exists /\ file.cfg.id = None
Replaces(p) == proc[p].persist

\* EnsureMachineIDInConfig
Persists(p) == proc[p].persist /\ file.cfg.id = None

EnsureMachineID(p) ==
    /\ proc[p].pc = "id"
    /\ IF Persists(p) THEN Saves(p, [file.cfg EXCEPT !.id = proc[p].id], "running")
       ELSE Goto(p, "running")
    /\ UNCHANGED <<file, starts, faults, raced, installed>>

\* SaveUserConfig: os.Create, and the write.
Truncate(p) ==
    /\ proc[p].pc = "truncate"
    /\ file' = [exists |-> TRUE, cfg |-> Empty]
    /\ Goto(p, "write")
    /\ UNCHANGED <<starts, faults, raced, installed>>

Write(p) ==
    /\ proc[p].pc = "write"
    /\ file' = [exists |-> TRUE, cfg |-> proc[p].saving]
    /\ Goto(p, proc[p].next)
    /\ installed' = IF proc[p].mode = "install" THEN proc[p].saving ELSE installed
    /\ UNCHANGED <<starts, faults, raced>>

\* Mutant: an id that cannot be saved is only warned about.
OnlyWarns(p) == proc[p].mode = "install"

\* A save that fails ends an install, and an agent whose made-up id it was;
\* for other agents it is a warning.
Fatal(p) == proc[p].mode = "install" \/ (proc[p].next = "running" /\ proc[p].made)

\* The file cannot be created or written (the disk is full).
SaveFails(p) ==
    /\ proc[p].pc \in {"truncate", "write"} /\ faults < MaxFaults
    /\ faults' = faults + 1
    /\ Goto(p, IF Fatal(p) THEN "off" ELSE proc[p].next)
    /\ UNCHANGED <<file, starts, raced, installed>>

Crash(p) ==
    /\ proc[p].pc \notin {"off", "running"} /\ faults < MaxFaults
    /\ faults' = faults + 1
    /\ Goto(p, "off")
    /\ UNCHANGED <<file, starts, raced, installed>>

\* The agent is stopped, the install is done.
End(p) ==
    /\ proc[p].pc = "running"
    /\ Goto(p, "off")
    /\ UNCHANGED <<file, starts, faults, raced, installed>>

Next ==
    \E p \in Procs :
        \/ Start(p) \/ EnsureConfig(p) \/ EnsureMachineID(p) \/ Truncate(p)
        \/ Write(p) \/ SaveFails(p) \/ Crash(p) \/ End(p)

Spec == Init /\ [][Next]_vars
-------------------------------------------------------------------------------
TypeOK ==
    /\ file \in [exists : BOOLEAN, cfg : Configs]
    /\ proc \in [Procs -> Processes]
    /\ starts \in 0..MaxStarts /\ faults \in 0..MaxFaults /\ raced \in BOOLEAN
    /\ installed \in Configs /\ ran \subseteq Generated
    /\ \A p \in Procs : proc[p].pc # "off" => proc[p].repo # None /\ proc[p].id # None

\* Between two reads of the file by one start, another start may write it, and
\* a save that is cut short leaves it empty.  The properties hold of everything
\* else that can happen, and name these two exceptions.

\* A machine does not turn into several: of the ids that were made up, processes
\* run under one only, whatever is started in which way (config.go:250-253,
\* 132-142).
OneIdentity == faults = 0 /\ ~raced => Cardinality(ran) <= 1

\* A process never runs under an id it made up and that is not in the file,
\* whatever save fails (openspec/specs/cli-user-config/spec.md:95-97).
NoThrowawayId ==
    [][\A p \in Procs :
         ~raced /\ proc[p].pc # "running" /\ proc[p].made /\ proc'[p].pc = "running"
             => file'.cfg.id = proc[p].id]_vars

\* What the last install wrote is what the file says as soon as no process is
\* starting: agents only fill what is empty (config.go:272-275).
InstallSticks ==
    faults = 0 /\ ~raced /\ Settled /\ installed # Empty => file.cfg = installed

Starting(p) == proc[p].pc \notin {"off", "running"}

Saving(p) == proc[p].pc \in {"truncate", "write"}

\* What holds of one process: one that is off remembers nothing; an id that was made
\* up is to be saved; what is saved has an id, and an install saves its settings.
ProcInv(p) ==
    /\ proc[p].pc = "off" => proc[p] = Off
    /\ proc[p].made => proc[p].persist /\ proc[p].id \in Generated
    /\ proc[p].pc \in {"config", "id"} => proc[p].mode = "agent"
    /\ Saving(p) => proc[p].saving.id # None /\ proc[p].next \in {"id", "running"}
    /\ Saving(p) /\ proc[p].mode = "install" =>
          /\ proc[p].saving = [repo |-> proc[p].repo, id |-> proc[p].id]
          /\ proc[p].next = "running"

\* As long as starts do not overlap: while a process with a made-up id starts, the
\* file has no other.
AloneInv ==
    ~raced => \A p \in Procs :
        /\ Starting(p) => \A q \in Procs \ {p} : ~Starting(q)
        /\ Starting(p) /\ proc[p].made =>
              /\ file.cfg.id \in {None, proc[p].id}
              /\ Saving(p) => proc[p].saving.id = proc[p].id

\* And when no save fails either: a file without an id, unless it is being written,
\* means that no made-up id was used; what an install saved has no empty fields, so
\* no agent saves again.
FaultlessInv ==
    faults = 0 /\ ~raced =>
        /\ file.cfg.id = None => ran = {} \/ \E p \in Procs : proc[p].pc = "write"
        /\ \A p \in Procs : Starting(p) /\ proc[p].made => ran = {}
        /\ \E i \in Ids : ran \subseteq {i}
        /\ installed # Empty =>
              /\ installed.repo # None /\ installed.id # None
              /\ \A p \in Procs : Saving(p) => proc[p].mode = "install"
              /\ file.cfg = installed \/ \E p \in Procs : Saving(p)

\* The invariant behind the three above.
StickyInv ==
    TypeOK /\ (\A p \in Procs : ProcInv(p)) /\ AloneInv /\ FaultlessInv
===============================================================================
