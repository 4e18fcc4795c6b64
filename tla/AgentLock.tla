------------------------------ MODULE AgentLock -------------------------------
(* The lock that keeps a second agent of a machine from running (agent.go,    *)
(* lock_unix.go), and doctor, which tries it to report on it (doctor.go).  A  *)
(* lock belongs to a file, not to the path it was opened by: who opened the   *)
(* path holds the file even when the path is removed or is that of another.   *)
EXTENDS Naturals, FiniteSets

CONSTANTS
    Agents,      \* the agents somebody may start on the machine
    None,        \* no file, no holder
    Doctor,      \* the doctor command
    MaxFiles     \* bound on the files created

ASSUME AgentLockAssumption ==
    /\ Doctor \notin Agents /\ None \notin Agents \cup {Doctor} \cup Nat
    /\ MaxFiles \in Nat

Files == 1..MaxFiles
Users == Agents \cup {Doctor}

VARIABLES
    path,     \* the file at the path of the lock
    created,  \* how many files were
    pc,       \* where every agent and doctor is
    file,     \* the file each has open
    holder,   \* per file: who holds its lock
    pid,      \* per file: the process named in it
    seen,     \* the process doctor has read in the file it opened
    report,   \* what doctor said last
    raced,    \* an agent that stopped has removed the path of another's file
    throughout  \* auxiliary: the agents that have run ever since doctor looked

agentVars == <<path, created, pid, raced>>
doctorVars == <<seen, report>>
vars == <<agentVars, doctorVars, pc, file, holder, throughout>>

Init ==
    /\ path = None /\ created = 0
    /\ pc = [u \in Users |-> "off"]
    /\ file = [u \in Users |-> None]
    /\ holder = [f \in Files |-> None] /\ pid = [f \in Files |-> None]
    /\ seen = None /\ report = "none"
    /\ raced = FALSE /\ throughout = {}

Goto(u, p) == pc' = [pc EXCEPT ![u] = p]

\* Mutant: the lock is taken to be shared.
AnyHolder(f) == TRUE

\* lockFileExclusive succeeds: nobody holds the lock of the file.
Free(f) == holder[f] = None

\* Opened at the path, created if it is not there.
Open(a) ==
    /\ pc[a] = "off"
    /\ IF path = None
       THEN /\ created < MaxFiles /\ created' = created + 1
            /\ path' = created + 1
       ELSE UNCHANGED <<path, created>>
    /\ file' = [file EXCEPT ![a] = path']
    /\ Goto(a, "opened")
    /\ UNCHANGED <<doctorVars, holder, pid, raced, throughout>>

\* The lock is taken and the pid written, or the agent gives up.
Acquire(a) ==
    /\ pc[a] = "opened"
    /\ LET f == file[a]
       IN  IF Free(f)
           THEN /\ holder' = [holder EXCEPT ![f] = a]
                /\ pid' = [pid EXCEPT ![f] = a]
                /\ Goto(a, "running")
                /\ UNCHANGED file
           ELSE /\ file' = [file EXCEPT ![a] = None]
                /\ Goto(a, "off")
                /\ UNCHANGED <<holder, pid>>
    /\ UNCHANGED <<doctorVars, path, created, raced, throughout>>

\* Mutant: the lock outlives the process.
CloseOnly(u) == file' = [file EXCEPT ![u] = None] /\ UNCHANGED holder

\* unlockFile gives up no lock but one's own.
Released(u) == [f \in Files |-> IF holder[f] = u THEN None ELSE holder[f]]

\* What the kernel releases when a process closes its file or dies.
Drop(u) ==
    /\ holder' = Released(u)
    /\ file' = [file EXCEPT ![u] = None]

\* Release: the lock is given up and the file closed, ...
Unlock(a) ==
    /\ pc[a] = "running"
    /\ Drop(a) /\ Goto(a, "unlocked")
    /\ throughout' = throughout \ {a}
    /\ UNCHANGED <<agentVars, doctorVars>>

\* ... then the path is removed, whatever file it is of by now.
Remove(a) ==
    /\ pc[a] = "unlocked"
    /\ path' = None /\ Goto(a, "off")
    /\ raced' = (raced \/ \E b \in Agents \ {a} : path # None /\ file[b] = path)
    /\ UNCHANGED <<doctorVars, created, file, holder, pid, throughout>>

\* An agent or doctor is killed.
Kill(u) ==
    /\ pc[u] # "off"
    /\ Drop(u) /\ Goto(u, "off")
    /\ throughout' = throughout \ {u}
    /\ UNCHANGED <<agentVars, doctorVars>>

\* doctor opens the path, never creating it; there may be none.
Look ==
    /\ pc[Doctor] = "off"
    /\ seen' = None /\ report' = "none"
    /\ file' = [file EXCEPT ![Doctor] = path]
    /\ Goto(Doctor, IF path = None THEN "tried" ELSE "opened")
    /\ throughout' = {a \in Agents : pc[a] = "running"}
    /\ UNCHANGED <<agentVars, holder>>

\* readLockPID, before the lock is tried.
ReadPid ==
    /\ pc[Doctor] = "opened"
    /\ seen' = pid[file[Doctor]] /\ Goto(Doctor, "read")
    /\ UNCHANGED <<agentVars, report, file, holder, throughout>>

\* doctor tries the lock, ...
Try ==
    /\ pc[Doctor] = "read"
    /\ LET f == file[Doctor]
       IN  IF Free(f)
           THEN holder' = [holder EXCEPT ![f] = Doctor] /\ Goto(Doctor, "holds")
           ELSE Goto(Doctor, "blocked") /\ UNCHANGED holder
    /\ UNCHANGED <<agentVars, doctorVars, file, throughout>>

\* ... lets go of one it could take (unlockFile), the file still open, ...
LetGo ==
    /\ pc[Doctor] = "holds"
    /\ holder' = Released(Doctor) /\ Goto(Doctor, "tried")
    /\ UNCHANGED <<agentVars, doctorVars, file, throughout>>

\* ... and only then says what it has found, and closes the file.
Say ==
    /\ pc[Doctor] \in {"blocked", "tried"}
    /\ report' = IF pc[Doctor] = "blocked" THEN "held"
                 ELSE IF seen # None THEN "stale" ELSE "free"
    /\ Drop(Doctor) /\ Goto(Doctor, "off")
    /\ UNCHANGED <<agentVars, seen, throughout>>

Next ==
    \/ \E a \in Agents : Open(a) \/ Acquire(a) \/ Unlock(a) \/ Remove(a)
    \/ \E u \in Users : Kill(u)
    \/ Look \/ ReadPid \/ Try \/ LetGo \/ Say

Spec == Init /\ [][Next]_vars
-------------------------------------------------------------------------------
\* Who has the lock of a file has the file open: neither a stop nor a crash nor
\* doctor leaves a lock behind (agent.go:65-72, doctor.go:240-271).
TypeOK ==
    /\ path \in Files \cup {None} /\ created \in 0..MaxFiles
    /\ pc \in [Users -> {"off", "opened", "running", "unlocked",
                         "read", "holds", "blocked", "tried"}]
    /\ file \in [Users -> Files \cup {None}]
    /\ holder \in [Files -> Users \cup {None}] /\ pid \in [Files -> Agents \cup {None}]
    /\ seen \in Agents \cup {None} /\ report \in {"none", "free", "stale", "held"}
    /\ raced \in BOOLEAN /\ throughout \subseteq Agents
    /\ \A f \in Files : holder[f] # None => file[holder[f]] = f

OneRuns == Cardinality({a \in Agents : pc[a] = "running"}) <= 1

\* At most one agent of a machine runs, whichever are started, stopped and killed
\* and whenever doctor looks, as long as none that stopped has removed the path of
\* a file that another had opened by then (agent.go:35-72).
OneAgent == ~raced => OneRuns

\* At most one agent of a machine runs (agent.go:35).
AlwaysOneAgent == OneRuns

\* Until then doctor does not call the lock free, or its file stale, when an agent
\* has run all the while since doctor looked: the removal of the path, a probe
\* of another file and what it says after it let go of the lock mislead it about
\* agents only that start or stop meanwhile (doctor.go:240-271).
DoctorRight == ~raced /\ report \in {"free", "stale"} => throughout = {}
===============================================================================
