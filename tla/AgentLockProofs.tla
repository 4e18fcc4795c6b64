--------------------------- MODULE AgentLockProofs ----------------------------
(* Theorems about AgentLock for any number of agents: no stop, crash or probe *)
(* leaves a lock behind, and, as long as no agent that stopped has removed    *)
(* the path of another's file, at most one runs and doctor does not miss it.  *)
EXTENDS AgentLock, FiniteSetTheorems, TLAPS

\* A process has its file open from Open or Look on, and holds the lock of no
\* file unless it runs or, doctor, holds that of its file for a moment.
Placed ==
    /\ \A u \in Users :
           pc[u] \in {"opened", "running", "read", "holds", "blocked"} => file[u] \in Files
    /\ \A f \in Files : holder[f] # None => pc[holder[f]] \in {"running", "holds"}

LEMMA PlacedAlways == Spec => [](TypeOK /\ Placed)
<1>1. Init => TypeOK /\ Placed
    <2>1. Init => raced \in BOOLEAN
        BY DEF Init
    <2> QED BY <2>1, AgentLockAssumption DEF Init, TypeOK, Placed, Users
<1>2. TypeOK /\ Placed /\ [Next]_vars => TypeOK' /\ Placed'
    <2> SUFFICES ASSUME TypeOK, Placed, [Next]_vars
                 PROVE  TypeOK' /\ Placed'
        OBVIOUS
    <2> USE AgentLockAssumption DEF Users, agentVars, doctorVars
    <2>1. ASSUME NEW a \in Agents, Open(a)
          PROVE  TypeOK' /\ Placed'
        <3>1. path' \in Files /\ created' \in 0..MaxFiles
            BY <2>1 DEF Open, TypeOK, Files
        <3>2. \A f \in Files : holder[f] # a
            BY <2>1 DEF Open, Placed
        <3> QED BY <2>1, <3>1, <3>2 DEF Open, Goto, TypeOK, Placed
    <2>2. ASSUME NEW a \in Agents, Acquire(a)
          PROVE  TypeOK' /\ Placed'
        <3>1. file[a] \in Files /\ \A f \in Files : holder[f] # a
            BY <2>2 DEF Acquire, Placed
        <3>2. CASE Free(file[a])
            BY <2>2, <3>1, <3>2 DEF Acquire, Goto, Free, TypeOK, Placed
        <3>3. CASE ~Free(file[a])
            BY <2>2, <3>1, <3>3 DEF Acquire, Goto, TypeOK, Placed
        <3> QED BY <3>2, <3>3
    <2>3. ASSUME NEW a \in Agents, Unlock(a)
          PROVE  TypeOK' /\ Placed'
        BY <2>3 DEF Unlock, Drop, Released, Goto, TypeOK, Placed
    <2>4. ASSUME NEW a \in Agents, Remove(a)
          PROVE  TypeOK' /\ Placed'
        <3>1. \A f \in Files : holder[f] # a
            BY <2>4 DEF Remove, Placed
        <3> QED BY <2>4, <3>1 DEF Remove, Goto, TypeOK, Placed
    <2>5. ASSUME NEW u \in Users, Kill(u)
          PROVE  TypeOK' /\ Placed'
        BY <2>5 DEF Kill, Drop, Released, Goto, TypeOK, Placed
    <2>6. CASE Look
        <3>1. \A f \in Files : holder[f] # Doctor
            BY <2>6 DEF Look, Placed
        <3> QED BY <2>6, <3>1 DEF Look, Goto, TypeOK, Placed
    <2>7. CASE ReadPid
        <3>1. \A f \in Files : holder[f] # Doctor
            BY <2>7 DEF ReadPid, Placed
        <3> QED BY <2>7, <3>1 DEF ReadPid, Goto, TypeOK, Placed
    <2>8. CASE Try
        <3>1. file[Doctor] \in Files /\ \A f \in Files : holder[f] # Doctor
            BY <2>8 DEF Try, Placed
        <3>2. CASE Free(file[Doctor])
            BY <2>8, <3>1, <3>2 DEF Try, Goto, Free, TypeOK, Placed
        <3>3. CASE ~Free(file[Doctor])
            BY <2>8, <3>1, <3>3 DEF Try, Goto, TypeOK, Placed
        <3> QED BY <3>2, <3>3
    <2>9. CASE LetGo
        BY <2>9 DEF LetGo, Released, Goto, TypeOK, Placed
    <2>10. CASE Say
        <3>1. \A f \in Files : holder[f] # Doctor
            BY <2>10 DEF Say, Placed
        <3> QED BY <2>10, <3>1 DEF Say, Drop, Released, Goto, TypeOK, Placed
    <2>11. CASE UNCHANGED vars
        BY <2>11 DEF vars, TypeOK, Placed
    <2> QED BY <2>1, <2>2, <2>3, <2>4, <2>5, <2>6, <2>7, <2>8, <2>9, <2>10, <2>11
            DEF Next
<1> QED BY <1>1, <1>2, PTL DEF Spec

\* Every lock belongs to somebody who has the file open, whatever happens
\* (agent.go:47-72, doctor.go:240-271).
THEOREM LocksHeld == Spec => []TypeOK
BY PlacedAlways, PTL
-------------------------------------------------------------------------------
\* Until a stopping agent removes the path of another's file, the agents that
\* have a file open have the one at the path, and who runs holds its lock.
OnePath ==
    /\ \A a \in Agents : pc[a] \in {"opened", "running"} =>
                             path # None /\ file[a] = path
    /\ \A a \in Agents : pc[a] = "running" => holder[file[a]] = a

\* Until then who has run since doctor looked still runs, doctor has that agent's
\* file open, and has not found its lock free.
Probed ==
    /\ \A a \in throughout : pc[a] = "running"
    /\ throughout # {} /\ pc[Doctor] \in {"opened", "read", "blocked"} =>
           file[Doctor] = path
    /\ throughout # {} => pc[Doctor] \notin {"holds", "tried"}
    /\ report \in {"free", "stale"} => throughout = {}

\* A set whose elements are all equal has at most one.
LEMMA AllEqual ==
    ASSUME NEW S, \A x, y \in S : x = y
    PROVE  Cardinality(S) <= 1
<1>1. CASE S = {}
    BY <1>1, FS_EmptySet
<1>2. CASE S # {}
    <2>1. PICK x \in S : TRUE
        BY <1>2
    <2>2. S = {x}
        BY <2>1
    <2> QED BY <2>2, FS_Singleton
<1> QED BY <1>1, <1>2

LEMMA OnePathStep ==
    ASSUME TypeOK, OnePath, [Next]_vars, ~raced'
    PROVE  OnePath'
<1> USE AgentLockAssumption DEF Users, agentVars, doctorVars
<1>r. \A b \in Agents : pc[b] = "running" => file[b] \in Files
    BY DEF OnePath, TypeOK
<1>1. ASSUME NEW a \in Agents, Open(a)
      PROVE  OnePath'
    <2>1. path' # None
        BY <1>1 DEF Open, TypeOK
    <2>2. \A b \in Agents \ {a} : pc[b] \in {"opened", "running"} => path' = path
        BY <1>1 DEF Open, OnePath
    <2> QED BY <1>1, <2>1, <2>2 DEF Open, Goto, OnePath, TypeOK
<1>2. ASSUME NEW a \in Agents, Acquire(a)
      PROVE  OnePath'
    <2>1. path # None /\ file[a] = path /\ path \in Files
        BY <1>2 DEF Acquire, OnePath, TypeOK
    <2>2. CASE Free(file[a])
        <3>1. \A b \in Agents : pc[b] # "running"
            BY <2>1, <2>2 DEF OnePath, Free
        <3> QED BY <1>2, <2>1, <2>2, <3>1 DEF Acquire, Goto, OnePath, TypeOK
    <2>3. CASE ~Free(file[a])
        BY <1>2, <2>3 DEF Acquire, Goto, OnePath, TypeOK
    <2> QED BY <2>2, <2>3
<1>3. ASSUME NEW a \in Agents, Unlock(a)
      PROVE  OnePath'
    BY <1>3, <1>r DEF Unlock, Drop, Released, Goto, OnePath, TypeOK
<1>4. ASSUME NEW a \in Agents, Remove(a)
      PROVE  OnePath'
    <2>1. \A b \in Agents \ {a} : pc[b] \notin {"opened", "running"}
        BY <1>4 DEF Remove, OnePath
    <2> QED BY <1>4, <2>1 DEF Remove, Goto, OnePath, TypeOK
<1>5. ASSUME NEW u \in Users, Kill(u)
      PROVE  OnePath'
    BY <1>5, <1>r DEF Kill, Drop, Released, Goto, OnePath, TypeOK
<1>6. CASE Look
    BY <1>6 DEF Look, Goto, OnePath, TypeOK
<1>7. CASE ReadPid
    BY <1>7 DEF ReadPid, Goto, OnePath, TypeOK
<1>8. CASE Try
    <2>1. \A b \in Agents : pc[b] = "running" /\ Free(file[Doctor]) => file[b] # file[Doctor]
        BY DEF OnePath, Free
    <2> QED BY <1>8, <1>r, <2>1 DEF Try, Goto, OnePath, TypeOK
<1>9. CASE LetGo
    BY <1>9, <1>r DEF LetGo, Released, Goto, OnePath, TypeOK
<1>10. CASE Say
    BY <1>10, <1>r DEF Say, Drop, Released, Goto, OnePath, TypeOK
<1>11. CASE UNCHANGED vars
    BY <1>11 DEF vars, OnePath
<1> QED BY <1>1, <1>2, <1>3, <1>4, <1>5, <1>6, <1>7, <1>8, <1>9, <1>10, <1>11 DEF Next

LEMMA ProbedStep ==
    ASSUME TypeOK, Placed, OnePath, Probed, [Next]_vars, ~raced'
    PROVE  Probed'
<1> USE AgentLockAssumption DEF Users, agentVars, doctorVars
<1>r. \A a \in throughout : a \in Agents /\ path # None /\ file[a] = path /\ holder[path] = a
    BY DEF Probed, OnePath, TypeOK
<1>1. ASSUME NEW a \in Agents, Open(a)
      PROVE  Probed'
    BY <1>1, <1>r DEF Open, Goto, Probed, TypeOK
<1>2. ASSUME NEW a \in Agents, Acquire(a)
      PROVE  Probed'
    BY <1>2, <1>r DEF Acquire, Goto, Probed, TypeOK
<1>3. ASSUME NEW a \in Agents, Unlock(a)
      PROVE  Probed'
    BY <1>3, <1>r DEF Unlock, Drop, Released, Goto, Probed, TypeOK
<1>4. ASSUME NEW a \in Agents, Remove(a)
      PROVE  Probed'
    <2>1. a \notin throughout
        BY <1>4 DEF Remove, Probed
    <2>2. throughout = {}
        BY <1>4, <1>r, <2>1 DEF Remove
    <2> QED BY <1>4, <2>2 DEF Remove, Goto, Probed, TypeOK
<1>5. ASSUME NEW u \in Users, Kill(u)
      PROVE  Probed'
    BY <1>5, <1>r DEF Kill, Drop, Released, Goto, Probed, TypeOK
<1>6. CASE Look
    <2>1. throughout' # {} => path # None
        BY <1>6 DEF Look, OnePath
    <2> QED BY <1>6, <2>1 DEF Look, Goto, Probed, TypeOK
<1>7. CASE ReadPid
    BY <1>7 DEF ReadPid, Goto, Probed, TypeOK
<1>8. CASE Try
    <2>1. throughout # {} => ~Free(file[Doctor])
        BY <1>8, <1>r DEF Try, Probed, Free
    <2> QED BY <1>8, <2>1 DEF Try, Goto, Probed, TypeOK
<1>9. CASE LetGo
    BY <1>9 DEF LetGo, Goto, Probed, TypeOK
<1>10. CASE Say
    BY <1>10 DEF Say, Goto, Drop, Released, Probed, TypeOK
<1>11. CASE UNCHANGED vars
    BY <1>11 DEF vars, Probed
<1> QED BY <1>1, <1>2, <1>3, <1>4, <1>5, <1>6, <1>7, <1>8, <1>9, <1>10, <1>11 DEF Next

\* A removal is not undone.
LEMMA RacedStays ==
    ASSUME [Next]_vars, raced
    PROVE  raced'
BY DEF Next, vars, agentVars, Open, Acquire, Unlock, Remove, Kill, Look, ReadPid, Try,
       LetGo, Say

LEMMA ProbedAlways == Spec => [](~raced => OnePath /\ Probed)
<1>1. Init => OnePath /\ Probed
    BY DEF Init, OnePath, Probed, Users
<1>2. TypeOK /\ Placed /\ (~raced => OnePath /\ Probed) /\ [Next]_vars =>
          (~raced' => OnePath' /\ Probed')
    BY OnePathStep, ProbedStep, RacedStays
<1> QED BY <1>1, <1>2, PlacedAlways, PTL DEF Spec

\* Agents do not run side by side, however many are started and whenever they
\* are stopped and killed, until one that stops removes the path of a file that
\* another has opened (agent.go:47-72).
THEOREM OneAgentCorrect == Spec => []OneAgent
<1>1. (~raced => OnePath /\ Probed) => OneAgent
    <2> SUFFICES ASSUME OnePath
                 PROVE  OneRuns
        BY DEF OneAgent
    <2>1. ASSUME NEW a \in Agents, NEW b \in Agents,
                 pc[a] = "running", pc[b] = "running"
          PROVE  a = b
        BY <2>1 DEF OnePath
    <2> QED BY <2>1, AllEqual DEF OneRuns
<1> QED BY <1>1, ProbedAlways, PTL

\* As long, doctor reports the lock neither free nor stale when an agent has run
\* from its look at the path to the report, which comes after it let go of the
\* lock (doctor.go:240-271).
THEOREM DoctorRightCorrect == Spec => []DoctorRight
<1>1. (~raced => OnePath /\ Probed) => DoctorRight
    BY DEF DoctorRight, Probed
<1> QED BY <1>1, ProbedAlways, PTL
===============================================================================
