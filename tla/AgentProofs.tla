------------------------------ MODULE AgentProofs -----------------------------
(* Theorems about Service and Cadence, the agent as a service and its loop in  *)
(* time: after an uninstall the agent is gone for good, and doctor's "not      *)
(* installed" is true; and how old its report may get in the hands of others.  *)
EXTENDS Service, Cadence, TLAPS

\* The invariant in single statements.
Types ==
    /\ os \in {"linux", "windows"} /\ os \in Systems
    /\ config \in Settings /\ agent \in Settings
    /\ unit \in BOOLEAN /\ enabled \in BOOLEAN /\ loaded \in BOOLEAN
    /\ manual \in BOOLEAN /\ session \in BOOLEAN
    /\ service \in {"inactive", "active", "waiting"} /\ tries \in 0..MaxTries
    /\ installs \in 0..MaxInstalls /\ events \in 0..MaxEvents
    /\ cli \in {"idle", "smoke", "write", "reload", "enable", "create", "disable",
                "remove", "forget", "delete"}
    /\ report \in {"none", "installed", "failed", "removed"}
    /\ since \subseteq {"stopFailed", "stopped", "started", "logon"}
    /\ manual => agent = 0

Places ==
    /\ ~session => service = "inactive"
    /\ cli \in {"write", "reload", "enable", "disable", "remove", "forget"} => os = "linux"
    /\ cli \in {"create", "delete"} => os = "windows"
    /\ cli \in {"reload", "enable"} => unit
    /\ cli = "forget" \/ (cli = "idle" /\ report = "removed") => ~unit
    /\ cli = "remove" => ~(unit /\ enabled) \/ "stopFailed" \in since
    /\ os = "windows" /\ service = "waiting" => tries < MaxTries

Afterwards ==
    /\ os = "linux" /\ (~unit \/ cli = "remove")
          /\ "stopFailed" \notin since /\ "started" \notin since
       => service = "inactive"
    /\ report = "removed" /\ cli = "idle" /\ "started" \notin since
          /\ ("logon" \in since \/ (os = "linux" /\ "stopFailed" \notin since))
       => service = "inactive"

LEMMA InvParts ==
    /\ ServiceInv <=> Types /\ Places /\ Afterwards
    /\ ServiceInv' <=> Types' /\ Places' /\ Afterwards'
<1>1. Quiet <=> "stopFailed" \notin since /\ "started" \notin since
    BY DEF Quiet
<1>2. Quiet' <=> "stopFailed" \notin since' /\ "started" \notin since'
    BY DEF Quiet
<1>3. TypeOK <=> Types
    BY ServiceAssumption DEF TypeOK, Types
<1>4. TypeOK' <=> Types'
    BY ServiceAssumption DEF TypeOK, Types
<1>5. ServiceInv <=> Types /\ Places /\ Afterwards
    BY <1>1, <1>3 DEF ServiceInv, Places, Afterwards, GoneForGood
<1>6. ServiceInv' <=> Types' /\ Places' /\ Afterwards'
    BY <1>2, <1>4 DEF ServiceInv, Places, Afterwards, GoneForGood
<1> QED BY <1>5, <1>6

LEMMA Bounds ==
    /\ MaxInstalls \in Nat /\ MaxEvents \in Nat /\ MaxTries \in Nat
    /\ 0 \in 0..MaxTries /\ 0 \in Settings /\ 0 \in 0..MaxInstalls /\ 0 \in 0..MaxEvents
    /\ Systems \subseteq {"linux", "windows"}
BY ServiceAssumption DEF Settings

LEMMA InitService == ASSUME Init PROVE ServiceInv
<1> USE DEF Init
<1>1. Types
    BY Bounds DEF Types
<1>2. Places /\ Afterwards
    BY DEF Places, Afterwards
<1> QED BY <1>1, <1>2, InvParts
-------------------------------------------------------------------------------
(* The steps.                                                                *)

\* The types.
LEMMA NextTypes == ASSUME Types, Places, Afterwards, Next PROVE Types'
<1> USE Bounds
<1>1. CASE Install
    BY <1>1 DEF Types, Settings, Install, Goto, others, runtime
<1>2. CASE Smoke
    BY <1>2 DEF Types, Settings, Smoke, Goto, registration, runtime, others
<1>3. CASE WriteUnit
    BY <1>3 DEF Types, Settings, WriteUnit, Goto, runtime, others
<1>4. CASE Reload
    BY <1>4 DEF Types, Settings, Reload, Goto, runtime, others
<1>5. CASE Enable
    BY <1>5 DEF Types, Settings, Enable, Now, Started, Says, Reported, others
<1>6. CASE EnableHalf
    BY <1>6 DEF Types, Settings, EnableHalf, Event, Reported, runtime, others
<1>7. CASE CreateTask
    BY <1>7 DEF Types, Settings, CreateTask, Says, Reported, runtime, others
<1>8. CASE Uninstall
    BY <1>8 DEF Types, Settings, Uninstall, Goto, registration, runtime, others
<1>9. CASE Disable
  <2>1. since' \subseteq {"stopFailed", "stopped", "started", "logon"}
      BY <1>9 DEF Disable, Types
  <2> QED
      BY <1>9, <2>1, Bounds DEF Types, Disable, StopNow, Stopped, others
<1>10. CASE DisableFails
    BY <1>10 DEF Types, Settings, DisableFails, Event, registration, runtime, others
<1>11. CASE RemoveUnit
    BY <1>11 DEF Types, Settings, RemoveUnit, DeleteUnit, Goto, runtime, others
<1>12. CASE Forget
    BY <1>12 DEF Types, Settings, Forget, Says, Reported, runtime, others
<1>13. CASE DeleteTask
    BY <1>13 DEF Types, Settings, DeleteTask, Says, Reported, runtime, others
<1>14. CASE Fails
    BY <1>14 DEF Types, Settings, Fails, Refused, Event, Reported, registration, runtime,
       others
<1>15. CASE AgentUp
    BY <1>15 DEF Types, Settings, AgentUp, Failed, Restartable, registration,
       commandLine
<1>16. CASE Restart
    BY <1>16 DEF Types, Settings, Places, Restart, registration, commandLine
<1>17. CASE Crash
    BY <1>17 DEF Types, Settings, Crash, Event, Failed, Restartable, registration,
       commandLine
<1>18. CASE Terminate
    BY <1>18 DEF Types, Settings, Terminate, Event, Stopped, registration, commandLine
<1>19. CASE StartByUser
    BY <1>19 DEF Types, Settings, StartByUser, Event, Started, registration,
       commandLine
<1>20. CASE ByHand
    BY <1>20 DEF Types, Settings, ByHand, Event, registration, runtime, commandLine
<1>21. CASE Logout
  <2>1. loaded' \in BOOLEAN /\ session' \in BOOLEAN /\ manual' = FALSE
      BY <1>21 DEF Logout
  <2>2. /\ service' = "inactive" /\ agent' = 0 /\ tries' = 0
        /\ UNCHANGED <<os, config, unit, enabled, since, cli, report, installs>>
      BY <1>21 DEF Logout, Stopped, commandLine
  <2>3. events' \in 0..MaxEvents
      BY <1>21 DEF Types, Logout, Event
  <2> QED
      BY <2>1, <2>2, <2>3, Bounds DEF Types
<1>22. CASE Logon
    BY <1>22 DEF Types, Settings, Logon, Started, Stopped, commandLine
<1>23. CASE DisableHalf
  <2>1. since' \subseteq {"stopFailed", "stopped", "started", "logon"}
      BY <1>23 DEF DisableHalf, Types
  <2>2. events' \in 0..MaxEvents
      BY <1>23 DEF Types, DisableHalf, Event
  <2>3. /\ cli' = "remove" /\ enabled' = FALSE
        /\ UNCHANGED <<os, config, unit, loaded, service, agent, tries, manual, session,
                       report, installs>>
      BY <1>23 DEF DisableHalf, runtime, others
  <2> QED
      BY <2>1, <2>2, <2>3 DEF Types
<1> QED
    BY <1>1, <1>2, <1>3, <1>4, <1>5, <1>6, <1>7, <1>8, <1>9, <1>10, <1>11, <1>12,
       <1>13, <1>14, <1>15, <1>16, <1>17, <1>18, <1>19, <1>20, <1>21, <1>22,
       <1>23 DEF Next, Command

\* Where a command is.
LEMMA NextPlaces == ASSUME Types, Places, Afterwards, Next PROVE Places'
<1> USE Bounds
<1>1. CASE Install
    BY <1>1 DEF Types, Places, Install, Goto, others, runtime
<1>2. CASE Smoke
    BY <1>2 DEF Types, Places, Smoke, Goto, registration, runtime, others
<1>3. CASE WriteUnit
    BY <1>3 DEF Types, Places, WriteUnit, Goto, runtime, others
<1>4. CASE Reload
    BY <1>4 DEF Types, Places, Reload, Goto, runtime, others
<1>5. CASE Enable
    BY <1>5 DEF Types, Places, Enable, Now, Started, Says, Reported, others
<1>6. CASE EnableHalf
    BY <1>6 DEF Types, Places, EnableHalf, Event, Reported, runtime, others
<1>7. CASE CreateTask
    BY <1>7 DEF Types, Places, CreateTask, Says, Reported, runtime, others
<1>8. CASE Uninstall
    BY <1>8 DEF Types, Places, Uninstall, Goto, registration, runtime, others
<1>9. CASE Disable
    BY <1>9 DEF Types, Places, Disable, StopNow, Stopped, others
<1>10. CASE DisableFails
    BY <1>10 DEF Types, Places, DisableFails, Event, registration, runtime, others
<1>11. CASE RemoveUnit
    BY <1>11 DEF Types, Places, RemoveUnit, DeleteUnit, Goto, runtime, others
<1>12. CASE Forget
    BY <1>12 DEF Types, Places, Forget, Says, Reported, runtime, others
<1>13. CASE DeleteTask
    BY <1>13 DEF Types, Places, DeleteTask, Says, Reported, runtime, others
<1>14. CASE Fails
    BY <1>14 DEF Types, Places, Fails, Refused, Event, Reported, registration, runtime, others
<1>15. CASE AgentUp
    BY <1>15 DEF Types, Places, AgentUp, Failed, Restartable, registration,
       commandLine
<1>16. CASE Restart
    BY <1>16 DEF Types, Places, Restart, registration, commandLine
<1>17. CASE Crash
    BY <1>17 DEF Types, Places, Crash, Event, Failed, Restartable, registration,
       commandLine
<1>18. CASE Terminate
    BY <1>18 DEF Types, Places, Terminate, Event, Stopped, registration, commandLine
<1>19. CASE StartByUser
    BY <1>19 DEF Types, Places, StartByUser, Event, Started, registration, commandLine
<1>20. CASE ByHand
    BY <1>20 DEF Types, Places, ByHand, Event, registration, runtime, commandLine
<1>21. CASE Logout
    BY <1>21 DEF Types, Places, Logout, Event, Stopped, commandLine
<1>22. CASE Logon
    BY <1>22 DEF Types, Places, Logon, Started, Stopped, commandLine
<1>23. CASE DisableHalf
    BY <1>23 DEF Types, Places, DisableHalf, Event, runtime, others
<1> QED
    BY <1>1, <1>2, <1>3, <1>4, <1>5, <1>6, <1>7, <1>8, <1>9, <1>10, <1>11, <1>12,
       <1>13, <1>14, <1>15, <1>16, <1>17, <1>18, <1>19, <1>20, <1>21, <1>22,
       <1>23 DEF Next, Command

\* What is left of the service.
LEMMA NextEnds == ASSUME Types, Places, Afterwards, Next PROVE Afterwards'
<1> USE Bounds
<1>1. CASE Install
    BY <1>1 DEF Types, Places, Afterwards, Install, Goto, others, runtime
<1>2. CASE Smoke
    BY <1>2 DEF Types, Places, Afterwards, Smoke, Goto, registration, runtime, others
<1>3. CASE WriteUnit
    BY <1>3 DEF Types, Places, Afterwards, WriteUnit, Goto, runtime, others
<1>4. CASE Reload
    BY <1>4 DEF Types, Places, Afterwards, Reload, Goto, runtime, others
<1>5. CASE Enable
    BY <1>5 DEF Types, Places, Afterwards, Enable, Now, Started, Says, Reported, others
<1>6. CASE EnableHalf
    BY <1>6 DEF Types, Places, Afterwards, EnableHalf, Event, Reported, runtime, others
<1>7. CASE CreateTask
    BY <1>7 DEF Types, Places, Afterwards, CreateTask, Says, Reported, runtime, others
<1>8. CASE Uninstall
    BY <1>8 DEF Types, Places, Afterwards, Uninstall, Goto, registration, runtime, others
<1>9. CASE Disable
    BY <1>9 DEF Types, Places, Afterwards, Disable, StopNow, Stopped, others
<1>10. CASE DisableFails
    BY <1>10 DEF Types, Places, Afterwards, DisableFails, Event, registration, runtime,
       others
<1>11. CASE RemoveUnit
    BY <1>11 DEF Types, Places, Afterwards, RemoveUnit, DeleteUnit, Goto, runtime, others
<1>12. CASE Forget
    BY <1>12 DEF Types, Places, Afterwards, Forget, Says, Reported, runtime, others
<1>13. CASE DeleteTask
    BY <1>13 DEF Types, Places, Afterwards, DeleteTask, Says, Reported, runtime, others
<1>14. CASE Fails
    BY <1>14 DEF Types, Places, Afterwards, Fails, Refused, Event, Reported, registration, runtime,
       others
<1>15. CASE AgentUp
    BY <1>15 DEF Types, Places, Afterwards, AgentUp, Failed, Restartable, registration,
       commandLine
<1>16. CASE Restart
    BY <1>16 DEF Types, Places, Afterwards, Restart, registration, commandLine
<1>17. CASE Crash
    BY <1>17 DEF Types, Places, Afterwards, Crash, Event, Failed, Restartable, registration,
       commandLine
<1>18. CASE Terminate
    BY <1>18 DEF Types, Places, Afterwards, Terminate, Event, Stopped, registration,
       commandLine
<1>19. CASE StartByUser
    BY <1>19 DEF Types, Places, Afterwards, StartByUser, Event, Started, registration,
       commandLine
<1>20. CASE ByHand
    BY <1>20 DEF Types, Places, Afterwards, ByHand, Event, registration, runtime,
       commandLine
<1>21. CASE Logout
    BY <1>21 DEF Types, Places, Afterwards, Logout, Event, Stopped, commandLine
<1>22. CASE Logon
    BY <1>22 DEF Types, Places, Afterwards, Logon, Started, Stopped, commandLine
<1>23. CASE DisableHalf
    BY <1>23 DEF Types, Places, Afterwards, DisableHalf, Event, runtime, others
<1> QED
    BY <1>1, <1>2, <1>3, <1>4, <1>5, <1>6, <1>7, <1>8, <1>9, <1>10, <1>11, <1>12,
       <1>13, <1>14, <1>15, <1>16, <1>17, <1>18, <1>19, <1>20, <1>21, <1>22,
       <1>23 DEF Next, Command

LEMMA NextService == ASSUME ServiceInv, [Next]_vars PROVE ServiceInv'
<1>1. Types /\ Places /\ Afterwards
    BY InvParts
<1>2. CASE Next
    BY <1>1, <1>2, NextTypes, NextPlaces, NextEnds, InvParts
<1>3. CASE UNCHANGED vars
    BY <1>1, <1>3, InvParts DEF vars, Types, Places, Afterwards
<1> QED BY <1>2, <1>3
-------------------------------------------------------------------------------
\* Whatever steps of an install or an uninstall fail, and whatever befalls the
\* agent meanwhile, the invariant of the service holds.
THEOREM ServiceCorrect == Spec => []ServiceInv
<1>1. Init => ServiceInv
    BY InitService
<1>2. ServiceInv /\ [Next]_vars => ServiceInv'
    BY NextService
<1> QED BY <1>1, <1>2, PTL DEF Spec

\* After an uninstall no agent of the service runs, from the next logon on, and
\* at once on Linux unless the stop failed, but for one the user starts by hand
\* (main.go, scheduler_linux.go:58-78).
THEOREM GoneForGoodCorrect == Spec => []GoneForGood
<1>1. ServiceInv => GoneForGood
    BY DEF ServiceInv
<1> QED BY <1>1, ServiceCorrect, PTL

\* When doctor says that no scheduler is installed, none will start the agent
\* (doctor.go:290-314).
THEOREM NotInstalledIsTrueCorrect == Spec => []NotInstalledIsTrue
<1>1. ServiceInv => NotInstalledIsTrue
  <2> SUFFICES ASSUME ServiceInv, SchedulerLine = "notInstalled" PROVE NotInstalledIsTrue
      BY DEF NotInstalledIsTrue
  <2>1. ~Registered
      BY DEF SchedulerLine
  <2>2. Types /\ Places /\ Afterwards
      BY InvParts
  <2>3. ~unit
      BY <2>1, <2>2 DEF Registered, Types
  <2>4. ASSUME os = "linux", service # "inactive"
        PROVE  service = "waiting" /\ since \cap {"stopFailed", "started"} # {}
    <3>1. session
        BY <2>2, <2>4 DEF Places
    <3>2. service # "active"
        BY <2>1, <2>4, <3>1 DEF Registered
    <3>3. ~Quiet
        BY <2>3, <2>4 DEF ServiceInv
    <3> QED BY <2>2, <2>4, <3>2, <3>3 DEF Types, Quiet
  <2> QED BY <2>3, <2>4 DEF NotInstalledIsTrue
<1> QED BY <1>1, ServiceCorrect, PTL
-------------------------------------------------------------------------------
(* Cadence: what the intervals, timeouts and heartbeats add up to.           *)

LEMMA Durations ==
    /\ Interval \in Nat \ {0} /\ StaleTTL \in Nat \ {0} /\ TickTimeout \in Nat \ {0}
    /\ EscalateAfter \in Nat \ {0} /\ RepeatEvery \in Nat \ {0}
    /\ Heartbeat \in Nat \ {0} /\ Heartbeat <= StaleTTL
    /\ Period \in Nat \ {0} /\ Interval <= Period /\ TickTimeout <= Period
BY CadenceAssumption DEF Period

\* One more failed tick allows one more period.
LEMMA AllowedStep ==
    ASSUME NEW n \in Nat
    PROVE  /\ Allowed(n) \in Nat /\ Allowed(n + 1) = Allowed(n) + Period
           /\ Allowed(0) = Heartbeat - 1 + Period
<1>1. /\ Period * (n + 1) \in Nat /\ Period * ((n + 1) + 1) = Period * (n + 1) + Period
      /\ Period * (0 + 1) = Period
    BY Durations
<1> QED BY <1>1, Durations DEF Allowed

LEMMA AllowedGrows ==
    ASSUME NEW n \in Nat, NEW k \in Nat, n <= k
    PROVE  Allowed(n) <= Allowed(k)
<1>1. Period * (k + 1) = Period * (n + 1) + Period * (k - n)
    BY Durations
<1>2. Period * (k - n) \in Nat /\ Period * (n + 1) \in Nat
    BY Durations
<1> QED BY <1>1, <1>2, Durations DEF Allowed

\* CadenceTypeOK in single statements.
Typed ==
    /\ ticker \in Nat /\ 1 <= ticker /\ ticker <= Interval /\ pending \in BOOLEAN
    /\ tick \in {"wait", "scan", "decide", "push"}
    /\ spent \in Nat /\ spent <= TickTimeout /\ built \in Nat /\ built <= spent
    /\ file \in Nat /\ branch \in Nat /\ pub \in Nat
    /\ file <= StaleTTL + 1 /\ branch <= StaleTTL + 1 /\ pub <= StaleTTL + 1
    /\ stuck \in BOOLEAN /\ said \in BOOLEAN
    /\ count \in Nat /\ count < EscalateAfter + RepeatEvery
    /\ mishaps \subseteq {"new", "failed", "stuck", "restarted"}

LEMMA TypedMeans == (CadenceTypeOK <=> Typed) /\ (CadenceTypeOK' <=> Typed')
<1>1. CadenceTypeOK <=> Typed
    BY Durations DEF CadenceTypeOK, Typed, Ages
<1>2. CadenceTypeOK' <=> Typed'
    BY Durations DEF CadenceTypeOK, Typed, Ages
<1> QED BY <1>1, <1>2

LEMMA OlderBounds ==
    ASSUME NEW a \in Nat
    PROVE  /\ Older(a) \in Nat /\ a <= Older(a) /\ Older(a) <= a + 1
           /\ a <= StaleTTL + 1 => Older(a) <= StaleTTL + 1
           /\ a <= StaleTTL => Older(a) = a + 1
BY Durations DEF Older

LEMMA InitCadence == CadenceInit => CadenceInv
<1> SUFFICES ASSUME CadenceInit PROVE CadenceInv
    OBVIOUS
<1>1. Typed
    <2>1. /\ ticker = Interval /\ spent = 0 /\ built = 0 /\ count = 0
          /\ file = StaleTTL + 1 /\ branch = StaleTTL + 1 /\ pub = StaleTTL + 1
          /\ tick = "scan" /\ mishaps = {"new"}
        BY DEF CadenceInit
    <2>2. pending \in BOOLEAN /\ stuck \in BOOLEAN /\ said \in BOOLEAN
        BY DEF CadenceInit
    <2> QED BY <2>1, <2>2, Durations DEF Typed
<1>2. ~Untroubled /\ mishaps # {}
    BY DEF CadenceInit, Untroubled
<1>3. tick = "scan" /\ file = branch /\ spent = 0 /\ ticker = Interval
    BY DEF CadenceInit
<1> QED BY <1>1, <1>2, <1>3, TypedMeans, Durations DEF CadenceInv
-------------------------------------------------------------------------------
(* One lemma per action.  Period <= StaleTTL: the loop's own clock is no age *)
(* past the first stale one, beyond which ages are not told apart.           *)

LEMMA AdvanceKeeps ==
    ASSUME Period <= StaleTTL, CadenceInv, Advance
    PROVE  CadenceInv'
<1>1. Typed /\ UNCHANGED <<tick, stuck, count, said, mishaps>>
    BY TypedMeans DEF CadenceInv, Advance
<1>2. /\ file' = Older(file) /\ branch' = Older(branch) /\ pub' = Older(pub)
      /\ file' \in Nat /\ branch' \in Nat /\ pub' \in Nat
      /\ file' <= StaleTTL + 1 /\ branch' <= StaleTTL + 1 /\ pub' <= StaleTTL + 1
      /\ branch' <= branch + 1 /\ pub' <= pub + 1
    BY <1>1, OlderBounds DEF Advance, Typed
<1>3. /\ ticker' \in Nat /\ 1 <= ticker' /\ ticker' <= Interval
      /\ ticker' = IF ticker = 1 THEN Interval ELSE ticker - 1
    BY <1>1, Durations DEF Advance, Typed
<1>4. pending' \in BOOLEAN /\ (pending' <=> pending \/ ticker = 1)
    BY <1>1 DEF Advance, Typed
<1>5. /\ spent' \in Nat /\ spent' <= TickTimeout /\ built' \in Nat /\ built' <= spent'
      /\ tick # "wait" => spent' = spent + 1
    <2>1. CASE tick = "wait"
        BY <1>1, <2>1, Durations DEF Advance, Typed
    <2>2. CASE tick # "wait"
        <3>1. spent < TickTimeout /\ spent' = Older(spent)
              /\ (built' = 0 \/ built' = Older(built))
            BY <2>2 DEF Advance, WithinDeadline
        <3>2. spent <= StaleTTL /\ spent \in Nat /\ built \in Nat /\ built <= spent
            BY <1>1, <3>1, Durations DEF Typed
        <3>3. spent' = spent + 1 /\ built' \in Nat /\ built' <= spent'
            BY <3>1, <3>2, OlderBounds, Durations
        <3> QED BY <2>2, <3>1, <3>2, <3>3, Durations
    <2> QED BY <2>1, <2>2
<1>6. Typed'
    BY <1>1, <1>2, <1>3, <1>4, <1>5 DEF Typed
<1>7. tick' # "wait" /\ ~pending' => spent' + ticker' <= Interval
    BY <1>1, <1>3, <1>4, <1>5, Durations DEF CadenceInv, Typed
<1>8. ~stuck' => file' = branch'
    BY <1>1, <1>2 DEF CadenceInv
<1>9. tick' = "push" /\ ~stuck' => branch' <= Heartbeat - 1 + spent'
    BY <1>1, <1>2, <1>5, Durations DEF CadenceInv, Typed
<1>10. /\ mishaps' = {} => count' = 0 /\ ~said'
       /\ Untroubled' => ~stuck'
       /\ Untroubled' /\ ~said' => count' < EscalateAfter
    BY <1>1 DEF CadenceInv, Untroubled
<1>11. ASSUME Untroubled', ~said'
       PROVE  /\ tick' = "wait" =>
                     pub' + (IF pending' THEN 0 ELSE ticker') <= Allowed(count')
              /\ tick' # "wait" => pub' <= Allowed(count') + spent'
    <2>1. /\ Untroubled /\ ~said /\ count \in Nat
        BY <1>1, <1>11 DEF Untroubled, Typed
    <2>2. Allowed(count) \in Nat
        BY <2>1, AllowedStep
    <2>3. CASE tick = "wait"
        <3>1. ~pending /\ pub + ticker <= Allowed(count)
            BY <2>1, <2>3 DEF CadenceInv, Advance
        <3>2. CASE ticker = 1
            BY <1>1, <1>2, <1>4, <2>2, <2>3, <3>1, <3>2 DEF Typed
        <3>3. CASE ticker # 1
            BY <1>1, <1>2, <1>3, <1>4, <2>2, <2>3, <3>1, <3>3 DEF Typed
        <3> QED BY <3>2, <3>3
    <2>4. CASE tick # "wait"
        <3>1. pub <= Allowed(count) + spent
            BY <2>1, <2>4 DEF CadenceInv
        <3> QED BY <1>1, <1>2, <1>5, <2>2, <2>4, <3>1 DEF Typed
    <2> QED BY <2>3, <2>4
<1> QED BY <1>6, <1>7, <1>8, <1>9, <1>10, <1>11, TypedMeans DEF CadenceInv

LEMMA ReceiveKeeps ==
    ASSUME CadenceInv, Receive
    PROVE  CadenceInv'
<1>1. /\ Typed /\ tick = "wait" /\ pending /\ tick' = "scan" /\ pending' = FALSE
      /\ spent' = 0 /\ built' = 0
      /\ UNCHANGED <<ticker, file, branch, pub, stuck, count, said, mishaps>>
    BY TypedMeans DEF CadenceInv, Receive, clone
<1>2. Typed'
    <2>1. pending' \in BOOLEAN /\ stuck' \in BOOLEAN /\ said' \in BOOLEAN
        BY <1>1 DEF Typed
    <2> QED BY <1>1, <2>1, Durations DEF Typed
<1>3. spent' + ticker' <= Interval
    BY <1>1 DEF Typed
<1>4. ASSUME Untroubled', ~said'
      PROVE  count' < EscalateAfter /\ pub' <= Allowed(count') + spent'
    <2>1. Untroubled /\ ~said
        BY <1>1, <1>4 DEF Untroubled
    <2>2. count < EscalateAfter /\ pub + 0 <= Allowed(count)
        BY <1>1, <2>1 DEF CadenceInv
    <2>3. Allowed(count) \in Nat
        BY <1>1, AllowedStep DEF Typed
    <2> QED BY <1>1, <2>2, <2>3 DEF Typed
<1>5. Untroubled' => ~stuck'
    BY <1>1 DEF CadenceInv, Untroubled
<1> QED BY <1>1, <1>2, <1>3, <1>4, <1>5, TypedMeans DEF CadenceInv

LEMMA PullKeeps ==
    ASSUME CadenceInv, Pull
    PROVE  CadenceInv'
<1>1. /\ Typed /\ tick = "scan" /\ stuck' = ~stuck /\ file' = branch
      /\ mishaps' = mishaps \cup {"stuck"}
      /\ UNCHANGED <<ticker, pending, tick, spent, built, branch, pub, count, said>>
    BY TypedMeans DEF CadenceInv, Pull, time
<1>2. Typed'
    <2>1. stuck' \in BOOLEAN /\ pending' \in BOOLEAN /\ said' \in BOOLEAN
        BY <1>1 DEF Typed
    <2>2. mishaps' \subseteq {"new", "failed", "stuck", "restarted"}
        BY <1>1 DEF Typed
    <2> QED BY <1>1, <2>1, <2>2 DEF Typed
<1>3. mishaps' # {} /\ ~Untroubled'
    BY <1>1 DEF Untroubled
<1> QED BY <1>1, <1>2, <1>3, TypedMeans DEF CadenceInv

LEMMA BuildKeeps ==
    ASSUME CadenceInv, Build
    PROVE  CadenceInv'
<1>1. /\ Typed /\ tick = "scan" /\ tick' = "decide" /\ built' = 0
      /\ UNCHANGED <<ticker, pending, spent, file, branch, pub, stuck, count, said,
                     mishaps>>
    BY TypedMeans DEF CadenceInv, Build, time, clone
<1>2. Typed'
    BY <1>1 DEF Typed
<1>3. Untroubled' <=> Untroubled
    BY <1>1 DEF Untroubled
<1> QED BY <1>1, <1>2, <1>3, TypedMeans DEF CadenceInv

\* A tick takes no longer than a period, nor does the wait for the next one add to
\* it: what was base + spent when it ends is base + Period when the next starts.
LEMMA EndsWithin ==
    ASSUME CadenceInv, tick # "wait", NEW base \in Nat, NEW age \in Nat,
           age <= base + spent
    PROVE  age + (IF pending THEN 0 ELSE ticker) <= base + Period
<1>1. Typed /\ (~pending => spent + ticker <= Interval)
    BY TypedMeans DEF CadenceInv
<1>2. CASE pending
    BY <1>1, <1>2, Durations DEF Typed
<1>3. CASE ~pending
    BY <1>1, <1>3, Durations DEF Typed
<1> QED BY <1>2, <1>3

LEMMA FailKeeps ==
    ASSUME CadenceInv, Fail
    PROVE  CadenceInv'
<1>1. /\ Typed /\ tick # "wait" /\ tick' = "wait" /\ spent' = 0 /\ built' = 0
      /\ count' = Counted(count + 1)
      /\ said' = (said \/ Escalates(Counted(count + 1)))
      /\ mishaps' = mishaps \cup {"failed"}
      /\ UNCHANGED <<ticker, pending, file, branch, pub, stuck>>
    BY TypedMeans DEF CadenceInv, Fail, Ends, RecordFailure, time, clone
<1>2. count' \in Nat /\ count' < EscalateAfter + RepeatEvery
    BY <1>1, Durations DEF Typed, Counted
<1>3. Typed'
    <2>1. pending' \in BOOLEAN /\ stuck' \in BOOLEAN /\ said' \in BOOLEAN
        BY <1>1 DEF Typed, Escalates
    <2>2. mishaps' \subseteq {"new", "failed", "stuck", "restarted"}
        BY <1>1 DEF Typed
    <2>3. /\ tick' = "wait" /\ spent' = 0 /\ built' = 0
          /\ UNCHANGED <<ticker, file, branch, pub>>
        BY <1>1
    <2>4. Typed
        BY <1>1
    <2> QED BY <1>2, <2>1, <2>2, <2>3, <2>4, Durations DEF Typed
<1>4. mishaps' # {} /\ (Untroubled' <=> Untroubled)
    BY <1>1 DEF Untroubled
<1>5. ASSUME Untroubled', ~said'
      PROVE  /\ count' < EscalateAfter
             /\ pub' + (IF pending' THEN 0 ELSE ticker') <= Allowed(count')
    <2>1. ~said /\ Counted(count + 1) # EscalateAfter /\ Untroubled
        BY <1>1, <1>4, <1>5 DEF Escalates
    <2>2. count < EscalateAfter /\ pub <= Allowed(count) + spent
        BY <1>1, <2>1 DEF CadenceInv
    <2>3. count' = count + 1 /\ count' < EscalateAfter
        BY <1>1, <2>1, <2>2, Durations DEF Counted, Typed
    <2>4. /\ Allowed(count) \in Nat /\ Allowed(count') = Allowed(count) + Period
          /\ pub \in Nat
        BY <1>1, <2>3, AllowedStep DEF Typed
    <2>5. pub + (IF pending THEN 0 ELSE ticker) <= Allowed(count) + Period
        BY <1>1, <2>2, <2>4, EndsWithin
    <2> QED BY <1>1, <2>3, <2>4, <2>5
<1> QED BY <1>1, <1>3, <1>4, <1>5, TypedMeans DEF CadenceInv

LEMMA SkipKeeps ==
    ASSUME CadenceInv, Skip
    PROVE  CadenceInv'
<1>1. /\ Typed /\ tick = "decide" /\ file \in Nat /\ file <= Heartbeat - 1
      /\ UNCHANGED <<ticker, pending, file, branch, pub, stuck, said, mishaps>>
    BY TypedMeans, Durations DEF CadenceInv, Skip, HeartbeatDue, Nil, time, clone, Typed
<1>2. Untroubled' <=> Untroubled
    BY <1>1 DEF Untroubled
<1>3. CASE Unpushed /\ ~stuck
    <2>1. tick' = "push" /\ UNCHANGED <<spent, built, count>>
        BY <1>3 DEF Skip
    <2>2. Typed'
        BY <1>1, <2>1 DEF Typed
    <2>3. ~stuck' => branch' <= Heartbeat - 1 + spent'
        BY <1>1, <2>1, Durations DEF CadenceInv, Typed
    <2> QED BY <1>1, <1>2, <2>1, <2>2, <2>3, TypedMeans DEF CadenceInv
<1>4. CASE ~(Unpushed /\ ~stuck)
    <2>1. tick' = "wait" /\ spent' = 0 /\ built' = 0 /\ count' = 0
        BY <1>4 DEF Skip, Nil, Ends, RecordSuccess
    <2>2. Typed'
        <3>1. pending' \in BOOLEAN /\ stuck' \in BOOLEAN /\ said' \in BOOLEAN
            BY <1>1 DEF Typed
        <3> QED BY <1>1, <2>1, <3>1, Durations DEF Typed
    <2>3. ASSUME Untroubled', ~said'
          PROVE  pub' + (IF pending' THEN 0 ELSE ticker') <= Allowed(count')
        <3>1. ~stuck /\ file = branch
            BY <1>2, <2>3 DEF CadenceInv
        <3>2. pub \in Nat /\ spent \in Nat /\ Heartbeat - 1 \in Nat
            BY <1>1, Durations DEF Typed
        <3>3. pub <= Heartbeat - 1 + spent
            BY <1>1, <1>4, <3>1, <3>2 DEF Unpushed
        <3>4. pub + (IF pending THEN 0 ELSE ticker) <= (Heartbeat - 1) + Period
            BY <1>1, <3>2, <3>3, EndsWithin
        <3> QED BY <1>1, <2>1, <3>4, AllowedStep
    <2>4. 0 < EscalateAfter
        BY Durations
    <2> QED BY <1>1, <1>2, <2>1, <2>2, <2>3, <2>4, TypedMeans DEF CadenceInv
<1> QED BY <1>3, <1>4

LEMMA CommitKeeps ==
    ASSUME Period <= StaleTTL, CadenceInv, Commit
    PROVE  CadenceInv'
<1>1. /\ Typed /\ tick = "decide" /\ tick' = "push" /\ file' = built
      /\ branch' = IF stuck THEN branch ELSE built
      /\ pub' \in {branch, pub} /\ (pub' = branch => branch <= pub)
      /\ UNCHANGED <<ticker, pending, spent, built, stuck, count, said, mishaps>>
    <2>1. Typed /\ branch \in Nat /\ pub \in Nat
        BY TypedMeans DEF CadenceInv, Typed
    <2> QED BY <2>1 DEF Commit, Unpushed, time
<1>2. /\ branch' \in Nat /\ branch' <= StaleTTL + 1
      /\ pub' \in Nat /\ pub' <= StaleTTL + 1 /\ pub' <= pub
      /\ file' \in Nat /\ file' <= StaleTTL + 1
    BY <1>1, Durations DEF Typed
<1>3. Typed'
    BY <1>1, <1>2 DEF Typed
<1>4. spent' + ticker' <= Interval \/ pending'
    BY <1>1 DEF CadenceInv
<1>5. ~stuck' => file' = branch' /\ branch' <= Heartbeat - 1 + spent'
    BY <1>1, Durations DEF Typed
<1>6. /\ Untroubled' <=> Untroubled
      /\ mishaps' = {} => count' = 0 /\ ~said'
      /\ Untroubled' => ~stuck'
    BY <1>1 DEF CadenceInv, Untroubled
<1>7. ASSUME Untroubled', ~said'
      PROVE  count' < EscalateAfter /\ pub' <= Allowed(count') + spent'
    <2>1. count < EscalateAfter /\ pub <= Allowed(count) + spent
        BY <1>1, <1>6, <1>7 DEF CadenceInv
    <2>2. Allowed(count) \in Nat
        BY <1>1, AllowedStep DEF Typed
    <2> QED BY <1>1, <1>2, <2>1, <2>2 DEF Typed
<1> QED BY <1>1, <1>3, <1>4, <1>5, <1>6, <1>7, TypedMeans DEF CadenceInv

LEMMA PushKeeps ==
    ASSUME CadenceInv, Push
    PROVE  CadenceInv'
<1>1. /\ Typed /\ tick = "push" /\ ~stuck /\ pub' = branch
      /\ tick' = "wait" /\ spent' = 0 /\ built' = 0 /\ count' = 0
      /\ said' = FALSE /\ mishaps' = {}
      /\ UNCHANGED <<ticker, pending, file, branch, stuck>>
    BY TypedMeans DEF CadenceInv, Push, Ends, RecordSuccess, time
<1>2. Typed'
    <2>1. pending' \in BOOLEAN /\ stuck' \in BOOLEAN /\ said' \in BOOLEAN
        BY <1>1 DEF Typed
    <2>2. /\ tick' = "wait" /\ spent' = 0 /\ built' = 0 /\ count' = 0 /\ pub' = branch
          /\ mishaps' = {} /\ UNCHANGED <<ticker, file, branch>> /\ Typed
        BY <1>1
    <2> QED BY <2>1, <2>2, Durations DEF Typed
<1>3. pub' + (IF pending' THEN 0 ELSE ticker') <= Allowed(count')
    <2>1. branch <= (Heartbeat - 1) + spent /\ branch \in Nat /\ Heartbeat - 1 \in Nat
        BY <1>1, Durations DEF CadenceInv, Typed
    <2>2. branch + (IF pending THEN 0 ELSE ticker) <= (Heartbeat - 1) + Period
        BY <1>1, <2>1, EndsWithin
    <2> QED BY <1>1, <2>2, AllowedStep
<1>4. file' = branch' /\ 0 < EscalateAfter
    BY <1>1, Durations DEF CadenceInv
<1> QED BY <1>1, <1>2, <1>3, <1>4, TypedMeans DEF CadenceInv

LEMMA StartKeeps ==
    ASSUME CadenceInv, StartAgain
    PROVE  CadenceInv'
<1>1. /\ Typed /\ ticker' = Interval /\ pending' = FALSE
      /\ tick' = "scan" /\ spent' = 0 /\ built' = 0 /\ count' = 0
      /\ mishaps' = mishaps \cup {"restarted"}
      /\ UNCHANGED <<file, branch, pub, stuck, said>>
    BY TypedMeans DEF CadenceInv, StartAgain, clone
<1>2. Typed'
    <2>1. pending' \in BOOLEAN /\ stuck' \in BOOLEAN /\ said' \in BOOLEAN
        BY <1>1 DEF Typed
    <2>2. mishaps' \subseteq {"new", "failed", "stuck", "restarted"}
        BY <1>1 DEF Typed
    <2>3. /\ ticker' = Interval /\ tick' = "scan" /\ spent' = 0 /\ built' = 0
          /\ count' = 0 /\ UNCHANGED <<file, branch, pub>> /\ Typed
        BY <1>1
    <2> QED BY <2>1, <2>2, <2>3, Durations DEF Typed
<1>3. mishaps' # {} /\ ~Untroubled'
    BY <1>1 DEF Untroubled
<1>4. spent' + ticker' <= Interval /\ (~stuck' => file' = branch')
    BY <1>1, Durations DEF CadenceInv
<1> QED BY <1>1, <1>2, <1>3, <1>4, TypedMeans DEF CadenceInv

LEMMA NextCadence ==
    Period <= StaleTTL /\ CadenceInv /\ [CadenceNext]_cadenceVars => CadenceInv'
<1> SUFFICES ASSUME Period <= StaleTTL, CadenceInv, [CadenceNext]_cadenceVars
             PROVE  CadenceInv'
    OBVIOUS
<1>1. CASE UNCHANGED cadenceVars
    BY <1>1 DEF cadenceVars, CadenceInv, CadenceTypeOK, Untroubled
<1> QED BY <1>1, AdvanceKeeps, ReceiveKeeps, PullKeeps, BuildKeeps, SkipKeeps,
           CommitKeeps, PushKeeps, FailKeeps, StartKeeps DEF CadenceNext

\* How old what peers read may get between two publishes, by the number of ticks
\* that failed since.
THEOREM CadenceCorrect ==
    ASSUME Period <= StaleTTL
    PROVE  CadenceSpec => []CadenceInv
<1>1. CadenceInv /\ [CadenceNext]_cadenceVars => CadenceInv'
    BY NextCadence
<1> QED BY <1>1, InitCadence, PTL DEF CadenceSpec

\* An agent whose ticks succeed is never called stale when stale_ttl leaves room
\* for the heartbeat and two periods, of the interval or of the tick's timeout,
\* whichever is longer.
THEOREM WellIsFreshCorrect ==
    ASSUME Heartbeat + 2 * Period <= StaleTTL + 1
    PROVE  CadenceSpec => []WellIsFresh
<1>1. Period <= StaleTTL
    BY Durations
<1>2. CadenceInv => WellIsFresh
    <2> SUFFICES ASSUME CadenceInv, mishaps = {} PROVE pub <= StaleTTL
        BY DEF WellIsFresh
    <2>1. Typed /\ Untroubled /\ ~said /\ count = 0
        BY TypedMeans DEF CadenceInv, Untroubled
    <2>2. Allowed(0) = Heartbeat - 1 + Period
        BY AllowedStep
    <2>3. CASE tick = "wait"
        <3>1. pub + (IF pending THEN 0 ELSE ticker) <= Heartbeat - 1 + Period
            BY <2>1, <2>2, <2>3 DEF CadenceInv
        <3>2. pub <= Heartbeat - 1 + Period
            BY <2>1, <3>1, Durations DEF Typed
        <3> QED BY <2>1, <3>2, Durations DEF Typed
    <2>4. CASE tick # "wait"
        <3>1. pub <= Heartbeat - 1 + Period + spent
            BY <2>1, <2>2, <2>4 DEF CadenceInv
        <3> QED BY <2>1, <3>1, Durations DEF Typed
    <2> QED BY <2>3, <2>4
<1> QED BY <1>1, <1>2, CadenceCorrect, PTL

\* Before peers call a machine stale whose ticks fail, its log has said so, when
\* stale_ttl leaves room for the heartbeat and all the ticks up to that ERROR.
THEOREM StaleIsSaidCorrect ==
    ASSUME Heartbeat + (EscalateAfter + 1) * Period <= StaleTTL + 1
    PROVE  CadenceSpec => []StaleIsSaid
<1>0. /\ EscalateAfter * Period \in Nat /\ Period <= EscalateAfter * Period
      /\ (EscalateAfter + 1) * Period = EscalateAfter * Period + Period
      /\ Allowed(EscalateAfter - 1) = Heartbeat - 1 + EscalateAfter * Period
    <2>1. EscalateAfter * Period \in Nat /\ Period <= EscalateAfter * Period
        BY Durations
    <2>2. (EscalateAfter + 1) * Period = EscalateAfter * Period + Period
        BY Durations
    <2>3. (EscalateAfter - 1) + 1 = EscalateAfter
        BY Durations
    <2> QED BY <2>1, <2>2, <2>3, Durations DEF Allowed
<1>1. Period <= StaleTTL
    BY <1>0, Durations
<1>2. CadenceInv => StaleIsSaid
    <2> SUFFICES ASSUME CadenceInv, Untroubled, ~said PROVE pub <= StaleTTL
        BY TypedMeans, Durations DEF StaleIsSaid, Untroubled, CadenceInv, Typed
    <2>1. Typed /\ count \in Nat /\ EscalateAfter - 1 \in Nat /\ count <= EscalateAfter - 1
        BY TypedMeans, Durations DEF CadenceInv, Typed
    <2>2. Allowed(count) <= Heartbeat - 1 + EscalateAfter * Period /\ Allowed(count) \in Nat
        BY <1>0, <2>1, AllowedGrows, AllowedStep
    <2>3. pub <= Allowed(count) + Period
        <3>1. CASE tick = "wait"
            <4>1. pub + (IF pending THEN 0 ELSE ticker) <= Allowed(count)
                BY <3>1 DEF CadenceInv
            <4> QED BY <2>1, <2>2, <4>1, Durations DEF Typed
        <3>2. CASE tick # "wait"
            <4>1. pub <= Allowed(count) + spent
                BY <3>2 DEF CadenceInv
            <4> QED BY <2>1, <2>2, <4>1, Durations DEF Typed
        <3> QED BY <3>1, <3>2
    <2> QED BY <1>0, <2>1, <2>2, <2>3, Durations DEF Typed
<1> QED BY <1>1, <1>2, CadenceCorrect, PTL
===============================================================================
