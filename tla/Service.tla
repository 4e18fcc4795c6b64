-------------------------------- MODULE Service -------------------------------
(* The agent as a service: install-scheduler and uninstall-scheduler (main.go, *)
(* scheduler_linux.go, scheduler_windows.go), whose steps may fail one by one  *)
(* and are not rolled back; the manager that runs the agent, systemd or the    *)
(* Windows task scheduler; logons, crashes, and an agent started by hand that  *)
(* holds the agent lock; and what doctor says of the service.                  *)
EXTENDS Naturals, FiniteSets

CONSTANTS
    Systems,      \* a subset of {"linux", "windows"}
    MaxInstalls,  \* bound on the number of installs
    MaxEvents,    \* bound on what befalls: failures, kills, logons, agents by hand
    MaxTries      \* how often the Windows task is restarted (999 in the code)

ASSUME ServiceAssumption ==
    /\ Systems \subseteq {"linux", "windows"}
    /\ {MaxInstalls, MaxEvents, MaxTries} \subseteq Nat

\* The sticky configuration of the n-th install is n; 0 is none.
Settings == 0..MaxInstalls

VARIABLES
    os,        \* the system this machine runs
    config,    \* the settings in config.toml
    unit,      \* the unit file, or the task, is there
    enabled,   \* it is to be started at logon
    loaded,    \* the manager knows the unit
    service,   \* its state: an agent process was started, waits for a restart
    agent,     \* the settings the agent of the service runs with; 0 if it is not up
    tries,     \* restarts since it was started
    manual,    \* an agent started by hand has the agent lock
    session,   \* the user is logged on and the user's manager runs
    cli,       \* the next step of the install or uninstall in progress
    report,    \* what the last one said
    since,     \* what happened since then
    installs, events

vars == <<os, config, unit, enabled, loaded, service, agent, tries, manual, session,
          cli, report, since, installs, events>>

registration == <<config, unit, enabled, loaded>>

runtime == <<service, agent, tries>>

others == <<os, manual, session, installs>>

Init ==
    /\ os \in Systems
    /\ config = 0 /\ unit = FALSE /\ enabled = FALSE /\ loaded = FALSE
    /\ service = "inactive" /\ agent = 0 /\ tries = 0
    /\ manual = FALSE /\ session = TRUE
    /\ cli = "idle" /\ report = "none" /\ since = {}
    /\ installs = 0 /\ events = 0
-------------------------------------------------------------------------------
Event == events < MaxEvents /\ events' = events + 1

\* The command in progress goes on with its next step, or ends with a report.
Goto(step) == cli' = step /\ UNCHANGED <<report, since, events>>

Reported(text) ==
    cli' = "idle" /\ report' = text /\ since' = since \cap {"stopFailed", "started"}

Says(text) == Reported(text) /\ UNCHANGED events

\* There is no user's manager to ask, or no task to delete.
Refused == (cli \in {"reload", "enable"} /\ ~session) \/ (cli = "delete" /\ ~unit)

\* A step fails, and so does the command: nothing is taken back.
Fails ==
    /\ cli # "idle" /\ Reported("failed")
    /\ IF Refused THEN UNCHANGED events ELSE Event
    /\ UNCHANGED <<registration, runtime, others>>

\* The manager starts the agent process, or has it already.
Started ==
    /\ service' = "active" /\ tries' = 0
    /\ agent' = IF service = "active" THEN agent ELSE 0

Stopped == service' = "inactive" /\ agent' = 0 /\ tries' = 0

\* install-scheduler: the settings are saved first,
Install ==
    /\ cli = "idle" /\ installs < MaxInstalls
    /\ installs' = installs + 1 /\ config' = installs + 1
    /\ Goto("smoke")
    /\ UNCHANGED <<os, manual, session, unit, enabled, loaded, runtime>>

\* smokePublishOnce: then it is tried whether they work.
Smoke ==
    /\ cli = "smoke"
    /\ Goto(IF os = "linux" THEN "write" ELSE "create")
    /\ UNCHANGED <<registration, runtime, others>>

WriteUnit ==
    /\ cli = "write" /\ unit' = TRUE
    /\ Goto("reload")
    /\ UNCHANGED <<config, enabled, loaded, runtime, others>>

\* systemctl --user daemon-reload
Reload ==
    /\ cli = "reload" /\ session
    /\ loaded' = unit
    /\ Goto("enable")
    /\ UNCHANGED <<config, unit, enabled, runtime, others>>

\* enable --now: an agent that runs goes on running.
Now == Started

Enable ==
    /\ cli = "enable" /\ session
    /\ enabled' = TRUE /\ Now
    /\ Says("installed")
    /\ UNCHANGED <<config, unit, loaded, others>>

\* It is enabled, and not started: systemctl fails.
EnableHalf ==
    /\ cli = "enable" /\ session /\ Event /\ Reported("failed")
    /\ enabled' = TRUE
    /\ UNCHANGED <<config, unit, loaded, runtime, others>>

\* schtasks /Create /F: an instance that runs goes on running, none is started.
CreateTask ==
    /\ cli = "create"
    /\ unit' = TRUE /\ enabled' = TRUE /\ loaded' = TRUE
    /\ Says("installed")
    /\ UNCHANGED <<config, runtime, others>>

\* uninstall-scheduler, whether there is a unit, and a session, or not.
Uninstall ==
    /\ cli = "idle"
    /\ Goto(IF os = "linux" THEN "disable" ELSE "delete")
    /\ UNCHANGED <<registration, runtime, others>>

\* disable --now
StopNow == Stopped

Disable ==
    /\ cli = "disable" /\ session
    /\ enabled' = FALSE /\ StopNow
    /\ cli' = "remove" /\ since' = since \ {"stopFailed", "started"}
    /\ UNCHANGED <<config, unit, loaded, others, report, events>>

\* Its failure is ignored: that of a unit that is not there, or whose manager
\* is not, and any other.
DisableFails ==
    /\ cli = "disable"
    /\ IF session /\ unit THEN Event ELSE UNCHANGED events
    /\ cli' = "remove" /\ since' = since \cup (IF unit THEN {"stopFailed"} ELSE {})
    /\ UNCHANGED <<registration, runtime, others, report>>

\* It is disabled, and not stopped.
DisableHalf ==
    /\ cli = "disable" /\ session /\ Event
    /\ enabled' = FALSE
    /\ cli' = "remove" /\ since' = since \cup {"stopFailed"}
    /\ UNCHANGED <<config, unit, loaded, runtime, others, report>>

\* Mutant: the unit file is left where it is.
KeepUnit == UNCHANGED unit

DeleteUnit == unit' = FALSE

RemoveUnit ==
    /\ cli = "remove" /\ DeleteUnit
    /\ Goto("forget")
    /\ UNCHANGED <<config, enabled, loaded, runtime, others>>

\* The last daemon-reload, done or not.
Forget ==
    /\ cli = "forget" /\ loaded' \in (IF session THEN {unit, loaded} ELSE {loaded})
    /\ Says("removed")
    /\ UNCHANGED <<config, unit, enabled, runtime, others>>

\* schtasks /Delete: an instance that runs goes on running.
DeleteTask ==
    /\ cli = "delete" /\ unit
    /\ unit' = FALSE /\ enabled' = FALSE /\ loaded' = FALSE
    /\ Says("removed")
    /\ UNCHANGED <<config, runtime, others>>

Command ==
    \/ Install \/ Smoke \/ WriteUnit \/ Reload \/ Enable \/ EnableHalf \/ CreateTask
    \/ Uninstall \/ Disable \/ DisableFails \/ DisableHalf \/ RemoveUnit \/ Forget
    \/ DeleteTask \/ Fails
-------------------------------------------------------------------------------
(* The manager, the agent, and what befalls them.                            *)

commandLine == <<cli, report, installs>>

\* Mutant: a failed agent is not started again.
NeverRestarted == FALSE

\* Restart=on-failure, RestartOnFailure: the manager knows the unit.
Restartable == loaded /\ (os = "windows" => tries < MaxTries)

\* The agent process ends with an error.
Failed == agent' = 0 /\ tries' = tries
          /\ service' = IF Restartable THEN "waiting" ELSE "inactive"

\* It reads its settings and takes the agent lock, which one started by hand may
\* have: "another agent appears to be running".
AgentUp ==
    /\ service = "active" /\ agent = 0
    /\ IF manual THEN Failed
       ELSE agent' = config /\ UNCHANGED <<service, tries>>
    /\ UNCHANGED <<os, registration, manual, session, since, events, commandLine>>

\* RestartSec=10, Interval PT1M.
Restart ==
    /\ service = "waiting"
    /\ service' = "active" /\ agent' = 0
    /\ tries' = IF os = "windows" THEN tries + 1 ELSE tries
    /\ UNCHANGED <<os, registration, manual, session, since, events, commandLine>>

Crash ==
    /\ service = "active" /\ Event /\ Failed
    /\ UNCHANGED <<os, registration, manual, session, since, commandLine>>

\* SIGTERM: the agent exits with 0 and is not restarted.
Terminate ==
    /\ service # "inactive" /\ Event /\ Stopped
    /\ since' = since \cup {"stopped"}
    /\ UNCHANGED <<os, registration, manual, session, commandLine>>

\* systemctl start, schtasks /Run.
StartByUser ==
    /\ session /\ loaded /\ service # "active" /\ Event /\ Started
    /\ since' = (since \ {"stopped"}) \cup {"started"}
    /\ UNCHANGED <<os, registration, manual, session, commandLine>>

\* An agent by hand starts if it gets the lock.
ByHand ==
    /\ agent = 0 /\ Event /\ manual' = ~manual
    /\ UNCHANGED <<os, registration, runtime, session, since, commandLine>>

\* The user's manager ends with the last session; commands end with it.
Logout ==
    /\ session /\ cli = "idle" /\ Event
    /\ session' = FALSE /\ Stopped
    /\ loaded' = (os = "windows" /\ loaded)
    /\ manual' = FALSE
    /\ UNCHANGED <<os, config, unit, enabled, since, commandLine>>

\* It starts what an uninstall that has failed to disable it is about to remove.
Logon ==
    /\ ~session
    /\ session' = TRUE /\ loaded' = unit
    /\ IF unit /\ enabled THEN Started ELSE Stopped
    /\ since' = {"logon"} \cup (IF cli = "remove" THEN since \cap {"stopFailed"} ELSE {})
    /\ UNCHANGED <<os, config, unit, enabled, manual, events, commandLine>>

Next ==
    \/ Command
    \/ AgentUp \/ Restart \/ Crash \/ Terminate \/ StartByUser \/ ByHand \/ Logout \/ Logon

Spec == Init /\ [][Next]_vars

\* The manager does its work, the agent comes up, and a command goes on.
FairSpec ==
    /\ Spec
    /\ WF_vars(AgentUp) /\ WF_vars(Restart)
    /\ WF_vars(cli # "idle" /\ Command)
-------------------------------------------------------------------------------
\* Mutant: only the unit file counts.
UnitThere == unit

\* schedulerStatus: without the user's bus the unit file is all it sees.
Registered ==
    IF os = "linux" /\ session
    THEN (enabled /\ unit) \/ service = "active" \/ unit
    ELSE unit

\* checkScheduler
SchedulerLine ==
    IF ~Registered THEN "notInstalled"
    ELSE IF service = "active" THEN "ok"
    ELSE IF os = "linux" /\ session THEN "fail" ELSE "warn"
-------------------------------------------------------------------------------
TypeOK ==
    /\ os \in Systems /\ config \in Settings /\ agent \in Settings
    /\ {unit, enabled, loaded, manual, session} \subseteq BOOLEAN
    /\ service \in {"inactive", "active", "waiting"} /\ tries \in 0..MaxTries
    /\ installs \in 0..MaxInstalls /\ events \in 0..MaxEvents
    /\ cli \in {"idle", "smoke", "write", "reload", "enable", "create", "disable",
                "remove", "forget", "delete"}
    /\ report \in {"none", "installed", "failed", "removed"}
    /\ since \subseteq {"stopFailed", "stopped", "started", "logon"}
    /\ manual => agent = 0

\* After an uninstall no agent of the service runs, from the next logon on at the
\* latest whatever failed, and at once on Linux unless the stop failed; but for
\* one that the user starts by hand from a unit the manager has not forgotten.
GoneForGood ==
    report = "removed" /\ cli = "idle" /\ "started" \notin since
        /\ ("logon" \in since \/ (os = "linux" /\ "stopFailed" \notin since))
    => service = "inactive"

\* "That disables/stops the unit and removes the unit file"
\* (docs/auto-run-setup.md:151), without exception.
Gone == report = "removed" /\ cli = "idle" => service = "inactive"

\* Doctor says that no scheduler is installed only when none runs the agent nor
\* will run it (doctor.go:290-314), but for an instance of a deleted Windows task
\* and for a restart that is due after a stop that failed or a start by hand.
NotInstalledIsTrue ==
    SchedulerLine = "notInstalled" =>
        /\ ~(unit /\ enabled)
        /\ os = "linux" /\ service # "inactive" =>
              service = "waiting" /\ since \cap {"stopFailed", "started"} # {}

\* Nobody started the agent, and no stop of it failed, since the last report or
\* successful stop.
Quiet == since \cap {"stopFailed", "started"} = {}

\* The invariant behind the two above: where a command is tells the system and
\* the unit file, there is no service without a session, a unit that is about to
\* be removed is disabled or its stop failed, and on Linux a unit file that is
\* gone, or about to go, leaves no quiet service.
ServiceInv ==
    /\ TypeOK
    /\ ~session => service = "inactive"
    /\ cli \in {"write", "reload", "enable", "disable", "remove", "forget"} => os = "linux"
    /\ cli \in {"create", "delete"} => os = "windows"
    /\ cli \in {"reload", "enable"} => unit
    /\ cli = "forget" \/ (cli = "idle" /\ report = "removed") => ~unit
    /\ cli = "remove" => ~(unit /\ enabled) \/ "stopFailed" \in since
    /\ os = "windows" /\ service = "waiting" => tries < MaxTries
    /\ os = "linux" /\ (~unit \/ cli = "remove") /\ Quiet => service = "inactive"
    /\ GoneForGood

\* An install that succeeded, in a session that lasts, and since a logon on
\* Windows, where the task is not started before; nobody stops the agent.
AtWork ==
    /\ report = "installed" /\ cli = "idle" /\ session /\ ~manual
    /\ "stopped" \notin since
    /\ os = "windows" => "logon" \in since /\ tries < MaxTries

\* Then its agent comes up and stays up, whatever crashes and whoever had the
\* agent lock before (scheduler_linux.go:29-56, scheduler_windows.go:150-195).
AgentStays == <>[]AtWork => <>[](agent # 0)

\* "persisted ... so the installed agent ... honors" the settings of the install
\* (main.go:289-291): the agent that is at work runs with them.
SettingsHonored == <>[]AtWork => <>[](agent = config)
===============================================================================
