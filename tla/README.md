# find-uncommitted in TLA+

`find-uncommitted` tells its user where unfinished work lies: on which of several machines, in which
repository, and in what state. An agent on every machine scans the repositories below a root every few
minutes and publishes what it finds, as one JSON file per machine, through a git repository that all machines
share (the *state repository*). Commands on each machine, and an editor extension, combine the local scan with
the files of the others into advice.

This directory holds models of that program, the TLC configurations that check them on small instances, and
theorems that TLAPS proves for all instances. `PROJECT.json` maps every definition to the lines it stands for
and lists the runs, the mutants that show what each property is sensitive to, and the hazards.

## The system

| Component | State it keeps | Operations | Works with | Correct if |
|---|---|---|---|---|
| State sync (`gitsync.go`, `sync_lock.go`, `agent.go`, `snapshot.go`) | the clone: branch, tracking ref, index, worktree, an unfinished rebase; the remote branch; the sync lock | tick: pull, scan, write, add, commit, push with retries, flush of a backlog; viewer's pull; restart | other machines through the remote, viewers and the smoke publish through the lock | reports reach the remote, none is lost or goes back, the backlog is bounded, a failed publish is undone |
| Scan (`agent.go`, `internal/discover`) | channels, workers, results | walk, feed, check, collect, cancel | called by the tick | a published scan is whole; it ends |
| Repository status (`main.go`, `repo_errors.go`, `origin.go`, `status.go`, `internal/gitexec`) | the status being filled | a dozen git commands in a row | called by scan and by `check`; the user works meanwhile | unfinished work is never missed, nothing is invented |
| Situations, check and matrix (`situations.go`, `aggregate.go`, `origin.go`, `matrix.go`, `check.go`) | none; functions of local status and published files | aggregate, group, detect, collapse | reads what sync brought | advice agrees with the state it rests on, on every machine |
| Agent lock (`agent.go`, `lock_unix.go`, `doctor.go`) | the lock file, its locks, the pid in it | acquire, release, probe | agents, doctor | one agent per machine |
| Sticky configuration (`config.go`, `runmode.go`, `main.go`) | `config.toml` | resolve, save by install, by agent, of the machine id | names the machine in sync and in the agent lock | one identity per machine, settings stay |
| Editor extension (`vscode-extension/src`) | generation, abort controller, outcomes, status bar, notification memory | refresh, check on open, notify, dismiss, configure | runs `check --json` in child processes | shows the latest result, settles, notifies once |
| Check (`check.go`, `check_json.go`, `main.go`) | a report | resolve, examine, validate, pull, load, report | repository status, sync, the extension | clear is earned, every other verdict has its reason |
| Doctor (`doctor.go`) | none | probes and questions | the locks, the clone, the scheduler | does not disturb, its OK is true |
| Agent's loop (`agent.go`, `duration.go`, `config.go`) | ticker, failure streak | tick, record, escalate | decides when sync publishes and what viewers call stale | the healthy are never stale, the failing say so first |
| Schedulers (`scheduler_*.go`, `main.go`) | unit file or task, what is enabled | install, uninstall, status | systemd or the task scheduler, the agent, its configuration | an installed agent stays up, an uninstalled one goes |
| Walk (`internal/discover`) | list of entries to visit | visit, skip, find | the scan | every repository is found once, nothing else is |
| Git processes (`internal/gitexec`) | process groups | run, kill | every git command of the rest | what outlives its parent does no harm |
| Consoles, Windows locks, tables, CSV, print-config, shell hooks, the ownership tool | files and text | | | |

What is hard in it: several processes in one clone, any of which may be killed between two git commands, or
whose git goes on without them; pushes that race, fail, or succeed without saying so; a rebase left half done; a
file whose timestamp is the heartbeat's clock; a deadline anywhere in a scan; a ticker that drops ticks; checks that
read a repository while its user works; two streams and an exit status from which the editor has to guess what
happened; callbacks of superseded refreshes; dialogs answered late; unlinked lock files; installs whose steps fail
one by one; a configuration that is truncated before it is written; a file system that changes under a walk.
`PROJECT.json` lists these hazards with their lines and the properties that watch them; a hazard without a
property says why, and so do those below under *Hazards without a property*.

## Modules

| Module | Models | A state variable is | An action is |
|---|---|---|---|
| `StateSync` | the tick of agents and smoke publishes, viewers, the clones and the remote | the clone (a record), the lock, per process the place in the code and the locals that survive a step | one git command or file operation with every way it may end |
| `SnapshotBoard` | what sync promises: a board with an entry per machine that only its owner replaces and that never goes back in time | the board | a publish |
| `KilledGit` | `StateSync` with git commands that outlive the process that started them, and a leftover `index.lock` | additionally: the surviving command with the clone it began with, the leftover lock | a kill, the end of a surviving command, a command refused |
| `Doctor` | `StateSync` with doctor beside it, on one machine among peers | additionally: doctor's place and answers | one probe or question; a peer's tick as one step |
| `Walk` | `FindGitRepos` over a file system that changes | the files, the entries still to visit, the result | a visit, a change |
| `ScanPool` | `publishAgentSnapshot`, `checkRepoStatuses` | channels, the place of each goroutine | a channel operation, a test of the context, a check |
| `Report` | what `checkRepoStatus` can report of a repository | | |
| `RepoStatus` | `checkRepoStatus` | the repository, the status, the next command | one git command, or a move of the user |
| `CheckMode` | `RepoStatus` within `--json check`, and `outcomeFromRun` of the extension | additionally: what is true beside the repository, the streams, exit status and outcome | a step of the process with every way it may end |
| `Situations` | aggregation, correlation, situations, matrix | the trees of every machine and the published files; advice is an operator on them | work on a tree, a publish, ageing, damage of a file |
| `MorningView` | the scan with `--dirty-only`, as operators on the state of `Situations` | as there | as there |
| `AgentLock` | `acquireAgentLock`, `Release`, doctor's probe | inodes, open files, locks, the path | a system call |
| `Extension` | `extension.ts`, `check.ts`, `tiers.ts`, `notification.ts` | generation, refreshes, status bar, tracker, toasts | a callback of the extension host |
| `StickyConfig` | resolution of settings and the three writers of `config.toml` | the file, per process its settings and its place | a read, a truncation, a write |
| `Cadence` | the agent's loop in discrete time, the streak, `stale_ttl` | the ticker, ages of the snapshots, the streak | time, or a stage of a tick |
| `Service` | install, uninstall and status on Linux and Windows, the managers, doctor's line about them | unit, what is enabled, loaded and running, the command's place | a step of a command, of the manager, of the user |
| `MC...` | instances for TLC | | |
| `StateSyncProofs` | theorems about `StateSync`, its refinement of `SnapshotBoard`, `KilledGit` and `Doctor` | | |
| `ScanPoolProofs` | theorems about `ScanPool` | | |
| `CheckModeProofs` | theorems about `RepoStatus` and `CheckMode` | | |
| `InteractiveProofs` | theorems about `Walk`, `Situations` and `MorningView` | | |
| `AgentLockProofs` | theorems about `AgentLock` | | |
| `ExtensionProofs` | theorems about `Extension` | | |
| `StickyConfigProofs` | theorems about `StickyConfig` | | |
| `AgentProofs` | theorems about `Service` and `Cadence` | | |

`StateSync` does not repeat the scan: its `Scan` action yields what the machine's repositories are then, or fails,
which is what `ScanPool` establishes of a scan (whole or thrown away). `ScanPool` starts from the list that `Walk`
finds, and in it a check yields a verdict, whose truth is the subject of `RepoStatus`. `Situations` takes a publish as
one step, which is what `StateSync` establishes of the board (`BoardSpec`), and a tree in any state that a check can
report (`Reportable` in `Report`), which `RepoStatus` shows its reports to be (`ReportsFit`). In `CheckMode` what other machines report
is a fact, for that is the subject of `Situations`. `Extension` takes an outcome as it comes; how it comes about is
the subject of `CheckMode`. `Cadence` keeps of a tick only whether and when it publishes. In `Service` the agent lock
is taken or not, for which see `AgentLock`.

### Abstractions

* A report is an opaque content and a time. The state repository holds one file per machine, written by it alone,
  so a rebase has no conflicts, and "stalled" stands for whatever else stops one.
* Git's behaviour (autostash, abort, detached HEAD, unborn branches, an empty remote) follows what git 2.39 does in
  a scratch repository; the map marks these operators external.
* In `RepoStatus` a count is zero or not. The user moves work from the working tree to the index, to a commit and
  to the upstream. A file that is added exactly between the reading of the index and that of untracked files is in
  neither list; `Add` names this window and `NothingMissed` excludes it.
* In `RepoStatus` an older git that exits with 1 for a detached HEAD is a repository whose HEAD is detached, and
  `unknown` stands for what any other failure leaves of the branch.
* In `Situations` a branch, a tip, an origin are atoms; an origin also has its redacted form. A check that failed in part
  may have withheld the origin, the tip or the branch of a tree, and an upstream need not be on the origin (`TreeStates`). Advice is a set of
  records (kind, machines, whether it is qualified as stale), not a text. The lists of rows the code passes around are
  sets here: no path occurs twice in one, they are sorted by project, machine and path, and where the code takes the
  first element of such a list, `FirstOf` is the row with the least path.
* In `StickyConfig` the other settings are left out because they are resolved and saved like the state repository.
* In `Doctor` the processes of one machine are modelled; a peer's whole tick is one step (`PeerTick`), which moves the
  remote branch, and so makes this machine's pushes race. A peer's content does not change (`QuietPeers`, a constraint
  of the instance); its reports differ in their times. `FreshFor` is `stale_ttl` in units of the model's clock, rounded down.
* In `CheckMode` a fact is found out when the process first looks at it; until then any value would do.
* In `MorningView` a file published between the scan and the load counts as published before: a view is a function of one state.
* In `Situations` files get damaged on the machines of `Damaged` only; the instance damages the file of the machine
  whose trees are redacted.
* In `Cadence` the unit is a minute, all ages are capped at the first stale one, and failures in the streak count
  modulo the repetition, ten instead of sixty.
* In `Walk` the entries of a directory come in an arbitrary order. An entry is a directory, one to skip, a file, or a `.git` of either kind; symbolic links occur in the way the
  root is spelled, for the walk does not follow them elsewhere.

## Runs

All runs explore all reachable states of their instance.

| Run | Module | Bounds | Shows |
|---|---|---|---|
| `sync_one` | `Doctor` | a machine with an agent, a smoke publish and doctor, and a peer; two contents, two retries, one failure of any kind but a failing `rebase --abort`, clock 0..1 | `IInv` (the invariant of the proofs), `Serialized`, `BacklogBounded`, `NilMeansPublished`, `FreshnessClock`, `OkMeansPublished` |
| `sync_two` | `KilledGit` | two machines with an agent each, one with viewers; one failure (of a pull, a push or a write, a deadline, a crash), one kill that leaves a process or a lock file | the refinement `BoardSpec`, `HistoryKept` |
| `sync_live` | `KilledGit` | two machines with an agent each; two failures (a stalled pull, a failing abort, a crash), one kill that leaves a process; the clock stands | `EventuallyCurrent` |
| `scan` | `ScanPool` | 4 repositories, 2 workers, filtered and not, cancelled at any moment or not | `WholeScan`, `NoSendOnClosed`, `ScanEnds` |
| `walk` | `Walk` | every tree of 4 entries of five sorts, one of them missing or denied, the root spelled with a link or not; one change during the walk | `NothingHidden`, `NothingInvented` |
| `status` | `CheckMode` | every possible repository, two failures, two moves of the user; any installation, state repository and reports | `NothingMissed`, `NoFalseAlarm` (also of the worker of an agent's scan, with its deadline), `ClearIsEarned`, `VerdictJustified` |
| `situations` | `MorningView` | 2 machines with 2 trees each, one of which redacts and may have its file damaged, the first of them with an origin and the second with or without; 2 changes of trees; of the reports that say more than that the check failed only that of the first tree of machine 1 may lack its tip or its origin, and only where both clones have an origin (`FewWithheld`); one thing fails at a time, the check of a tree, an agent or the file of a snapshot (`OneFault`) | `CollisionSurfaced`, `MismatchMutual`, `StaleSaid`, `CalmIsCalm`, `NoTreeMissing`, `SameSituations` |
| `extension` | `Extension` | 2 folders, 3 refreshes, 3 changes, notifications answered in any order | `LatestShown`, `OneAtATime`, `AttentionNotified`, `BarSettles`, `NoRespam` |
| `lock` | `AgentLock` | 3 agents that start, stop and are killed, doctor, 3 files | `OneAgent`, `DoctorRight`; locks belong to open files (`TypeOK`) |
| `config` | `StickyConfig` | 4 starts with any flags and environment, overlapping or not, one failed write or crash | `OneIdentity`, `InstallSticks`, `NoThrowawayId` |
| `service` | `Service` | 2 installs, any number of uninstalls, in a session or without one, of a unit or of none, 4 events (failed steps, crashes, stops, starts, logouts, agents by hand), Linux and Windows, 2 restarts of the task | `GoneForGood`, `NotInstalledIsTrue`, `AgentStays` |
| `cadence` | `Cadence` | the default durations, minute by minute | `WellIsFresh`, `StaleIsSaid` |

Why the bounds are enough to be of interest. In `sync_one` a push loses a race to the peer without any failure, so the
one failure comes on top: a retry fails, the tick ends with a backlog, and the next tick and the smoke publish find
it. Two machines are the least for which a push is rejected. In `sync_two` a surviving pull or push meets a restarted
agent at every point of its tick. A cancelled walk leaves fewer repositories than workers, as many, or more. Four
entries are a root, a directory in it, its `.git` and another entry next to, above or below them. Two failures and two
moves reach every pair of commands of a check. Three refreshes let a superseded refresh be superseded again. Four
starts let an agent, an install and two more agents fill each other's gaps. Four events are a failed step of the
install, a logout, a failed step of the uninstall and an agent by hand. One unit of the clock makes
one heartbeat due.

The type invariants `TypeOK` of the other modules are not among the runs, as they say little that the rest would not
fail of; they hold in the same configurations.

Further configurations answer questions that are not runs of their own. Each ends in a
counterexample and is described under *Where the program and its documents differ*; where one configuration has two
properties, `tlc -continue` shows both.

### Exceptions the properties name

Some promises hold but for a case in which the code does something else. The models contain these cases; the
properties name them, so that whoever changes the code there finds them:

* `NilMeansPublished` is checked while `git rebase --abort` works. After an abort that fails, `rev-list` fails on the
  detached HEAD, which `isNoUpstreamRevListError` (`gitsync.go:258-291`) takes for "nothing to flush": the tick returns
  nil with its commit unpublished. `EventuallyCurrent` holds nevertheless.
* `NilMeansPublished` is not claimed under kills: the pull of a killed publisher may stall in a rebase after the next tick's
  own abort.
* `FreshnessClock` says that a tick that failed leaves no file that is newer than what is committed or than the file it
  found: otherwise the next heartbeat would count from a publish that did not happen. It excludes a restore that
  failed itself, a write cut short, and crashes between the write and the commit.
* `OkMeansPublished` names three `doubts` doctor cannot see: the file it read is put back by a tick that fails after
  it read it, or an abort puts back what was committed; `git status` failed, which passes for clean (`doctor.go:227`); HEAD is detached by an unfinished rebase (see above).
* `ClearIsEarned`: a repository without commits that has an error gives no situation (`situations.go:210`), and evidence
  that a failed command withheld without a word: the origin (`origin.go:18`) or the commit.
* `VerdictJustified`: "local" and "error" may also be due to a failure or a move of the user during the check; a folder is
  passed over also when `rev-parse` fails for any other reason (`check.go:46`), or when words of git about the state
  repository are all that is left on stderr (`check.ts:174-273`).
* `NothingHidden` is about repositories whose `.git` can be listed (`repos.go:64`), the state repository aside.
* `NothingInvented`: a state repository that is given by another spelling than the root, as by its resolved path below a
  root with a symbolic link on its way, is scanned and reported like any other (`repos.go:87`, `repos.go:148-158`).
* `NoTreeMissing`: as `ClearIsEarned`, a repository without commits that has an error.
* `GoneForGood`: a stop that failed is made good only by the next logon (`scheduler_linux.go:67`), a deleted Windows task runs
  on until then, and a user may start a unit the manager still knows.
* `NotInstalledIsTrue`: the instance of a deleted Windows task, and a restart that is due after a stop that failed.
* `AgentStays` is about a session that lasts, an agent nobody stops, and on Windows about the time from the next logon on.
* `StaleIsSaid`: an agent that was restarted lost its streak, and a stuck rebase is not said (`CadenceStuck.cfg`).
* `NothingMissed`: a file added to the index between the reading of the index and that of untracked files is in neither.
  The moves of the user go forward, from the working tree to the upstream; unstaging and soft resets, by which work can
  slip back behind the check, are not among them.
* `NoRespam`: the tracker remembers one fingerprint; an older notification dismissed after a newer one makes it forget
  the newer (`notification.ts:138`).
* `CalmIsCalm` is about projects of which no machine has several trees: the matrix shows the worst of several, and what
  the others have to say is not compared (`matrix.go:88-112`).
* `OneAgent`, `DoctorRight`: as long as no agent that stopped has removed the path of a lock file that another agent has
  open (`raced`; `agent.go:71`; `AgentLockStop.cfg`).
* `DoctorRight` is about agents that have run ever since doctor looked (`throughout`). Doctor lets go of the lock before
  it says what it found (`doctor.go:266-271`), so an agent that starts in between runs while its lock is called free; and
  doctor may have open the file of an agent that stopped, while the next one runs on another. Its probe may also refuse an agent that
  starts, and the pid it reads is that of whoever ran last.
* `StaleSaid`: a tip mismatch names all machines of the project, those with the same tip too, and is qualified by those
  that differ (`situations.go:322-357`).
* `OneAtATime` counts checks that were not aborted; child processes of aborted ones may still be running.
* `OneIdentity`, `InstallSticks`, `NoThrowawayId`: two overlapping starts read and write the file without a lock
  (`config.go:254-270`), and a save that is cut short leaves an empty file that reads as no configuration (`config.go:128-146`).

Deadlock is checked, except in `Extension`, `StickyConfig` and `Service`, whose bounds on refreshes, changes, starts,
installs and events let the system stop; `ScanPool`, `Walk` and `CheckMode` have an explicit step for having ended.

### Where the program and its documents differ

Each of these properties states a sentence of the repository, and ends in a counterexample.

* `KilledGitUnseeded.cfg` (`EventuallyCurrent`): `docs/auto-run-setup.md:36` asks for "A **private** empty Git repository, cloned locally", and `gitsync.go:192-193` says that on "a fresh clone of an empty remote ... that first publish must still commit". It commits; `rebaseAndPush` pulls before it pushes, `git pull` fails as long as the remote has no branch, and the push is never reached (`gitsync.go:351`).
* `SituationsTips.cfg` (`TipMismatchCued`): `openspec/specs/cross-machine-state-sync/spec.md:153-155`: "WHEN local and remote snapshots share a branch name but different short HEAD SHAs THEN Attention includes a tip-mismatch nudge". It is looked for only if no machine of the group is on another branch (`situations.go:322`).
* `AgentLockStop.cfg` (`AlwaysOneAgent`): `agent.go:35`: "agentLock holds an exclusive flock-style lock file for the agent process." `Release` unlocks and then removes the path (`agent.go:71`): one agent locks the file it opened before the removal, another the file it creates after it.
* `DoctorDocs.cfg` (`OkAlwaysMeansPublished`): `doctor.go:224-225`: "unpublishedSnapshotReason returns why the local snapshot may not have reached the remote ..., or \"\" when it has." It also returns "" on the detached HEAD of an unfinished rebase (`doctor.go:234`).
* `DoctorDocs.cfg` (`NoneLeftBehind`): `doctor.go:199-200`: "The agent owns the clone and never leaves any" untracked files. A first write that fails after the file was created leaves one (`gitsync.go:203`, `snapshot.go:215`).
* `CheckModeDocs.cfg` (`NotRelabeled`): `openspec/specs/git-command-timeouts/spec.md:10`: timeouts "MUST NOT be relabeled as invalid-repository ... failures." Every failure of `rev-parse`, a timeout too, is worded "is not inside a git work tree" (`check.go:46`), and the editor passes the folder over (`check.ts:248-253`).
* `CheckModeDocs.cfg` (`KillsAreReported`): The same line: "Timeout and cancellation failures SHALL be reported distinctly". `repoOriginURL` returns "" for any error (`origin.go:18`): a check whose `get-url` is killed finds no other machine and ends with 0.
* `CadenceBrisk.cfg` (`CalmWhenUnwarned`): `config.go:322`: "warnStaleTTLMismatch logs when stale_ttl is likely to mark healthy agents stale." It compares with twice the heartbeat only; a heartbeat, an interval and two tick durations may pass between publishes (`config.go:319`).
* `CadenceStuck.cfg` (`StuckIsSaid`): `agent.go:173-174`: a tick returns "the error that stopped the publish (already logged), or nil when the tick published or had nothing to do." With a rebase git cannot abort, the ticks between heartbeats return nil and end the streak, so its ERROR is never logged (`agent.go:147`).
* `ServiceDocs.cfg` (`SettingsHonored`): `main.go:289-290`: settings are persisted "so the installed agent (which runs bare `agent`) honors --tick-timeout". Where the service runs already, `enable --now` starts nothing, and the agent goes on with the old settings (`scheduler_linux.go:54`).
* `ServiceDocs.cfg` (`Gone`): `docs/auto-run-setup.md:151` of uninstall-scheduler: "That disables/stops the unit and removes the unit file." The error of `disable --now` is discarded (`scheduler_linux.go:67`): the agent may run on.
* `WalkDenied.cfg` (`EveryEntryCounts`): `internal/discover/repos.go:22-23`: "A directory containing a .git entry is treated as a repo root". A `.git` directory that cannot be listed is passed over before its name is looked at (`repos.go:64`).
* `MorningViewErrors.cfg` (`ErrorsKept`): `README.md:309-311`: --dirty-only "keeps the matrix ... limited to: - Git errors". A repository without commits that has an error gives no situation, and its project is hidden (`situations.go:210`).
* `KilledGitDocs.cfg` (`PullSkipped`): `README.md:85`: "if the agent is publishing, the CLI skips `git pull` and uses on-disk snapshots". The pull of a check the editor killed goes on in a process group of its own (`check.ts:107`, `gitexec_unix.go:12`), and a tick begins meanwhile.
* `KilledGitDocs.cfg` (`SelfRecovers`): `gitsync.go:341-342`: "abort before retrying so publishes self-recover instead of sticking." A git command killed at its deadline may leave `index.lock` (`gitexec_unix.go:19`), with which neither the abort nor any later command succeeds.

### Hazards without a property

The list of hazards keeps to those that matter most. Others, which no property covers:

* A refresh in which a check times out reports no cross-machine situation and clears what the user dismissed
  (`notification.ts:118`): the code does so, and the next refresh notifies again.
* Equality of abbreviated tips is by prefix and not transitive (`matrix.go:145`): here a tip stands for its commit whatever
  its length, and git abbreviates all commits of one repository to much the same length.
* The label of a project is taken from its first row, which a machine that redacts its paths may have published
  (`check.go:138`): wording.
* The viewer reads the files after it let go of the sync lock (`snapshot.go:246`), while the agent may write them: a file read
  cut short is a damaged one, as in `Situations`.
* A first publish that fails leaves its file in the index (`gitsync.go:239`); it is published with the next success.
* An empty remote is never pushed to (`KilledGitUnseeded.cfg`), and a second install does not restart the agent
  (`ServiceDocs.cfg`): what the code does.

### Fairness

* Agents (`StateSync`): the loop of an agent goes on and the service manager restarts it (weak fairness of its steps
  and of `Restart`). The sync lock is polled every 50 ms (`sync_lock.go:24`) until the tick's deadline, so a lock that is free again and
  again is taken at some time (strong fairness of `Acquire`): this is an assumption on the poll, not a property of the lock. A viewer's
  pull ends by its timeout. A smoke publish that began goes on. Nothing is assumed of users, viewers that start,
  deadlines or failures; these are finite in number through `MaxFaults` and the clock, as a machine that always fails
  publishes nothing.
* `ScanPool`: Go runs every goroutine that is not blocked.
* `KilledGit` (`KilledFairSpec`): a git command that outlived its parent ends, as network timeouts bound it at the latest.
* `Extension`: a child process ends, by its timeout or abort at the latest, and a timer that is set fires.
* `Service`: the manager starts what it has to start, the agent comes up, and a command that began goes on. Nothing is
  assumed of users.
* `Cadence` (`CadenceFairSpec`), for `StuckIsSaid` only: time passes, and the loop goes on.

## Proofs

The theorems hold for any machines, processes, repositories, contents, bounds and sets of failures, from the named
assumptions of the modules; a theorem that assumes more says so in its `ASSUME` and below. Every one that is about the
reachable states has the same form: an inductive invariant, which is defined beside the properties and which TLC
checked on the small instances first; a lemma for the initial states; a lemma per action, or per kind of action, that
preserves it; and the property as a consequence.

### State sync (`StateSyncProofs`)

* `TypeCorrect`: `TypeOK` is not inductive, as a commit appends the scanned snapshot, which is one only after `Build`.
  `SnapTyped` is the strengthening.
* `LockCorrect`, `SerializedCorrect`: a process inside a tick holds the lock of its machine (`LockHeld`, inductive
  with the types), so two never are inside, nor one while a viewer pulls.
* `BacklogCorrect`, for a remote that has a branch: a clone is at most one commit ahead, plus one for each gate that
  could not count. The invariant is `Tracking` (tracking ref behind remote, remote behind branch) with
  `GatePassed` (between the gate and the commit nothing is ahead, unless rev-list failed). `GatePassed` needs
  `LockHeld`, for nobody else may commit between the gate and the commit; on an empty remote the
  gate is open by design and the bound does not hold.
* `BoardCorrect`: `Spec => BoardSpec`, step by step. A push maps to a publish of its machine, everything else stutters.
  It rests on `HistoryInv`: what a remote has is the beginning of what its clone has (`RemoteIsPrefix`), a branch
  is ordered by time (`BranchOrdered`), and what a tick scanned is no older than what its branch ends with
  (`ScanIsLatest`), so the entry that a push puts in place is the latest ever. `ScanIsLatest` in turn needs `LockHeld`.
* `InvariantCorrect`: `IInv`, the conjunction of all the above, and while `git rebase --abort` cannot fail
  (`"abort" \notin Faulty`) of three statements about a tick under way: `Unstuck` (an unfinished rebase is met only before the
  abort that ends it), `Pushable` (a tick about to push, or about to find nothing to push, has on its branch what it
  scanned) and `Honest` (the file and the autostash claim no more than what is committed or the tick found).
* `NilCorrect`, from `Pushable`, and `FreshnessCorrect`, from `Honest`, both assuming `"abort" \notin Faulty`. With a failing
  abort `NilMeansPublished` is false (see *Exceptions*), so the assumption is not one of convenience.
* `KilledCorrect`, `HistoryKeptCorrect`, `KilledBoardCorrect`: with kills the same refinement. `KilledInv` adds `LateIsOld`:
  what a surviving push would publish is the beginning of what the clone has. The remote accepts it only as a fast-forward,
  so what it adds was committed in its order, and it takes nothing away.
* `DoctorCorrect`, `OkMeansPublishedCorrect`: `DoctorInv` adds `SeenKept`: until git status is asked, the report that doctor read
  is in the file, and then on the branch, unless a doubt was noted. The proof has a case for each question with each
  kind of step that other processes may take between two questions.

### Scan (`ScanPoolProofs`)

`PoolInv` says for every moment where each repository is: it is with one worker, in the channel or in the results, and
in one of these only (`Once`); none is lost while the context lasts (`Accounted`); what a status says is true (`Truthful`);
how far the tick's goroutine is with what is fed and closed (`Progress`); and what holds once the pool is done (`Ordered`,
`Reported`). `WholeScanCorrect` and `NoSendOnClosedCorrect` follow for any number of workers and repositories.
`SortedStatus` is the lemma that sorting keeps the statuses and orders them.

### Walk (`InteractiveProofs`)

`WalkInv`: the file system is a tree; of the entries to visit none is below another (`Frontier`); what is to be reported and is
not yet has something on its way still to visit (`Awaited`); what is reported was visited, and nothing on its way is
visited again (`Visited`); the root was listed (`RootListed`). `NothingHiddenCorrect` needs `Awaited`, `NothingInventedCorrect` needs
`Visited`. The way from an entry to the root is `Above`, a recursive function; what the proofs need of it (`AboveStep`,
`AboveAbove`, `RootAbove`, `WayDown`) is proved with `First`, the least number principle, which is derived from
`NatLessThanWellFounded` and `WFMin`, for the induction theorems proper take an operator as a parameter.

### Situations and the morning view (`InteractiveProofs`)

* `CollisionSurfacedCorrect` and `SameSituationsCorrect` hold of every state, reachable or not: they say
  that two operators agree whatever the files are. They rest on `RowsAre` and `HasRow` (what the aggregated
  rows are, in terms of trees and files) and on `OnlyKept` and `OwnCues` (what the filter of `--dirty-only` keeps, the detection
  finds as before).
* `MismatchMutualCorrect`: which mismatch a machine is told of depends on a condition that is symmetric in the machines
  (`WhenTold`), once both know of each other the same (`Known`).
* `StaleSaidCorrect`: each kind of advice is qualified by other rows, and names others; `GroupRows` says which rows are stale, and
  `PlainNames` and `ShownNames` which machines advice names, from which each kind's case follows. That work of a silent machine is
  never without qualified advice is what `StaleEvidence` adds when no other kind says it.
* `StaleSaidCorrect`, `CalmIsCalmCorrect` and `NoTreeMissingCorrect` use the types of the reachable states, which the lemma
  `SituationsTyped` establishes; the latter two also use `Cued`.

### Repository status and check (`CheckModeProofs`)

`StatusInv`: work that was not come upon yet is still ahead of the check (`Pursued`), the status fits the step of the check
(`Consistent`), and it is exact as long as nothing failed and nobody interfered (`Exact`). A user who moves work from
one place to the next moves it towards commands that are still to come, and this is what `Pursued` records.
`NothingMissedCorrect` and `NoFalseAlarmCorrect` follow. `Composed` says which marks may come together at each step of the check;
`ReportsFitCorrect`, which links the check to `Situations`, follows from it. `CheckInv` adds what the process knows and has not said
(`UnderWay`), and what it has said by exit status and document (`SaidSo`); `ClearIsEarnedCorrect` and `VerdictJustifiedCorrect` then
go through the ways in which the extension reads these.

### The other components

* `AgentLockProofs`. `LocksHeld`: `TypeOK`, whose last conjunct says that who holds a lock has that file open; the
  strengthening `Placed` says where a process has a file open and where it may hold a lock. `OneAgentCorrect`: as long as
  no path of a file in use was removed (`raced`), every agent that has a file open has the one at the path (`OnePath`), so all
  contend for one lock. `DoctorRightCorrect`: besides, while doctor may still find the lock free, an agent that has
  run ever since it looked has the lock of the very file doctor has open (`Probed`), so doctor cannot take it. Afterwards
  both promises fail (`AgentLockStop.cfg`).
* `ExtensionProofs`. `ExtensionInv`: a refresh that checks and was not aborted is the latest one, so only the latest shows
  its outcomes; the fingerprint that is quiet is the one that the tracker remembers, and was notified or dismissed.
  Hence `LatestShownCorrect`, `OneAtATimeCorrect`, `AttentionNotifiedCorrect` and, for steps, `NoRespamCorrect`.
* `StickyConfigProofs`. `StickyInv` has three layers: what holds of one process always (`ProcInv`), of all of them while starts do
  not overlap (`AloneInv`), and when besides no save fails (`FaultlessInv`). Each property excludes what its layer excludes.
* `AgentProofs`, `Service`. `ServiceInv`: where a command is tells the system and the unit file, there is no service without a
  session, a unit about to be removed is disabled unless its stop failed, and on Linux a unit file that is gone, or about to go, leaves no service that nobody meant to run.
* `AgentProofs`, `Cadence`. `CadenceInv` bounds the age of what peers read by `Allowed(n)` when a tick starts after `n` failed ones:
  `Heartbeat - 1 + Period * (n + 1)`, where `Period` is the longer of the interval and the tick's timeout. The theorems assume
  of the durations, which a user may set to anything, that
  they leave room: `Heartbeat + 2 * Period <= StaleTTL + 1` for `WellIsFreshCorrect`, and
  `Heartbeat + (EscalateAfter + 1) * Period <= StaleTTL + 1` for `StaleIsSaidCorrect`. The defaults do (15 + 2 * 2 and 15 + 6 * 2 are less
  than 31). The first is the comparison that `warnStaleTTLMismatch` could make: it warns when `StaleTTL < 2 * Heartbeat`, which
  `CadenceBrisk.cfg` shows to be not enough.

### Only model-checked

Liveness, and with it everything under fairness, which is out of the prover's reach: `EventuallyCurrent`, `ScanEnds`, `BarSettles`
and `AgentStays` in the runs, and `StuckIsSaid` and `SelfRecovers` among the counterexamples. The counterexamples themselves
are TLC's. The inductive invariants are no properties of the runs, except for `IInv`: the theorems state them for all
instances, and the properties of the runs follow from them.

## Not modelled

* Two clones with one machine id; a clock that goes backwards. The first is what the machine id is meant to exclude
  (`StickyConfig`), the second makes a heartbeat late.
* Windows locks, which cannot be removed while open, consoles and process jobs; the Windows task is in `Service`.
* Hashing of redacted origins, prefixes of abbreviated commits (tips are equal or not), projects without an origin
  across redaction, which the program documents as uncorrelated; labels of projects.
* Wording, order and layout of what is printed, the priority among nudges; parsing of durations; usage, flag syntax and
  print-config; doctor's lines that only print a setting; the extension's tooltips and its search for the binary.
* The shell hooks and the ownership tool in `examples` and `fix-ownership-tool`, which keep no state.

## Plan

Done, in this order: `StateSync` with its abstract board and first theorems; `ScanPool`; `RepoStatus`; `Extension`;
`Situations`; `AgentLock` with its theorems; `StickyConfig`; `Doctor`; `CheckMode`; `Cadence`; `Service`; `Walk`;
`MorningView`; `KilledGit`.

The theorems followed in much the same order; of the invariants, action properties and the refinement that the runs
check, each is now stated by one.

Next:

1. Sharper statements where a theorem keeps an exception of the program: what of `NilMeansPublished` survives a failing
   abort, and of `OneAgent` a removed path, once the code says which behaviour is meant.
2. `BoardSpec` for the board that `Situations` reads, in place of the remark that a publish there is one step.
3. A promise of the scan that is as abstract as `SnapshotBoard` and implemented by `Walk` and `ScanPool` together.
4. Doctor's other lines, of which only that about the last publish and that about the agent lock are modelled.
