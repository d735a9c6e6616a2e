# A verification of nixos-homeserver

TLA+ specifications of the programs of this repository, model-checked with TLC
on small instances and, for the properties that matter most, proved with TLAPS
for every value of the constants.

The repository describes a home server ("the nuc") in NixOS, and most of it is
settings of other people's programs. What it has of its own are the scripts and
units around them: shell and Python programs that snapshot, roll back, deploy,
watch, post and reboot, run by systemd timers, by comin (which deploys `main`)
and by operators, often at the same time and with power cuts in between. Those
are what is modelled here.

## Contents

1. [Inventory](#inventory): the parts of the system
2. [Plan](#plan): the modules, in the order they are written
3. [Stack data](#stack-data): the snapshots and rollbacks of a Compose stack
4. [Tenant runner](#tenant-runner): a tenant's deploys and their reports
5. [Notifications](#notifications): the crash watcher, the failure notifier, the
   online marker, the alert relay, the deploy hooks and the reboot window
6. [Scripts](#scripts): the dependency updates, the compose checks, the issues
7. [Services](#services): the Minecraft whitelist, the router's address, the cap of
   the query log
8. [Findings](#findings): where the code and what is said of it differ
9. [What is not modelled](#what-is-not-modelled)

To check it all, with `tlc` and `tlapm` on the path:

    tlc -config stack_faults.cfg MCStackData     # and the other .cfg files
    tlapm StackDataProofs.tla
    tlapm TenantRunnerProofs.tla
    tlapm NotificationsProofs.tla
    tlapm DeployHooksProofs.tla
    tlapm FlakeUpdateProofs.tla
    tlapm ComposeProofs.tla
    tlapm ScriptsProofs.tla
    tlapm ServicesProofs.tla

## Inventory

Paths are under `src/modules/` unless they say otherwise.

| Component | Code | State it keeps | Operations |
|---|---|---|---|
| stack units | `containers/compose-stack.nix`, `stack-data.nix`, `docker.nix` | unit states, `/etc/stacks/STACK`, `/srv/data/STACK`, the containers | start, reload, stop; make the data subvolume; a deploy's reload |
| stack snapshots | `containers/stack-snapshot.sh`, `stack-lib.sh` | `/.snapshots/stacks/STACK/NAME`, `NAME.config` | nightly and manual run; hooks; pruning |
| stack rollback | `containers/stack-rollback.sh` | the same, and the data directory | check, stop, keep, delete, swap, start |
| stack crash watcher | `containers/stack-watch.sh` | per container: the deaths, the last post and ping | follow `docker events`, post |
| failure notifier | `base/notify.nix` | per unit: the last post and the failures held back; the `running` marker | OnFailure post, boot and shutdown posts, comin's hook |
| deploy announcements | `base/announce.sh`, `announce-comin.sh`, `announce.nix` | a marker for each announced build | comin's build and deploy hooks, reboot warning, boot post |
| comin and the reboot window | `base/comin.nix`, `reboot-window.nix` | the booted and the current system | the weekly check, the wait for comin, the pre-reboot commands |
| alert relay | `observability/alert-relay.py`, `alerting.nix` | none; one thread for each request | post the alerts of a request, answer 200 or 500 |
| metrics and rules | `observability/*.nix` | Prometheus's | settings and PromQL texts |
| DNS query log | `dns/querylog-cap.sql`, `watch.sql` | the table `log_entries` | the cap's trim, the watch's metrics |
| DNS servers | `dns/default.nix`, `unbound.nix`, `lists.nix` | none of their own | settings |
| tenant deploys | `tenants/deploy.sh`, `runner.nix` | `/var/lib/tenant-runner/*`, `/run/tenant-runner/*`, the stack | fetch, ask CI, decrypt, bring up, record |
| tenant failure reports | `tenants/deploy-failed.sh` | `notified` | read the failed run, post once, mark |
| tenant keys and job metrics | `tenants/runner.nix`, `state.nix` | keys, a text file | made once; a filter |
| tenant network | `tenants/network.nix` | nftables sets | the port rules, the router's address |
| tenant VMs | `tenants/default.nix`, `guest-base.nix` | none of their own | settings |
| dependency updates | `src/scripts/flake_update.py`, the update workflow | `flake.lock`, a pull request | update, check, carry |
| compose checks | `src/scripts/check_compose.py` | none | a function of a compose file |
| Minecraft whitelist | `src/stacks/minecraft/whitelist-sync.sh` | the server's whitelist | read, add, remove |
| issue filing | `src/scripts/file_issues.py`, `tickets.py` | GitHub issues | a one-shot run |

How they interact, and what is hard about it:

- **Stack data.** Four kinds of program change one stack's data: the stack unit
  (started and reloaded by systemd, deploys and operators), the data unit, the
  snapshot runs and the rollbacks. They share the lock
  `/run/lock/stack-STACK.lock`, which `up`, the snapshots and the rollback take
  and which `down`, the data unit, a deploy's switch of `/etc` and Docker's
  restarts do not. Every step may fail, be interrupted, or be cut short by a
  power loss. *Correct* means: the data a rollback replaces is never lost;
  nothing is swapped under running containers; a snapshot is not of a server in
  the middle of its writes; saving, once switched off, comes back on; the stack
  that was stopped for a rollback is started again.
- **Tenant runner.** A timer runs the deploy, whose failure starts the report.
  They share files in `/run`, lost at a reboot, and in `/var`, kept. Runs and
  reports overlap when a run is started by hand; the tenant's `main` moves, moves
  back, and its CI is run again under a run that has read it. *Correct* means:
  only commits whose CI passed are started; what is shown as deployed runs; the
  tenant hears of its own failures, of all of them that last, and once; a wait
  for CI ends.
- **Watching and posting** (crash watcher, notifier, online marker, relay): windows,
  counters and markers in files, written around posts that may fail, by programs
  that are stopped or cut, with a clock that may be set back. *Correct* means: a
  crash loop posts in every window, and pings at three; a failure is held back only
  after a post that arrived; a boot after a power cut says so, and no other does.
- **Deploys and reboots** (comin, announcements, the reboot window): a check, then
  a wait, then a reboot, with comin free to begin a deploy in between; hooks in
  two processes paired by a marker file. *Correct* means: an announced update ends
  in an announcement, and no reboot in the middle of a switch.
- **DNS query log**: a trim by an estimate, never below 1000 rows, while rows come
  in. *Correct* means: it ends under the cap and never empties the log.
- **Minecraft whitelist**: a run that reads two lists and then changes one, name by
  name, while both may change and the server or Mojang may not answer. *Correct*
  means: a unit that is active has applied the list, nobody on the list is kicked, and
  what failed is made good.
- **Tenant network**: a set that reloads of the ruleset empty, filled from a saved file
  and then replaced in two transactions. *Correct* means: it is not left empty unless
  something says so, and a lasting outage posts while a short one does not.
- **Pure functions** (`check_compose.py`, `lock_problems` in `flake_update.py`):
  *correct* against a reference definition, for any input.

The main hazards of the code, at their lines, with the properties that cover them or
the reason why none does, are in `PROJECT.json` under `hazards`.

## Plan

All six are done.

1. **Stack data**: `StackState`, `StackUnit`, `StackSnapshot`, `StackRollback`,
   composed by `StackData`; the abstract `StackVault`; `StackDataProofs`.
2. **Tenant runner**: `TenantDeploy`, `TenantReport`, composed by `TenantRunner`;
   `TenantRunnerProofs`.
3. **Notifications**: `PostWindow`, `CrashWatch`, `FailureNotify`, `OnlineMarker`,
   `AlertRelay`, for TLC in `MCNotifications`; `NotificationsProofs`.
4. **Deploys and reboots**: `DeployHooks`, in the same TLC module;
   `DeployHooksProofs`.
5. **Scripts**: `FlakeLock`, `GitHubBranches`, `FlakeUpdate`, `UpdateReport`,
   `ComposeCheck`, `IssueFiling`, for TLC in `MCScripts`; `FlakeUpdateProofs`,
   `ComposeProofs`, `ScriptsProofs`.
6. **Services**: `Whitelist`, `RouterWan`, `QueryLog`, for TLC in `MCServices`;
   `ServicesProofs`.

Of what the passing runs check, every invariant, every action property and the
refinement are proved too. Left to TLC are the liveness properties: `ComesBack`, `FailureIsPosted`, `CommitsSettle`,
`EndsApplied`, `SetComesBack`, `EndsUnderCap`. Some properties of one promise are
invariants of a run as one conjunction (`CrashLoopPosts`, `HeldRight`, `BootsTold`,
`SnapshotsSound`, `ComesBack`, `CommitsSettle`, `ReportIsRight`, `IssuesFiled`).

## Stack data

### Modules

| Module | Models |
|---|---|
| `StackState` | the lock, the data directory, the snapshots and saved configurations, `/etc/stacks/STACK`, and the clock the names come from |
| `StackUnit` | `stack-STACK.service`, `stack-STACK-data.service`, Docker with its restart policy, deploys, the operator's `systemctl start` and `stop` |
| `StackSnapshot` | `stack-snapshot STACK [manual]`, each run with its place in the script |
| `StackRollback` | `stack-rollback STACK SNAPSHOT`, each with its place in the script |
| `StackData` | all of it together, the clock and power losses; the properties |
| `StackVault` | the abstract specification: a live world and a vault of kept ones |
| `MCStackData` | the sets of events TLC is run with |
| `StackDataProofs` | the theorems |

A script is a process with a `pc`; a step is one command of it that reads or
changes something another process can see, together with what follows it up to
the next such command. `set -e`, the EXIT trap and the signal traps are steps of
their own (`SnapshotTrap`, `SnapshotExit`, `SnapshotSignal`, `SnapshotKill`,
`RollbackSignal`), since other processes run between them.

Data is abstracted to a *world*: a number, 0 for an empty directory, that grows
with every write of the containers. A snapshot holds a world, whether it was
taken of a running server with saving on (`torn`). Names are a kind and a time in
seconds, so two made in the same second are the same name, as in
the code. `dir.kind` tells an absent directory, a plain one (Docker makes one for
a bind mount whose source is missing) and a subvolume apart, as the data unit
does.

What may go wrong is a set of *events* (`AllEvents` in `StackState`): a run of TLC
allows some of them. The set is a constant, so the theorems hold for all of it.

### Runs

| Run | Allows | Shows |
|---|---|---|
| `stack_faults` | power loss, deploys that reload the data unit, signals, kills, failing commands and hooks | `ReplacedDataKept`, `NeverSwapUnderContainers`, `SavingOffAccountedFor` |
| `stack_vault` | failing commands, lock timeouts | `ImplementsVault`: refinement of `StackVault` |
| `stack_snapshots` | operator stops, deploys, failing hooks, lock timeouts | `SnapshotsSound`: `NoTornSnapshot`, `WholeSnapshots` |
| `stack_comes_back` | deploys, crashing containers; fairness | `ComesBack`: `StackComesBack`, `SavingComesBack` |
| `chosen_pruned` | as little as it needs | a [finding](#findings) |

Bounds. One nightly run and one rollback or manual run: the lock makes a third
process wait, and the races are of two (the proofs have no such bound). `Keep = 1`
so that a second nightly run prunes; in the code it is 3. `MaxClock` is 0 or 1: at
0 all names of a kind are the same, which is the collision the code guards
against; at 1 there are two of them, so pruning has something to prune. `MaxWorld
= 1` tells written data from an empty directory. A process starts again when it
has ended, so sequences of runs are covered, not one of each.

Each is exhaustive over its instance. `CHECK_DEADLOCK` is on in all of them: a
deploy, an operator or a crash can always come.

Fairness (`FairSpec`). systemd runs its jobs, Docker restarts containers and a
script that can take a step takes it: weak fairness of each. Strong fairness of
taking the lock: `flock` waiters are woken in the order they came, so a waiter
gets a lock that is free again and again. There is no fairness of an operator, a
deploy, a timer or a failure. `stack_comes_back` has no failing commands: with
them the code gives no such promise (it prints how to recover instead).

### Proofs

`StackDataProofs` assumes what the modules assume of their constants: the
processes differ from each other, the sentinels from the values. All events may
happen, with any number of runs, rollbacks, names and writes.

- `TypeCorrect`: `Spec => []TypeOK`.
- `RollbackInvariant`: the inductive invariant `RollbackInv`, which is `TypeOK` and
  - `LockHeld`: a process at a step past its `flock` is `holder`. It is what makes
    the rest local: a step of another process either lacks the lock, so cannot be
    past it, or does not touch what the lock protects;
  - `NeverSwapUnderContainers`: only the stack unit makes containers, only past
    its lock; Docker only restarts those that exist. The rollback looks after
    taking the lock, so none appear until it lets go;
  - `DataIsKept`: between the keep and the delete, the snapshot under the rollback's
    own name holds the world that is live. It needs the one above (no container
    writes) and that nobody else makes or deletes a snapshot of that name;
  - `ReplacedDataKept`, which by itself is not inductive: the delete adds an entry,
    and only `DataIsKept` says that it is right.
- `ReplacedDataIsKept`, `NeverSwapsUnderContainers`: its parts, as theorems about
  `Spec`. Power losses are in: a boot forgets the lock and the scripts, not the
  disk.
- `SavingIsAccountedFor`: with `LockHeld` and `HookOwed` (a run at its pre-command
  owes the post-command).
- `VaultIsImplemented`: `Spec => ImplementsVault`, the refinement of `StackVault`, for
  any number of names and of snapshots that are kept. `VaultInv` is `RollbackInv` with
  `NoNewerWorld`, without which a write of the containers could bring back a world that
  the vault holds. A step of a rollback is one of four (`RollbackMoves`); a step of the
  pruning deletes while there are more than `Keep` automatic snapshots, and the vault
  counts those. The theorem allows power losses and every other event, which
  `stack_vault` does not.
- `NoSnapshotIsTorn`: while no container dies and no power is lost (`NoRestarts`),
  `[]NoTornSnapshot`, with every other event. `QuietInv` says that a run about to take
  its snapshot either found no container, and none can come while it has the lock, or has
  switched saving off. A container that dies is the finding about `crash` below; after
  a power cut Docker restarts what was up, with the same effect.
- `SnapshotsAreWhole`: while no command but a hook fails and no script is cut short
  (`NoCuts`), `[]WholeSnapshots`. `HalvesKnown`: a snapshot without its configuration, or
  the other way round, is the one that a process with the lock is about to finish.
- `SnapshotsAreSound`: both, under both hypotheses, which are what `stack_snapshots`
  allows and more.

Each action has a lemma of what it does to the variables an invariant reads
(`UnitsOnLock`, `SnapshotOnData`, ...), so that the step from `Next` is short.

Only model-checked: liveness.

### What is abstracted

The full disk is a failing command. Docker's containers are one: `up`,
`restarting` or `none`; a stack of which only some run is not told apart. A start
that fails after its `up` may or may not run ExecStop, since that depends on
where it fails. `btrfs subvolume delete` without `--commit` is atomic: deleted
data does not come back at a power loss (it would be data more, not less). The
timers, the nightly order of stacks and the output are left out.

## Tenant runner

### Modules

| Module | Models |
|---|---|
| `TenantDeploy` | `deploy.sh` from the timer to `stage done`, the unit around it, and its files |
| `TenantReport` | `deploy-failed.sh`, the unit's OnFailure, and its mark |
| `TenantRunner` | both with the tenant's repository on GitHub, the timer, the clock of `$state/pending`, and reboots; the properties |
| `MCTenantRunner` | the sets of events TLC is run with |
| `TenantRunnerProofs` | the theorems |

Commits are numbers in the order they are pushed; `main` names one of them. CI is
a state of a commit: no runs yet, running, success or failure; the code's
question (`gh api`, `jq`) folds "none yet" and "some not completed" into pending,
and so does `Waiting`. `stack` is what the containers run: a commit, or `Mixed`
when an `up` failed half-way. `/var` files (`deployed`, `pending`, `metrics`,
`notified`) survive a reboot; `/run` files (`stage`, `commit`, `webhook`) do not.
`log` stands for the line of this run's journal the report looks for.

Histories (`outcome`, `passed`, `unchecked`, `posted`, `repeated`, `misposted`)
record what the properties compare; no guard reads them.

`Fails(s)` is the whole EXIT trap: the stage, the metrics with the platform's or
the tenant's fault, and the end of the process. `Term` is the TERM trap at any
step; between two commands of one step it would read the same files as at one of
its ends.

### Runs

| Run | Allows | Shows |
|---|---|---|
| `tenant_safe` | pushes, runs by hand, a reboot, TERMs, missing credentials, failing platform and stack, lost answers | `OnlyPassedRuns`, `DeployedIsLive`, `PostedOnce` |
| `tenant_live` | pushes, `main` moved back, CI run again, a reboot, missing credentials, failing posts; fairness | `OnlyTenantFailuresPosted`, `FailureIsPosted`, `CommitsSettle`: `PendingEnds`, `PassedIsDeployed` |
| `up_posted`, `undo_not_deployed` | as little as each needs | the [findings](#findings) |

Bounds. Two commits: a good one and the next, which is what every comparison in
the scripts is between. One reboot, since files are either lost or kept at it.
`PendingLimit = 0`: a commit waits while less than one tick old, and the tick is
free to come at any time, so a wait is of any number of runs.

Fairness (`FairSpec`). The timer, the run, the report and the clock are systemd's
and the kernel's: weak fairness. For each commit and stage, strong fairness of a
post that arrives: a webhook that is tried again and again answers in the end;
without that nothing could be promised of a report. Nothing makes the tenant
push, GitHub finish a run, or a run succeed; `PassedIsDeployed` says what follows
*if* runs end well again and again.

### Proofs

`TenantRunnerProofs`, for any set of commits, any number of reboots and any limit:

- `TenantTypeCorrect`: `TypeOK`, with `CommitKnown` (past the fetch, `$commit` is a
  commit; a stage of the tenant's comes with one).
- `ProductionGate`: `Spec => []OnlyPassedRuns`, **with every event allowed**. The
  invariant `GateInv`: a commit whose CI is a success has passed; a run past its
  question has a commit that has passed. That `main` moves, or CI runs again,
  after the question does not change what the run brings up.
- `PostsAreTheTenants`: without TERMs and runs by hand, `[]OnlyTenantFailuresPosted`.
  `PostInv` follows the report from the failed run through the files it reads:
  its log names the commit only if this run wrote the stage. The two events
  excluded are the two findings below.
- `WhatIsShownRuns`: while `main` is never moved back, `[]DeployedIsLive`. `LiveInv`:
  pushed commits come before the others (`Forward`), and when what is recorded as
  deployed is of this boot then it runs, or a later commit has been fetched, to
  which `main` does not return from (`Overtakes`). `undo_not_deployed` shows that
  the hypothesis is needed.

- `FailuresArePostedOnce`: while `main` is never moved back and no CI is run again,
  `[]PostedOnce`, with TERMs, runs by hand, reboots and posts whose answer is lost.
  `$state/notified` holds one key, so this rests on an order of them: a commit fails its CI
  before it fails to come up, and a later commit fails after an earlier one (`Upto`).
  `OnceInv` says that nothing that may still fail is before what was posted or marked
  (`Behind`), and that the mark is the last of what was posted, but for the post that is
  being marked. Both events excluded break that order; see the finding on `notified` below.

Only model-checked: liveness.

### What is abstracted

Every commit has a `FAILURE_WEBHOOK` among its secrets. `docker image prune`, the
last-success time and the message's wording are left out. An OnFailure that comes
while the report runs merges with it, as systemd does.

## Notifications

### Modules

| Module | Models |
|---|---|
| `PostWindow` | the clock, and the test of a window that both posters use |
| `CrashWatch` | `stack-watch.sh`: the stream of deaths, the loop, its three files, the posts; the stack, Docker and power cuts around it |
| `FailureNotify` | `notify-failure@UNIT`: its file, what of it is on the disk, the post |
| `OnlineMarker` | `notify-online`: the marker, as programs and as the disk have it, the boot and shutdown messages |
| `AlertRelay` | `alert-relay.py`: its threads, posts and replies; Alertmanager's groups, flushes, retries and timeouts |
| `DeployHooks` | `announce-comin.sh`, comin's two hooks; comin as they see it; the weekly reboot window |
| `MCNotifications` | the five for TLC |
| `NotificationsProofs`, `DeployHooksProofs` | the theorems, those of the first four and those of `DeployHooks` |

The first two share the clock, and none of them anything else, so `MCNotifications`
gives each behaviour to one of them (`poster`): the states TLC visits are the sum of
the five, not their product. A container and a unit have files of their own, so one
of each is modelled.

`CrashWatch` follows the code's order: the time is taken and the death counted
(`WatchCount`), then the branch is chosen and its first mark written
(`WatchDecide`), for a ping the second mark (`WatchMark`), and only then the post
(`WatchPost`). A stop of the stack or a power cut can come between any two; a cut
may also empty the files. `counted` is the history of all deaths counted, and `recent`
the places in it of those that the file still has. A death lost to a stop between mark and
post is in `cutShort`: the mark then silences the container with nothing posted,
which the properties allow and the README says here. In `FailureNotify` the mark
comes after the post instead, so what is lost there is a save: `stored` is what the
disk would give back.

Whether a post arrives does not change the watcher, so `posts` are those tried. In
the notifier it does, and a post that failed for the script may have arrived.

In `AlertRelay` time is in minutes and passes only when every thread and every flush
has done what is due in this one (`Minute`). A request is a thread with the alert it
is at. Alertmanager, external, is what `alerting.nix` makes of it: one flush of a
group per `group_interval`, requests repeated within it until one is answered with
200, each given up after the receiver's timeout while its thread goes on. `agreed`
holds from an answer of 200, to a request that had no older one of its group beside
it, to the next request. `group_by = ["..."]` gives each alert a group of its own; a
group of two is checked too, since the code has the loop.

In `DeployHooks` a *system* is what a configuration builds to, a *generation* one
build of comin's. comin builds and deploys in threads of their own: a newer build
replaces the one that waits (`queued`), a deploy may be skipped, fail before or
while it activates, and be asked for again. The hooks' reads and writes are steps
between those. What runs may also change by hand or by a boot of an older entry;
`overtaken` are the generations compared with a system that no longer runs.

### Runs

| Run | Shows |
|---|---|
| `posts_safe` | of the watcher `NeverSilent` and `CrashLoopPosts` (`ThreePing`, `PostsSpaced`); of the notifier `HeldRight` (`HeldOnlyAfterPost`, `CountIsAFloor`); of the marker `BootsTold` (`NoFalseAlarm`, `CutIsTold`); of the relay `AnsweredInTime`, `DiscordAgrees`; of the deploys `OutcomesPaired`, `UpdatesAnnounced`, `RebootWaits` |

Bounds. A cooldown of two ticks on a clock of three: times inside the window, at
its edge and past it. Four deaths: the plain post, the third that pings, and one
more in the window of either. The clock is set back once, to any earlier time, and
the watcher's power is cut once; the notifier's and the marker's at any time and any number of times. No property is about progress: a post takes as long as it takes.

Two groups of alerts, of two and of one, with a post of one minute and a deadline of
three, the least that fits (2 * 1 < 3 < 4); three turns of the alerts; two threads,
so that one attempt is still running in the next. Two systems, one with another
kernel; three builds, so that one is replaced while another deploys; two questions
to comin; one incident (a power cut, a restart of comin, a deploy by hand, a deploy
asked for again): the hooks' state in `/run` is lost or kept.

Nothing here is fair. `EarlyShutdown` is FALSE in the run: a shutdown before
`notify-online` is active is what `NoFalseAlarm` does not survive (see
[below](#findings)).

### Proofs

`NotificationsProofs`, for any cooldown and bounds:

- `NeverSilentAlways`: the invariant `WatchInv` has `MarkIsOfAPost` (the mark is the
  time of a post sent, being sent, or cut short) and `InHand` (the death in hand is
  the last counted). A death is put down without a post only inside the mark's
  window, and the mark is not ahead of the clock, so a post covers it; setting the
  clock back or emptying the files changes nothing of that.
- `CrashLoopsPost`: `[]CrashLoopPosts`, with any number of stops of the stack or of Docker,
  before the clock is set back or the power is cut (which the property itself says).
  `LoopInv` has `OrderInv` (what is counted and marked is in the order of the clock, and no
  death in the window of the last has been dropped from the file), `PingInv` (a third death
  meets a mark of a ping that was sent, is being sent or was cut short) and `SpaceInv` (no
  post is after its mark, so one that is allowed is far enough from all).
- `HeldIsRight`, of `HeldBackOnlyAfterPost` and `CountsAFloor`: `NotifyInv` says that the times in the
  file and on the disk are of posts that arrived, and that what is held back, with
  the failure being handled, is no more than the failures since.
- `CutsAreTold`: `MarkerInv` follows a cut boot's marker over the next boot to the
  script's `$unclean`. It holds with `EarlyShutdown` too.
- `NoFalseAlarms`: `ASSUME EarlyShutdown = FALSE`; `CleanInv` follows the removed
  marker the same way. `BootsAreTold` is both.

`NotificationsProofs` also has the relay's, for any groups of any size, threads, and limits with `Alerts[g] *
SendTimeout < Deadline < Interval`, which is what the code's comment claims of them:

- `FirstIsAnswered`: `FlushInv` says that Alertmanager awaits one answer per group
  (`AwaitedInv`), and that a first request is as old as its flush and at most as old
  as its posts may have taken (`FirstInv`), so neither of its ends has come.
- `AnswersAreTrue`: `AloneInv`, no other thread of the group beside an awaited
  request that began alone, so what it has posted is still what is shown; and
  `AgreedInv`, no thread of the group at all after its answer.
- `RelayTypeCorrect`.

`DeployHooksProofs`, for any systems, builds, incidents and tries:

- `OutcomesArePaired`: `HookInv` has `FreshInv` (what is being built was never
  announced or deployed: a build hook cannot run for a deploy under way),
  `MarkersInv` (a marker means no outcome yet), `BegunInv` (an announced update has
  its marker, or its outcome, or a hook in hand or killed) and `PostInv`.
- `UpdatesAreAnnounced`: `AnnouncedInv` has `RootInv` (the gcroot is of the build in
  hand when the hook reads it), `ComparedInv` (nothing is deployed that was not
  compared) and `ToldInv` (what waits or is being switched to was announced, or
  overtaken, or is what runs).
- `RebootsWait`: inductive with the type invariant. `late`, `asked = Tries` and
  `blind` are its three exceptions: the deploy began when the window had asked, the
  window waited as long as it does, comin did not answer.
- `DeployTypeCorrect`.

The other posters' type invariants are conjuncts of their inductive invariants, so
the run does not check them again. Nothing here is only model-checked.

### What is abstracted

The log lines in a post, its title but for the counts, and the sender's cutting and
escaping. Deaths that no stream reports, or that are read while the unit is not
active, are in the model and in no property: the code does not promise them. A full
disk, which would end the watcher's loop or the notifier's script, is left out. The
hook that posts a failed deployment keeps no state. In the relay: malformed bodies
(400), `repeat_interval`, the wording. In the deploys: the text of an announcement
and whether it arrived, and the pre-reboot commands' own waits; a build that fails
runs a hook that ends at once, which is the end of the build here.

## Scripts

### Modules

| Module | Models |
|---|---|
| `FlakeLock` | `flake.lock` as JSON and what `flake_update.py` says of two of them: `direct_inputs`, the moved nodes, `lock_problems`, `carry`; what nix writes (`Pin`); the references `OnlyPinsMoved` and `OwnKept` |
| `GitHubBranches` | the branches the inputs follow, with GitHub's activity log a page long; `on_branch`, `cooled_head` |
| `FlakeUpdate` | the two jobs of `update-flake-lock.yml` with `update` and `check`, the pull request, its reviewer, `main` |
| `UpdateReport` | the builds, vulnix's scans with their attempts, the comparison, the job's limit |
| `ComposeCheck` | `check_compose.py`, against what the files mean to Docker |
| `IssueFiling` | `file_issues.py`: the check, the requests, what others do on GitHub meanwhile |
| `MCFlakeUpdate`, `MCScripts` | the instances for TLC; a behaviour is of one script |
| `FlakeUpdateProofs` | the theorems about `FlakeLock`, `GitHubBranches`, `FlakeUpdate` and `UpdateReport` |
| `ComposeProofs` | the theorems about `ComposeCheck` |
| `ScriptsProofs` | the theorems about `IssueFiling`, and the types of all |

`FlakeUpdate` takes the workflow's own view of trust: the first job runs code of the
new inputs, so it may hand over any lock there is (`UpdateUntrusted`, from the set
`Handed`), and the second may rely only on what GitHub tells it. A node's lookups are
one step; the branches move between the steps, by pushes, forced pushes, deletions
and new branches of the same name. `held[i][d]` is history: what the branch held at
the end of day `d`, which is what a cooldown is about. Time is in days. The tree's
hash and date stand for the commit, the inputs are called as their nodes, and the
order they are taken in is any. The merge is git's, of `flake.lock` by nodes.

`nix flake update` and `nix flake lock --override-input` (flake_update.py:246, :270)
write more than an input's pin: `Pin` also writes what the input brings at that commit
(`Own`), that is the inputs its node has, and the nodes its own lock puts below it. Those
of the commit before go (`Below`), others come or stay and are pinned elsewhere. The
nodes below two inputs are different ones, as nix numbers the second of a name. So an
honest update may well be refused, as docs/runbooks/updates.md:106-111 says: for its form
when an input gained or lost one, and in `CheckInput` when an input of an input is not yet
cooled, a cooldown that `update` does not apply to those. In both cases the run ends, and
nixpkgs stays behind too.

`UpdateReport` counts half minutes, with 600 seconds for a scan, 30 and 60 for the
pauses and 60 minutes for the job. `ComposeCheck` takes a text for a sequence of
tokens, cut by `Until`, `After`, `BeforeLast` and `AfterLast` as Python's `partition` and
`split` do, and says on its own what such a text means to Docker (`Conforms`); a checked
file then is a step of the loop in `main`. What may be in a file is `IsPort` and
`IsVolume`. `Normal` walks a path as `os.path.normpath` does and takes the last name back
at each `..`; where the path leads is `Real`, which has no walk: the names after which no
stretch of the path has more steps up than names. `IssueFiling` has one run at a time, which may end at
any request, before or after GitHub has done what it asks; a body is a version, the
plan numbers in it and the links in it. The list is read in pages, newest first as GitHub
gives it (the code asks for no order), each as it is when it is asked
for (`Rank`, `Page`): an issue opened between two pages pushes the others down.

### Runs

`scripts_safe`, with `TypeOK` of all four:

| Property | Says |
|---|---|
| `CheckedMoves` | the lock in the pull request is its base's with inputs pinned to descendants that their branch held a cooldown before |
| `TableIsOfTheLock` | the table the reviewer reads is of that lock |
| `HonestLockAccepted` | a lock that nix wrote is refused for its form exactly when an input that was updated has gained or lost an input, or has one wired otherwise or from another place |
| `MergesMoveForward` | no merge moves an input back |
| `MonthlyNotDropped` | a run that replaces a pull request moves what it moved |
| `ReportIsRight` | `InTime`: slow builds and an outage of vulnix's source leave time for the report; `ComparesWhatIs`: no error passes for a system without CVEs |
| `ExitTells` | the check fails exactly if some file publishes or mounts what its stack does not declare |
| `IssuesFiled` (`NoDuplicates`, `NumbersRight`, `DoneMeansFiled`), `EditsKept` | the issues, after any number of runs that ended anywhere |

Bounds. The update: nixpkgs (no cooldown), comin with three commits and one that is not
on its branch, and flake-compat with two, an input of comin's as in the repository's
lock. One of comin's commits moves flake-compat, another gains an input, so that of the
honest updates some are refused for their form, some for flake-compat's cooldown, and some
are merged. A cooldown of one day of three; two
pushes and a log of two entries, so that the entry that is needed may have left the
page; `Handed` has a lock that nix would not write and is let through, and locks with every
kind of change that `lock_problems` looks for.
The report: all systems of two packages and two CVEs; builds of 9 minutes, the most
for which two builds and all attempts fit (2 * 18 + 4 * 20 + 3 = 119 of 120 half
minutes). The compose check: each form of a port and of a volume by itself, alone and
with a second file before or after it, under each manifest of one or two stacks. The
issues: two tickets that name each other, or of one title; two runs, one edit, pages
of two. `CHECK_DEADLOCK FALSE`: the scripts end. No fairness: the properties are of
safety, and a job that fails is run again next week.

### Proofs

`FlakeUpdateProofs`, for any inputs, commits, histories of pushes, cooldown, page and
set `Handed`:

- `SoundLockOnlyMovesPins`: `NoLockProblems(old, new) => OnlyPinsMoved(old, new)` for
  any two locks.
- `UpdInvariant`, `UpdTypeCorrect`: `UpdInv` has `BranchInv` with `LogInv` (the log has, for
  each day, the last push up to it, and that is what the branch held), `LocksInv`
  (every lock but the one handed over has the nodes of the first), `CheckInv` (what the
  check has let pass may move) and `PrInv` with `TableInv`.
- `EveryMoveIsChecked`, `TheTableIsOfTheLock`, `MergesForward`: its consequences. The
  lemma `CooledIsHeld` is the heart of it: of the entries of the page that
  are old enough, the newest is the head the branch had a cooldown ago, whatever was
  pushed, forced or deleted since.

- `HonestIsAccepted`: `[]HonestLockAccepted` while no job is `"untrusted"`, for any `Own`
  that `OwnAssumption` allows: nodes pinned to commits, from GitHub or not, and no node
  below two inputs. `HonestInv`: every lock there is, main's and the pull request's too, is
  one that nix wrote (`Written`: GitHub's nodes, pinned, with the hash and date of their
  tree; `WrittenAssumption` says it of the first lock), and a run's is main's with some inputs
  updated (`HonestLock`: at and below each direct input either what was there or what nix
  writes for its new commit). For a node that nix wrote `lock_problems` then looks at nothing
  but its `Frame`, what no update may change (`FrameSound`), and for the updated node itself
  at its inputs (`PinnedSound`); together that is `OwnKept` (`UpdateIsSound`). A lock that is
  let through is again one that nix wrote (`SoundUpdateWritten`), also after a merge. The
  hypothesis is needed, as TLC showed: a lock handed over with a
  well-formed hash that is not its commit's, once merged, makes the next honest update to
  the same commit a change of the hash alone, which is refused. nix refuses such a lock
  too, so CI would not be green and the reviewer would not merge it; the model has no CI.
  `Handed` of `scripts_safe` has no such lock that is let through, so the property holds there with untrusted jobs.
- `TheMonthlyIsKept`: `Spec => MonthlyNotDropped`, untrusted jobs included. `CarryInv`
  follows what the open pull request moves from the lookup to the check: it is still to be
  moved, or moved; `PinsInv`: what is compared are pinned commits.
- `JobIsInTime` (`SpentInv` bounds the time spent at each attempt of each scan) and
  `ReportComparesWhatIs` (what a scan returned is what the system has), together
  `ReportIsAlwaysRight`, for any systems and limits with 2 builds, 4 scans and 3 pauses
  within the job's; `ReportTypesCorrect`.

`ScriptsProofs`, for any plan, page size, and number of issues, edits and runs, with what
`IssueAssumption` says of tickets.py (nothing of the plan has the title of somebody else's
issue):

- `FilingInvariant`: `IssueSpec => []FilingInv`, which has
  - `IssuesInv`: an issue is somebody's, or filed for a ticket as that says, and its links
    are to the issues of the tickets they name; no ticket has two;
  - `RunInv`: what a run has listed and numbered are those issues, and `MilestonesInv`:
    the milestones it has passed exist;
  - `ListInv`: every ticket's issue on the pages read so far is in `existing`, although
    new issues push others down; past the list, every ticket's issue is listed, or its
    ticket was reached. This is what makes a second run file nothing twice, and it needs
    the list to be newest first: an issue may be read twice, never missed;
  - `BodiesInv`: the body the run holds is GitHub's, and what it has rewritten has no plan
    number left, but for the issues in `edited`.
- `TicketsAreFiledOnce`: `[]IssuesFiled`. `EditedTextIsKept`: `EditsKept`.
- `ScriptsTypeCorrect`: `MCSpec => []TypeOK`, of all of them and any instance.

`ComposeProofs`, for any manifest and any files that `ComposeAssumption` allows: their
ports and volumes are `IsPort` and `IsVolume`, and the tokens that are numbers are not
separators. Nothing is said of the number of files, services and entries, of the length of
an address or a path, or of the values of the ports.

- `NormalIsReal`: `Normal(path) = Real(path)` for any text. By induction over the walk
  (`WalkTops`): the names on it are at places in increasing order, after the
  i-th of n there are n - i more names than steps up, and nowhere fewer (`Excess`), and
  every other name was taken back (`Tops`). A name, a `.` and a `..` each keep that (`NameTops`,
  `DotTops`, `UpTops`), a `..` above the root too.
- `ExitIsRight`: `ComposeSpec => []ExitTells`. A separator between two texts cuts them there
  if the first does not hold it (`CutFirst`), or the last (`CutLast`). So an entry in the
  short form is read as what it means, with the IPv6 brackets, a range and a protocol
  (`PortReads`, `VolumeReads`), and a port, a volume and a file have a problem exactly
  when they do not conform (`PortIsRight`, `VolumeIsRight`, `FileIsRight`). `ToldSoFar` is the
  loop's invariant: `failed` tells of the files up to `nextFile`.

The prover has no induction theorem to instantiate, but that the naturals are well-founded
is one about sets: the least number at which something fails (`LeastOf`) cannot be, since
it holds one before.

### What is abstracted

Pushes to `main` by hand; a pull request that is closed and then force-pushed can no
longer be opened again; both jobs run on the commit that triggered them. The time of
`nix flake update` counts as 0, vulnix is taken to list a version of a package once
(the dictionary at flake_update.py:193), the closure diff and the cut of a long report
are left out. In compose files: YAML, messages, malformed numbers, anonymous
volumes that end in `:ro`, container ports that are ranges, and symbolic links and a leading
`//` in paths. In the issues: the texts, the token, `--dry-run`.

## Services

Three small programs that share nothing with each other or with the rest.

### Modules

| Module | Models |
|---|---|
| `Whitelist` | `whitelist-sync.sh` and `minecraft-whitelist.service`, with the secret, the stack, the server, Mojang's lookup and operators in the game |
| `RouterWan` | `tenant-router-wan.service`, its refresh, its script and the set `router-wan`, with the lookup, reloads of the ruleset, failing commands and reboots |
| `QueryLog` | `querylog-cap.sql`, statement by statement, with its timer, Blocky's writes and retention, PostgreSQL's estimate and vacuums |
| `MCServices` | the instances for TLC; a behaviour is of one service |
| `ServicesProofs` | the theorems about all three |

**Whitelist.** `wanted` is the line of the secret, a sequence of names with or without
invalid ones, `listed` the server's list in its own spelling; `Player` is `lower`.
`syncAt` is the place in the script: the line, the wait for a healthy container, the
list, the additions, the removals; each request to the server is a step. The unit is
of the stack (`requisite`, `partOf`), starts with it, with any deploy while it is not
active, and is restarted by a changed secret. `touched` is history: the operator edited
the list after the run read it. The list fits in a reply of RCON's (see [below](#findings)
for a longer one).

**RouterWan.** `wanAt` is the place in the script, which is both ExecStart and ExecReload:
the last address, the lookup, flush, add, write, each a command of its own. The end of a
run (`Ends`) leaves a start that failed failed, and a reload active. A tick is the five
minutes of the timer; `age`, `uptime` and `outage` count up to just over the grace of
thirty. A ruleset reload that meets a start or a reload of the unit may or may not be
kept by systemd for after it: `kept` is either.

**QueryLog.** A row is its instant, and the table its rows, newest first, so that rows
may share an instant. `fileRows` is what the file has room for (it never shrinks),
`reltuples` PostgreSQL's estimate as the last vacuum left it, `width` what a row is
estimated at beside the `RowBytes` it takes. Each statement of the job is a step and a
transaction; a run may be cut short before any (`TimeoutStartSec`, a reboot).

### Runs

`services`, all in one:

| Property | Says |
|---|---|
| `TypeOK` | of all three |
| `ActiveMeansApplied` | an active unit means that the server's list is the secret's |
| `NamedStay` | a run takes nobody off the list whom the secret names, however it is written and whatever fails |
| `EmptyIsKnown` | with an address saved, the set is empty at rest only after a failed unit or a reload |
| `OutageIsPosted` | after thirty minutes without an answer, each refresh leaves the unit failed |
| `NoCreep` | a trim leaves the minimum, but for the rows of one instant, and deletes nothing unless rows were written since the last one |
| `EndsApplied` | the server's list comes to be the secret's |
| `SetComesBack` | the set holds the router's address alone, again and again; what a reload emptied is filled in an outage too |
| `EndsUnderCap` | the log comes back under its cap, or to its minimum |

Bounds. Two players, one of whom can be written in two ways and one of whom Mojang does
not know; lines with one name, both, an invalid one, one player twice, none, and no line;
three changes from outside, so that a run that failed can be followed by a change during
the next. Two addresses, a grace of two ticks and three events: a reload and a failing
command in an outage. Caps and widths for which the estimate is right or too high; six rows
over two instants, five at a time, so that instants are shared and trims repeated, a
minimum of two and one run cut short. `CHECK_DEADLOCK FALSE`: the bounds end the events.

Fairness (`MCFair`, of the service that runs). Of the script's steps: a started job goes
on, is answered or times out. Of `Refresh`, `Tick` and `CapStarts`: timers. Of
`SecretRestarts` and `StackStarts`: what a deploy and an operator began. Of `DeployStarts`:
deploys come at least with the weekly updates, and only they start a failed whitelist
unit again, so between two deploys it may stay failed (it posts). Of `ServerReady` and
`LookupBack`: what was down comes back. Of `Autovacuum`: PostgreSQL keeps its estimate.
Nothing else is fair: the events from outside may never come.

### Proofs

`ServicesProofs`. The whitelist, for any names, spellings, lines and number of changes
(`SpellingAssumption`: the server spells each player by a name of theirs):

- `WhitelistTypeCorrect`.
- `ActiveIsApplied`: `[]ActiveMeansApplied`. `PlanInv` says at each place of the script what
  is still to be done: while nobody touched the list from outside, a listed player is one
  that the run saw or one that it wants, and a wanted one is listed, still to be added, or
  has failed the run. A run whose line has changed under it is to be restarted, and
  promises nothing.
- `NamedPlayersStay`: `NamedStay`, from the same invariant: what is still to be removed is
  never a player of the line, in any spelling.

The router's address, for any addresses, any grace and any number of events:

- `RouterTypeCorrect`.
- `GapsAreKnown`: inductive with the type invariant is `GapsKnown`, which says of each
  place in the script whether the set can be empty there (between flush and add, and
  before the last address is put back, and nowhere else unless it was emptied).
- `OutagesArePosted`: with the type invariant and `ClocksAgree`: an outage is no longer than the
  file is old or the host is up (so that `Early` is false in a long one), a run that has
  an address is in none, and no reload of a refreshed unit is in a long one (the unit is
  failed, and a failed unit is not reloaded).

The query log, for any caps, widths, minimum, retention and number of rows
(`LogAssumption`):

- `LogTypeCorrect`.
- `TrimsDoNotCreep`: `LogSpec => NoCreep`. What a run keeps is the cap over the size of a
  row, and the estimate of the rows that it is computed from cancels (`Kept`): every run
  keeps the same number, however wrong the estimate. `TrimInv` then says that the last
  trim left no more than that and what was written since, and that the cutoff of a run
  under way is an instant with that many rows before it, whatever was written or removed
  by the retention since it was read.

`ServicesTypeCorrect`: `[]TypeOK` of the three together. It assumes what the instance of
`MCServices` has: no line is one of the lines, and there is an address, a cap and a width.

Only model-checked: liveness.

### What is abstracted

Names are valid or not; RCON's escape codes, the wording of replies and an unexpected
reply (a failure like the others) are left out, and so is the twenty-minute limit, longer
than the wait. Of the log: columns, the sample of 100000 rows for the average, and the
file's growth by anything but rows. The watch's queries keep no state.

## Findings

Each has a run that TLC finds violated; `PROJECT.json` quotes the lines.

| Run | What the code does |
|---|---|
| `chosen_pruned` | The rollback checks the snapshot it is to use before the confirmation and the lock. A nightly run may prune it meanwhile; the live data is then kept and deleted, and there is nothing to put in its place. |
| `up_posted` | A TERM after `finished=1` fails the unit with the stage still `compose`: the tenant is told that a deploy failed which is up. |
| `undo_not_deployed` | After a commit that came up half-way, `main` moved back to the one deployed before is "already deployed": nothing is brought up, and the metrics say it runs. |

In the first the replaced data is kept (`ReplacedDataIsKept`): an operator can
still recover.

Met while modelling, with no run of their own:

- The data unit takes no lock: reloaded by a deploy between the rollback's re-check
  (stack-rollback.sh:196, whose comment names the danger) and its swap (:200), it makes an
  empty directory, the copy lands inside it, and the rollback starts the stack on empty
  data. With `ReloadEvents` TLC finds `SwappedToChosen` violated; the replaced data is
  kept here too, with every event (`ReplacedDataKept`).
- A ruleset reload in an outage of more than thirty minutes empties the set
  `router-wan`, and the failed unit is not reloaded with it (network.nix:199): the
  router's address is open to the VMs until the next refresh, up to five minutes later.
  network.nix:30-31 and docs/runbooks/tenants.md:237-240 say that the last address is put
  back at once. Hence `emptied` in `EmptyIsKnown`.
- querylog-cap.sql:42-44 and docs/runbooks/dns.md:426-427 say that a trim never leaves
  fewer than 1000 rows. The cutoff is the instant of the newest row that is not kept (:46),
  and the DELETE (:48) takes every row of that instant, those among the newest 1000 too.
  tests/dns.py:430 has rows a minute apart. Hence the second term in `Spares`.
- whitelist-sync.sh:73-74 says of a list too long for RCON's reply that it would `fail
  here, not remove anyone`. A cut reply still begins as the first pattern does (:78), so the
  names it holds are taken for the list: those of them that the secret does not name are
  removed, and those that it cuts off are neither seen nor removed.
- `docker compose ps --status running` (stack-snapshot.sh:68) leaves out a container
  Docker is restarting (`restart: unless-stopped`): the snapshot run then uses no
  hooks, the container comes up before stack-snapshot.sh:87, and the snapshot is of
  a running server with saving on. With the event `crash` TLC finds
  `NoTornSnapshot` violated; `stack_snapshots` excludes it.
- The configuration is copied after the snapshot and its post-command
  (stack-snapshot.sh:94), from an `/etc` that a deploy switches without the lock:
  `NAME.config` can be of a later deploy, though the design
  (docs/superpowers/specs/2026-10-24-data-layout-design.md:135) says it is what was
  deployed when the snapshot was taken.
- Deaths wait in the watcher's pipe while it posts (up to some 40 s). Those of a
  deploy's reload that are read after its end count as crashes, although
  docs/runbooks/stacks.md:185 says that they do not.
- Only a save that arrived on the disk counts after a power cut: with an older file
  back, the notifier's next message counts failures again that were told. That is
  why `CountIsAFloor` has its condition.
- A run started by hand (`systemctl start tenant-deploy`) while the report of the
  last one starts changes the stage and the log under it. With the events
  `manual` and `platformFails` TLC finds a post of a failure that is not the
  tenant's; `PostsAreTheTenants` therefore excludes `manual`.
- `$state/notified` holds one key. A commit whose CI fails, passes when run again,
  fails to come up and is run again posts its CI failure twice: with `rerun` and
  `composeFails` TLC finds `PostedOnce` violated, as it is when `main` is moved
  back and forth.
- The webhook is kept in `/run`: between a reboot and the next decrypt a CI failure
  is not posted, and the report says there is no `FAILURE_WEBHOOK` in the secrets
  (deploy-failed.sh:43), which need not be so. docs/runbooks/tenants.md:114
  documents the first part.
- A rollback of a stack that is still starting reads "not active", stops it, and
  does not start it again.
- The marker of a running host is made before the boot message is posted, and only an
  active unit's preStop removes it. A shutdown while that post is still being tried
  is reported by the next boot as an unclean one; docs/runbooks/notifications.md:98-102
  says otherwise. With `EarlyShutdown` TLC finds `NoFalseAlarm` violated.
- A request answered with 500 although its post arrived leaves Alertmanager thinking
  that it never notified; when the alert resolves before the retry, nothing says so in
  Discord. A retry that still posts when `group_interval` ends is cut, and may post
  late beside the next flush. `agreed` excepts both.
- "Update failed; the server is unchanged." (announce-comin.sh:49) is posted for every
  failed deploy. One that fails while it activates has switched, as
  docs/runbooks/deploy.md:70-74 says.
- A revert of the latest deploy is announced, but comin takes it for deployed and skips
  it (docs/runbooks/rollback.md:37-48): the announcement gets no end. The same goes for
  a build after the boot of an older entry. `OutcomesPaired` is about deploy hooks that
  run, so it holds.
- A revert that is built while the deploy it reverts is under way is compared with the
  system before it: it changes nothing, is not announced, and then does change what
  runs. Hence `overtaken` in `UpdatesAnnounced`.
- The reboot window compares before it waits (reboot-window.nix:71): a deploy it waited
  for may take the kernel change back, and the host reboots all the same. And comin may
  begin a deploy during the five minutes of warnings: hence `late` in `RebootWaits`.
- "At worst three capped vulnix attempts", about 32 minutes, says the workflow of its
  limit (update-flake-lock.yml:43-45): the second system is scanned too, which makes it
  41.5. It still fits (`JobIsInTime`).
- file_issues.py:153-154 means edits to be preserved. One that is made between the run's
  list and its PATCH is overwritten: hence `edited` in `EditsKept`.
- Its docstring (file_issues.py:12-13) says that only issues created by the current run
  have their references rewritten; :153-167 rewrite those of all. A body GitHub gives as null is written again by each run; an issue that
  was renamed is filed again.

## What is not modelled

Of the partly modelled: the firewall rules and the assertions of the stacks, the hook
that posts a failed deployment, the watch and the roles of the query log, the tenants'
ruleset. They keep no state, or are functions of the configuration. Not at all:

- settings of third-party programs (Prometheus, Blocky, Unbound, Grafana, sshd,
  Tailscale, microvm): they have no operations of this repository's;
- the VM tests, the CI workflows and the development tools;
- wording and layout of messages, and the Nix evaluation itself.

Out of reach of the prover and left to TLC: liveness under fairness, and `ENABLED`. So
are the induction theorems of the library, which take an operator: the one recursive
function, `Normal`, is proved about through a least counterexample instead.
