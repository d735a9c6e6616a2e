----------------------------- MODULE StackData ----------------------------
(***************************************************************************)
(* One compose stack with a dataDir: its units, the nightly and manual     *)
(* snapshots, the rollbacks, deploys, Docker, and power losses, together.  *)
(***************************************************************************)
EXTENDS StackRollback

vars == <<stateVars, unitVars, dockerVars, run, roll>>

Init == StateInit /\ UnitInit /\ SnapshotInit /\ RollbackInit

Tick ==
  /\ clock < MaxClock
  /\ clock' = clock + 1
  /\ UNCHANGED <<holder, storeVars, etc, unitVars, dockerVars, run, roll>>

\* Every process dies and the lock (in /run) with them; what is on disk stays.
\* At the boot Docker restarts the containers `down` had not removed, and
\* multi-user.target starts the two units.
PowerLoss ==
  /\ "powerLoss" \in Events
  /\ holder' = Free
  /\ containers' = IF containers = "none" THEN "none" ELSE "restarting"
  /\ saving' = "on"
  /\ unit' = "startData" /\ dataUnit' = "inactive" /\ dataPc' = "idle"
  /\ deploy' = "idle"
  /\ run' = [p \in Snapshotters |-> NotRunning]
  /\ roll' = [r \in Rollbacks |-> NotRolling]
  /\ UNCHANGED <<clock, storeVars, etc>>

Units == DataStep \/ UnitStep \/ DeployUnits \/ ContainerRestart

System ==
  \/ Units /\ UNCHANGED <<run, roll>>
  \/ \E p \in Snapshotters : SnapshotStep(p) /\ UNCHANGED roll
  \/ \E r \in Rollbacks : RollbackStep(r)

Environment ==
  \/ UnitEnvironment /\ UNCHANGED <<run, roll>>
  \/ \E p \in Snapshotters : SnapshotEnvironment(p) /\ UNCHANGED roll
  \/ \E r \in Rollbacks : RollbackEnvironment(r)
  \/ Tick
  \/ PowerLoss

Next == System \/ Environment

Spec == Init /\ [][Next]_vars

\* systemd runs its jobs, Docker restarts, the scripts run, and a wait for the
\* lock ends when the lock is free often enough: the kernel wakes the waiters
\* in the order they came.  Nothing makes an operator, a deploy or a timer act.
Fairness ==
  /\ WF_vars(DataStep /\ UNCHANGED <<run, roll>>)
  /\ WF_vars(UnitStep /\ UNCHANGED <<run, roll>>)
  /\ SF_vars(UnitLock /\ UNCHANGED <<run, roll>>)
  /\ WF_vars(DeployUnits /\ UNCHANGED <<run, roll>>)
  /\ WF_vars(ContainerRestart /\ UNCHANGED <<run, roll>>)
  /\ \A p \in Snapshotters :
       /\ WF_vars(SnapshotStep(p) /\ UNCHANGED roll)
       /\ SF_vars(SnapshotLock(p) /\ UNCHANGED roll)
  /\ \A r \in Rollbacks : WF_vars(RollbackStep(r)) /\ SF_vars(RollbackLock(r))

FairSpec == Spec /\ Fairness

---------------------------------------------------------------------------

TypeOK == StateTypeOK /\ UnitTypeOK /\ SnapshotTypeOK /\ RollbackTypeOK

\* Every world a rollback deleted is still in the before-rollback snapshot it
\* was kept in: `A rollback that deletes the data it replaces` is the failure
\* the design rules out, whatever fails, dies or runs at the same time.
ReplacedDataKept ==
  \A e \in replaced : e[1][1] = "before" /\ snaps[e[1]] # Absent /\ snaps[e[1]].world = e[2]

\* From the check of `docker ps` to the lock's release, no container of the
\* stack exists: data is never swapped under running containers.
NeverSwapUnderContainers ==
  (\E r \in Rollbacks : roll[r].pc \in Swapping) => containers = "none"

\* A running server whose saving is off is between the hooks of a run, or of
\* a run about to fail, or some run has already failed over it: it is never
\* left with saving off silently.
SavingOffAccountedFor ==
  containers = "up" /\ saving = "off" =>
    \E p \in Snapshotters : holder = p /\ run[p].pc \in Trapped /\ (run[p].owes \/ run[p].failed)

\* No snapshot is of a running server that had saving on.
NoTornSnapshot == \A n \in all_snapshot_names : ~snaps[n].torn

\* With nobody in the lock, a snapshot has its saved configuration and a
\* saved configuration its snapshot.
WholeSnapshots ==
  holder = Free => \A n \in Names : snaps[n] = Absent <=> cfgs[n] = Absent

\* A snapshot that is there is one of a server at rest, with its configuration.
SnapshotsSound == NoTornSnapshot /\ WholeSnapshots

Vault == INSTANCE StackVault
  WITH None <- Absent,
       live <- IF Exists THEN dir.world ELSE Absent,
       vault <- [n \in Names |-> IF snaps[n] = Absent THEN Absent ELSE snaps[n].world]

\* The programs implement StackVault: no step loses data in any other way.
ImplementsVault == Vault!VaultSpec

\* A rollback of a running stack ends with the stack running.
StackComesBack ==
  \A r \in Rollbacks : RollAt(r, "stop") /\ roll[r].wasActive ~> unit = "active" /\ containers = "up"

\* Saving switched off comes back on.
SavingComesBack == saving # "on" ~> saving = "on"

\* What a script took down it brings back: the stack, and the server's saving.
ComesBack == StackComesBack /\ SavingComesBack

\* What the documents say, and the code does not do (README, Findings).

\* The rollback has the lock, so nothing has changed the snapshot it was told
\* to use.
ChosenStillThere ==
  \A r \in Rollbacks : RollAt(r, "delete") => snaps[roll[r].chosen] # Absent

\* Once the rollback is to start the stack, the data is the chosen snapshot.
SwappedToChosen ==
  \A r \in Rollbacks : RollAt(r, "release") => dir.world = snaps[roll[r].chosen].world
=============================================================================
