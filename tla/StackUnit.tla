---------------------------- MODULE StackUnit -----------------------------
(***************************************************************************)
(* The systemd units of one stack and what they drive: stack-STACK.service *)
(* (start and reload run `up` under the lock, stop runs `down` without     *)
(* it), stack-STACK-data.service (makes the subvolume, takes no lock), the *)
(* deploy that reloads both, and Docker with its restart policy.           *)
(***************************************************************************)
EXTENDS StackState

VARIABLES
  unit,        \* the state of stack-STACK.service
  dataUnit,    \* the state of stack-STACK-data.service
  dataPc,      \* where its script is; it is also run by a reload
  deploy,      \* "units": /etc is switched, the units are not yet reloaded
  containers,  \* the stack's containers
  saving       \* whether the server saves: "on", "off" between the hooks, or
               \* "alerted": off, and a run has ended with a failure since

unitVars == <<unit, dataUnit, dataPc, deploy>>
dockerVars == <<containers, saving>>

Starting == {"startData", "startLock", "startUp"}
Reloading == {"reloadData", "reloadLock", "reloadUp"}

UnitTypeOK ==
  /\ unit \in {"inactive", "active", "stopping"} \cup Starting \cup Reloading
  /\ dataUnit \in {"inactive", "active"}
  /\ dataPc \in {"idle", "check", "create", "own"}
  /\ deploy \in {"idle", "units"}
  /\ containers \in {"none", "up", "restarting"}
  /\ saving \in {"on", "off", "alerted"}

\* The first boot: multi-user.target wants both units.
UnitInit ==
  /\ unit = "startData"
  /\ dataUnit = "inactive"
  /\ dataPc = "idle"
  /\ deploy = "idle"
  /\ containers = "none"
  /\ saving = "on"

\* `systemctl is-active`: a unit being reloaded is active.
is_active == unit = "active" \/ unit \in Reloading

\* `docker ps -q` lists a container Docker is restarting; `docker compose ps
\* --status running` does not.
DockerPs == containers # "none"
ComposePsRunning == containers = "up"

\* What a read-only snapshot of the data directory taken now holds.
Copy == [world |-> dir.world, torn |-> containers = "up" /\ saving = "on"]

(***************************************************************************)
(* The data unit.                                                          *)
(***************************************************************************)
\* `systemctl start`, as a requirement of the stack unit or of the nightly one.
DataStart ==
  /\ dataUnit = "inactive" /\ dataPc = "idle"
  /\ dataPc' = "check"
  /\ UNCHANGED <<stateVars, unit, dataUnit, deploy, dockerVars>>

\* A failed start fails the start waiting on it; after a failed reload the
\* data unit stays active.  A reload of the stack fails, and it stays active.
DataFails ==
  /\ dataPc' = "idle"
  /\ unit' = CASE dataUnit = "inactive" /\ unit = "startData" -> "inactive"
               [] dataUnit = "inactive" /\ unit = "reloadData" -> "active"
               [] OTHER -> unit
  /\ UNCHANGED <<stateVars, dataUnit, deploy, dockerVars>>

DataCheck ==
  /\ dataPc = "check"
  /\ IF dir.kind = "plain"
     THEN DataFails
     ELSE /\ dataPc' = IF Exists THEN "own" ELSE "create"
          /\ UNCHANGED <<stateVars, unit, dataUnit, deploy, dockerVars>>

DataCreate ==
  /\ dataPc = "create"
  /\ IF Exists
     THEN DataFails
     ELSE /\ dir' = [kind |-> "subvolume", world |-> 0]
          /\ dataPc' = "own"
          /\ UNCHANGED <<clock, holder, snaps, cfgs, etc, written, replaced,
                         unit, dataUnit, deploy, dockerVars>>

DataOwn ==
  /\ dataPc = "own"
  /\ IF ~Exists
     THEN DataFails
     ELSE /\ dataPc' = "idle"
          /\ dataUnit' = "active"
          /\ UNCHANGED <<stateVars, unit, deploy, dockerVars>>

(***************************************************************************)
(* The stack unit.                                                         *)
(***************************************************************************)
StartUnit == unit' = IF unit = "inactive" THEN "startData" ELSE unit

\* Requires= on a start, `systemctl start` of the data unit on a reload.
UnitData ==
  /\ dataUnit = "active"
  /\ \/ unit = "startData" /\ unit' = "startLock"
     \/ unit = "reloadData" /\ unit' = "reloadLock"
  /\ UNCHANGED <<stateVars, dataUnit, dataPc, deploy, dockerVars>>

\* (Mutant) `up` without flock.
UnitLockWithoutFlock ==
  /\ \/ unit = "startLock" /\ unit' = "startUp"
     \/ unit = "reloadLock" /\ unit' = "reloadUp"
  /\ UNCHANGED <<stateVars, dataUnit, dataPc, deploy, dockerVars>>

\* flock -w 600
UnitLock ==
  /\ \/ unit = "startLock" /\ unit' = "startUp"
     \/ unit = "reloadLock" /\ unit' = "reloadUp"
  /\ TakeLock(Unit)
  /\ UNCHANGED <<clock, storeVars, etc, dataUnit, dataPc, deploy, dockerVars>>

UnitLockTimeout ==
  /\ "lockTimeout" \in Events
  /\ holder # Free
  /\ \/ unit = "startLock" /\ unit' = "inactive"
     \/ unit = "reloadLock" /\ unit' = "active"
  /\ UNCHANGED <<stateVars, dataUnit, dataPc, deploy, dockerVars>>

\* Compose starts what is not running and recreates what changed; a server
\* that starts has saving on.  Docker makes a bind mount's missing source a
\* plain directory.
BringUp ==
  /\ containers' = "up"
  /\ saving' \in IF containers = "up" THEN {saving, "on"} ELSE {"on"}
  /\ dir' = IF Exists THEN dir ELSE [kind |-> "plain", world |-> 0]

UnitUp ==
  /\ unit \in {"startUp", "reloadUp"}
  /\ BringUp
  /\ unit' = "active"
  /\ DropLock(Unit)
  /\ UNCHANGED <<clock, snaps, cfgs, etc, written, replaced, dataUnit, dataPc, deploy>>

\* `up` or the port check fails, or the start times out.  A failed `up` may have
\* left containers; a start whose `up` succeeded ends with or without ExecStop
\* (both are allowed here); a failed reload leaves the unit active.
UnitUpFails ==
  /\ "failure" \in Events
  /\ \/ BringUp
     \/ UNCHANGED <<dir, dockerVars>>
  /\ \/ unit = "startUp" /\ unit' = "inactive"
     \/ unit = "startUp" /\ containers' = "up" /\ unit' = "stopping"
     \/ unit = "reloadUp" /\ unit' = "active"
  /\ DropLock(Unit)
  /\ UNCHANGED <<clock, snaps, cfgs, etc, written, replaced, dataUnit, dataPc, deploy>>

\* `systemctl stop`: ExecStop of an active unit; a start or reload under way
\* is killed, without ExecStop, and `up` may have started containers by then.
StopUnit ==
  /\ unit' = CASE unit = "active" -> "stopping"
               [] unit \in Starting \cup Reloading -> "inactive"
               [] OTHER -> unit
  /\ DropLock(Unit)
  /\ \/ unit \in {"startUp", "reloadUp"} /\ BringUp
     \/ UNCHANGED <<dir, dockerVars>>

\* compose down, which takes no lock.
UnitDown ==
  /\ unit = "stopping"
  /\ unit' = "inactive"
  /\ \/ containers' = "none" /\ saving' = "on"
     \/ "failure" \in Events /\ UNCHANGED dockerVars
  /\ UNCHANGED <<stateVars, dataUnit, dataPc, deploy>>

OperatorStop ==
  /\ "stop" \in Events
  /\ StopUnit
  /\ UNCHANGED <<clock, snaps, cfgs, etc, written, replaced, dataUnit, dataPc, deploy>>

OperatorStart ==
  /\ "stop" \in Events
  /\ StartUnit
  /\ UNCHANGED <<stateVars, dataUnit, dataPc, deploy, dockerVars>>

(***************************************************************************)
(* A deploy: switch-to-configuration replaces /etc, then reloads a changed *)
(* active unit and starts an inactive one multi-user.target wants.         *)
(***************************************************************************)
DeploySwitch ==
  /\ "deploy" \in Events
  /\ deploy = "idle" /\ deploy' = "units"
  /\ etc' \in Configs
  /\ UNCHANGED <<clock, holder, storeVars, unit, dataUnit, dataPc, dockerVars>>

DeployUnits ==
  /\ deploy = "units" /\ deploy' = "idle"
  /\ unit' = CASE unit = "active" -> "reloadData"
               [] unit = "inactive" -> "startData"
               [] OTHER -> unit
  /\ \/ UNCHANGED dataPc
     \/ /\ "dataReload" \in Events
        /\ dataUnit = "active" /\ dataPc = "idle"
        /\ dataPc' = "check"
  /\ UNCHANGED <<stateVars, dataUnit, dockerVars>>

(***************************************************************************)
(* Docker and the server.                                                  *)
(***************************************************************************)
ContainerCrash ==
  /\ "crash" \in Events
  /\ containers = "up" /\ containers' = "restarting"
  /\ UNCHANGED <<stateVars, unitVars, saving>>

\* restart: unless-stopped
ContainerRestart ==
  /\ containers = "restarting" /\ containers' = "up"
  /\ saving' = "on"
  /\ UNCHANGED <<stateVars, unitVars>>

ContainerWrite ==
  /\ containers = "up" /\ saving = "on" /\ Exists
  /\ written < MaxWorld
  /\ written' = written + 1
  /\ dir' = [dir EXCEPT !.world = written']
  /\ UNCHANGED <<clock, holder, snaps, cfgs, etc, replaced, unitVars, dockerVars>>

DataStep == DataStart \/ DataCheck \/ DataCreate \/ DataOwn

UnitStep ==
  UnitData \/ UnitLock \/ UnitLockTimeout \/ UnitUp \/ UnitUpFails \/ UnitDown

UnitEnvironment ==
  OperatorStop \/ OperatorStart \/ DeploySwitch \/ ContainerCrash \/ ContainerWrite
=============================================================================
