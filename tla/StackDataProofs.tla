-------------------------- MODULE StackDataProofs --------------------------
(***************************************************************************)
(* Theorems about StackData, for every number of runs and rollbacks, every *)
(* Keep, every bound and every choice of Events.                           *)
(***************************************************************************)
EXTENDS StackData, FiniteSetTheorems, TLAPS

USE DEF stateVars, storeVars, unitVars, dockerVars

(***************************************************************************)
(* Type correctness: one lemma per module, one step per action.            *)
(***************************************************************************)
\* The initial states are of the right types.
LEMMA InitType == Init => TypeOK
BY ProcAssumption, ConfigAssumption, BoundAssumption
   DEF Init, StateInit, UnitInit, SnapshotInit, RollbackInit, TypeOK, StateTypeOK, UnitTypeOK,
       SnapshotTypeOK, RollbackTypeOK, NotRunning, NotRolling, Runs, Rolls, RollbackPcs, Names,
       Times, Directories, Starting

\* Steps of the units, of Docker, of deploys and of operators keep the types.
LEMMA UnitsType ==
  ASSUME TypeOK, Units \/ UnitEnvironment, UNCHANGED <<run, roll>>
  PROVE  TypeOK'
<1> USE DEF TypeOK, StateTypeOK, UnitTypeOK, SnapshotTypeOK, RollbackTypeOK, Starting,
            Reloading, Directories, Procs
<1>1. CASE DataStart BY <1>1 DEF DataStart
<1>2. CASE DataCheck BY <1>2 DEF DataCheck, DataFails, Exists
<1>3. CASE DataCreate BY <1>3 DEF DataCreate, DataFails, Exists
<1>4. CASE DataOwn BY <1>4 DEF DataOwn, DataFails, Exists
<1>5. CASE UnitData BY <1>5 DEF UnitData
<1>6. CASE UnitLock BY <1>6 DEF UnitLock, TakeLock
<1>7. CASE UnitLockTimeout BY <1>7 DEF UnitLockTimeout
<1>8. CASE UnitUp BY <1>8 DEF UnitUp, BringUp, DropLock, Exists
<1>9. CASE UnitUpFails BY <1>9 DEF UnitUpFails, BringUp, DropLock, Exists
<1>10. CASE UnitDown BY <1>10 DEF UnitDown
<1>11. CASE DeployUnits BY <1>11 DEF DeployUnits
<1>12. CASE ContainerRestart BY <1>12 DEF ContainerRestart
<1>13. CASE OperatorStop BY <1>13 DEF OperatorStop, StopUnit, BringUp, DropLock, Exists
<1>14. CASE OperatorStart BY <1>14 DEF OperatorStart, StartUnit
<1>15. CASE DeploySwitch BY <1>15 DEF DeploySwitch
<1>16. CASE ContainerCrash BY <1>16 DEF ContainerCrash
<1>17. CASE ContainerWrite BY <1>17 DEF ContainerWrite
<1> QED BY <1>1, <1>2, <1>3, <1>4, <1>5, <1>6, <1>7, <1>8, <1>9, <1>10, <1>11, <1>12,
           <1>13, <1>14, <1>15, <1>16, <1>17
        DEF Units, DataStep, UnitStep, UnitEnvironment

\* A snapshot's name is one of Names, and what it holds is a snapshot.
LEMMA NowType == ASSUME TypeOK, NEW kind \in {"nightly", "manual", "before"}
                 PROVE  now(kind) \in Names
BY DEF TypeOK, StateTypeOK, now, Names

\* A snapshot holds what the data directory held.
LEMMA CopyType == ASSUME TypeOK PROVE Copy \in Snapshots
BY DEF TypeOK, StateTypeOK, UnitTypeOK, Copy, Snapshots, Directories

\* Steps of a snapshot run keep the types.
LEMMA SnapshotType ==
  ASSUME TypeOK, NEW p \in Snapshotters, SnapshotStep(p) \/ SnapshotEnvironment(p),
         UNCHANGED roll
  PROVE  TypeOK'
<1> USE DEF TypeOK, StateTypeOK, UnitTypeOK, SnapshotTypeOK, RollbackTypeOK, Procs, At, Goto,
            Fail, Runs, Trapped
<1>1. CASE SnapshotStart(p) BY <1>1 DEF SnapshotStart
<1>2. CASE SnapshotLock(p) BY <1>2 DEF SnapshotLock, TakeLock
<1>3. CASE SnapshotLockTimeout(p) BY <1>3 DEF SnapshotLockTimeout
<1>4. CASE SnapshotAsk(p) BY <1>4 DEF SnapshotAsk
<1>5. CASE SnapshotPre(p) BY <1>5 DEF SnapshotPre
<1>6. CASE SnapshotTake(p)
  <2>1. now(kindOf(p)) \in Names BY NowType DEF kindOf
  <2> QED BY <1>6, <2>1, CopyType DEF SnapshotTake
<1>7. CASE SnapshotPost(p) BY <1>7 DEF SnapshotPost, run_post
<1>8. CASE SnapshotConfig(p) BY <1>8 DEF SnapshotConfig, copy_config
<1>9. CASE SnapshotPrune(p)
  <2>1. Excess \subseteq Names BY DEF Excess, snapshot_names, all_snapshot_names
  <2> QED BY <1>9, <2>1 DEF SnapshotPrune
<1>10. CASE SnapshotTrap(p) BY <1>10 DEF SnapshotTrap, run_post
<1>11. NotRunning \in Runs BY BoundAssumption DEF NotRunning, Names, Times
<1>12. CASE SnapshotExit(p) BY <1>11, <1>12 DEF SnapshotExit, DropLock, Alerted
<1>13. CASE SnapshotSignal(p) BY <1>13 DEF SnapshotSignal
<1>14. CASE SnapshotKill(p) BY <1>11, <1>14 DEF SnapshotKill, DropLock, Alerted
<1> QED BY <1>1, <1>2, <1>3, <1>4, <1>5, <1>6, <1>7, <1>8, <1>9, <1>10, <1>12, <1>13, <1>14
        DEF SnapshotStep, SnapshotEnvironment

\* Steps of a rollback keep the types.
LEMMA RollbackType ==
  ASSUME TypeOK, NEW r \in Rollbacks, RollbackStep(r) \/ RollbackEnvironment(r)
  PROVE  TypeOK'
<1> USE DEF TypeOK, StateTypeOK, UnitTypeOK, SnapshotTypeOK, RollbackTypeOK, Procs, RollAt,
            RollGoto, RollEnds, RollExit, restart_if_active, DropLock, Rolls, RollbackPcs,
            RollbackLocked, Swapping
<1>1. NotRolling \in Rolls BY BoundAssumption DEF NotRolling, Names, Times
<1>2. CASE RollbackCheck(r)
  <2>1. all_snapshot_names \subseteq Names BY DEF all_snapshot_names
  <2>2. PICK n \in Names : roll' = [roll EXCEPT ![r].pc = "confirm", ![r].chosen = n]
        BY <1>2, <2>1 DEF RollbackCheck
  <2>5. [roll[r] EXCEPT !.pc = "confirm", !.chosen = n] \in Rolls
    OBVIOUS
  <2>6. roll' = [roll EXCEPT ![r] = [roll[r] EXCEPT !.pc = "confirm", !.chosen = n]]
    BY <2>2
  <2>3. roll' \in [Rollbacks -> Rolls] BY <2>5, <2>6
  <2>4. UNCHANGED <<stateVars, unitVars, dockerVars, run>> BY <1>2 DEF RollbackCheck
  <2> QED BY <2>3, <2>4
<1>3. CASE RollbackConfirm(r) BY <1>1, <1>3 DEF RollbackConfirm, is_active
<1>4. CASE RollbackStop(r)
      BY <1>4 DEF RollbackStop, StopUnit, BringUp, Exists, Starting, Reloading, Directories
<1>5. CASE RollbackStopped(r) BY <1>1, <1>5 DEF RollbackStopped
<1>6. CASE RollbackLock(r) BY <1>6 DEF RollbackLock, TakeLock
<1>7. CASE RollbackLockTimeout(r) BY <1>1, <1>7 DEF RollbackLockTimeout
<1>8. CASE RollbackAsk(r) BY <1>1, <1>8 DEF RollbackAsk
<1>9. CASE RollbackKeep(r)
  <2>1. now("before") \in Names BY NowType
  <2> QED BY <1>1, <1>9, <2>1, CopyType DEF RollbackKeep
<1>10. CASE RollbackKeepConfig(r) BY <1>1, <1>10 DEF RollbackKeepConfig, copy_config
<1>11. CASE RollbackDelete(r) BY <1>1, <1>11 DEF RollbackDelete, Directories
<1>12. CASE RollbackRecheck(r) BY <1>1, <1>12 DEF RollbackRecheck
<1>13. CASE RollbackSwap(r)
  <2>1. roll[r].chosen \in Names OBVIOUS
  <2>2. ASSUME snaps[roll[r].chosen] # Absent
        PROVE  Swapped(snaps[roll[r].chosen]) \in Directories
        BY <2>1, <2>2 DEF Swapped, Directories, Snapshots
  <2> QED BY <1>1, <1>13, <2>2 DEF RollbackSwap
<1>14. CASE RollbackRelease(r) BY <1>1, <1>14 DEF RollbackRelease
<1>15. CASE RollbackStart(r) BY <1>15 DEF RollbackStart, StartUnit, Starting
<1>16. CASE RollbackStarted(r) BY <1>1, <1>16 DEF RollbackStarted
<1>17. CASE RollbackSignal(r) BY <1>1, <1>17 DEF RollbackSignal
<1> QED BY <1>2, <1>3, <1>4, <1>5, <1>6, <1>7, <1>8, <1>9, <1>10, <1>11, <1>12, <1>13,
           <1>14, <1>15, <1>16, <1>17
        DEF RollbackStep, RollbackEnvironment

\* The clock and a power loss keep the types.
LEMMA TickType == ASSUME TypeOK, Tick PROVE TypeOK'
BY BoundAssumption
   DEF TypeOK, StateTypeOK, UnitTypeOK, SnapshotTypeOK, RollbackTypeOK, Tick, Times

\* A power loss keeps the types: every process is as at the boot.
LEMMA PowerLossType == ASSUME TypeOK, PowerLoss PROVE TypeOK'
<1>1. NotRunning \in Runs BY BoundAssumption DEF NotRunning, Runs, Names, Times
<1>2. NotRolling \in Rolls
      BY BoundAssumption DEF NotRolling, Rolls, RollbackPcs, Names, Times
<1> QED BY <1>1, <1>2
        DEF TypeOK, StateTypeOK, UnitTypeOK, SnapshotTypeOK, RollbackTypeOK, PowerLoss, Starting

\* A stuttering step keeps the types.
LEMMA StutterType == ASSUME TypeOK, UNCHANGED vars PROVE TypeOK'
BY DEF vars, TypeOK, StateTypeOK, UnitTypeOK, SnapshotTypeOK, RollbackTypeOK

\* Every step keeps the types.
LEMMA NextType == TypeOK /\ [Next]_vars => TypeOK'
<1> SUFFICES ASSUME TypeOK, [Next]_vars PROVE TypeOK'
    OBVIOUS
<1>1. CASE Units /\ UNCHANGED <<run, roll>> BY <1>1, UnitsType
<1>2. CASE UnitEnvironment /\ UNCHANGED <<run, roll>> BY <1>2, UnitsType
<1>3. CASE \E p \in Snapshotters : SnapshotStep(p) /\ UNCHANGED roll BY <1>3, SnapshotType
<1>4. CASE \E p \in Snapshotters : SnapshotEnvironment(p) /\ UNCHANGED roll
      BY <1>4, SnapshotType
<1>5. CASE \E r \in Rollbacks : RollbackStep(r) BY <1>5, RollbackType
<1>6. CASE \E r \in Rollbacks : RollbackEnvironment(r) BY <1>6, RollbackType
<1>7. CASE Tick BY <1>7, TickType
<1>8. CASE PowerLoss BY <1>8, PowerLossType
<1>9. CASE UNCHANGED vars BY <1>9, StutterType
<1> QED BY <1>1, <1>2, <1>3, <1>4, <1>5, <1>6, <1>7, <1>8, <1>9
        DEF Next, System, Environment

\* Every variable of every module always has its type, for all constants.
THEOREM TypeCorrect == Spec => []TypeOK
BY InitType, NextType, PTL DEF Spec

(***************************************************************************)
(* The lock: whoever is past it has it (the flock of the scripts and of    *)
(* `up`).                                                                  *)
(***************************************************************************)
UpHolds == unit \in {"startUp", "reloadUp"}
RunHolds(p) == run[p].pc \in Trapped
RollHolds(r) == roll[r].pc \in RollbackLocked

LockHeld ==
  /\ UpHolds => holder = Unit
  /\ \A p \in Snapshotters : RunHolds(p) => holder = p
  /\ \A r \in Rollbacks : RollHolds(r) => holder = r

\* What a step of p does about the lock, when p was and is past it.
LockStep(p, was, is) ==
  \/ holder' = holder /\ (is => was)
  \/ TakeLock(p)
  \/ DropLock(p) /\ ~is

\* The units take the lock before `up`, and drop it with it.
LEMMA UnitsOnLock ==
  ASSUME TypeOK, Units \/ UnitEnvironment
  PROVE  LockStep(Unit, UpHolds, UpHolds')
<1> USE DEF LockStep, UpHolds
<1>1. CASE DataStep
      BY <1>1 DEF DataStep, DataStart, DataCheck, DataCreate, DataOwn, DataFails
<1>2. CASE UnitData BY <1>2 DEF UnitData
<1>3. CASE UnitLock BY <1>3 DEF UnitLock
<1>4. CASE UnitLockTimeout BY <1>4 DEF UnitLockTimeout
<1>5. CASE UnitUp BY <1>5 DEF UnitUp
<1>6. CASE UnitUpFails BY <1>6 DEF UnitUpFails
<1>7. CASE UnitDown BY <1>7 DEF UnitDown
<1>8. CASE DeployUnits BY <1>8 DEF DeployUnits
<1>9. CASE ContainerRestart BY <1>9 DEF ContainerRestart
<1>10. CASE OperatorStop BY <1>10 DEF OperatorStop, StopUnit, Starting, Reloading
<1>11. CASE OperatorStart BY <1>11 DEF OperatorStart, StartUnit
<1>12. CASE DeploySwitch \/ ContainerCrash \/ ContainerWrite
       BY <1>12 DEF DeploySwitch, ContainerCrash, ContainerWrite
<1> QED BY <1>1, <1>2, <1>3, <1>4, <1>5, <1>6, <1>7, <1>8, <1>9, <1>10, <1>11, <1>12
        DEF Units, UnitStep, UnitEnvironment

\* A snapshot run changes itself alone, and drops the lock when it ends.
LEMMA SnapshotOnLock ==
  ASSUME TypeOK, NEW p \in Snapshotters, SnapshotStep(p) \/ SnapshotEnvironment(p)
  PROVE  /\ LockStep(p, RunHolds(p), RunHolds(p)')
         /\ \A q \in Snapshotters \ {p} : run'[q] = run[q]
         /\ UNCHANGED unit
<1> USE DEF TypeOK, SnapshotTypeOK, Runs, LockStep, RunHolds, At, Goto, Fail, Trapped
<1>1. CASE SnapshotStart(p) BY <1>1 DEF SnapshotStart
<1>2. CASE SnapshotLock(p) BY <1>2 DEF SnapshotLock
<1>3. CASE SnapshotLockTimeout(p) BY <1>3 DEF SnapshotLockTimeout
<1>4. CASE SnapshotAsk(p) BY <1>4 DEF SnapshotAsk
<1>5. CASE SnapshotPre(p) BY <1>5 DEF SnapshotPre
<1>6. CASE SnapshotTake(p) BY <1>6 DEF SnapshotTake
<1>7. CASE SnapshotPost(p) BY <1>7 DEF SnapshotPost, run_post
<1>8. CASE SnapshotConfig(p) BY <1>8 DEF SnapshotConfig
<1>9. CASE SnapshotPrune(p) BY <1>9 DEF SnapshotPrune
<1>10. CASE SnapshotTrap(p) BY <1>10 DEF SnapshotTrap, run_post
<1>11. CASE SnapshotExit(p) BY <1>11 DEF SnapshotExit, NotRunning
<1>12. CASE SnapshotSignal(p) BY <1>12 DEF SnapshotSignal
<1>13. CASE SnapshotKill(p) BY <1>13 DEF SnapshotKill, NotRunning
<1> QED BY <1>1, <1>2, <1>3, <1>4, <1>5, <1>6, <1>7, <1>8, <1>9, <1>10, <1>11, <1>12, <1>13
        DEF SnapshotStep, SnapshotEnvironment

\* A rollback changes itself alone among the scripts; the stop it asks for
\* kills an `up` under way, which drops the unit's lock.
LEMMA RollbackOnLock ==
  ASSUME TypeOK, NEW r \in Rollbacks, RollbackStep(r) \/ RollbackEnvironment(r)
  PROVE  /\ \/ LockStep(r, RollHolds(r), RollHolds(r)') /\ (UpHolds' => UpHolds)
            \/ LockStep(Unit, UpHolds, UpHolds') /\ ~RollHolds(r)'
         /\ \A s \in Rollbacks \ {r} : roll'[s] = roll[s]
         /\ UNCHANGED run
<1> USE DEF TypeOK, RollbackTypeOK, Rolls, LockStep, RollHolds, UpHolds, RollAt, RollGoto,
            RollEnds, RollExit, restart_if_active, NotRolling, RollbackLocked, Swapping
<1>1. CASE RollbackCheck(r)
  <2>1. PICK n \in all_snapshot_names :
              roll' = [roll EXCEPT ![r].pc = "confirm", ![r].chosen = n]
        BY <1>1 DEF RollbackCheck
  <2>2. roll'[r].pc = "confirm" /\ \A s \in Rollbacks \ {r} : roll'[s] = roll[s] BY <2>1
  <2>3. UNCHANGED <<stateVars, unitVars, run>> /\ roll[r].pc = "idle" BY <1>1 DEF RollbackCheck
  <2> QED BY <2>2, <2>3
<1>2. CASE RollbackConfirm(r) BY <1>2 DEF RollbackConfirm
<1>3. CASE RollbackStop(r) BY <1>3 DEF RollbackStop, StopUnit, Starting, Reloading
<1>4. CASE RollbackStopped(r) BY <1>4 DEF RollbackStopped
<1>5. CASE RollbackLock(r) BY <1>5 DEF RollbackLock
<1>6. CASE RollbackLockTimeout(r) BY <1>6 DEF RollbackLockTimeout
<1>7. CASE RollbackAsk(r) BY <1>7 DEF RollbackAsk
<1>8. CASE RollbackKeep(r) BY <1>8 DEF RollbackKeep
<1>9. CASE RollbackKeepConfig(r) BY <1>9 DEF RollbackKeepConfig
<1>10. CASE RollbackDelete(r) BY <1>10 DEF RollbackDelete
<1>11. CASE RollbackRecheck(r) BY <1>11 DEF RollbackRecheck
<1>12. CASE RollbackSwap(r) BY <1>12 DEF RollbackSwap
<1>13. CASE RollbackRelease(r) BY <1>13 DEF RollbackRelease
<1>14. CASE RollbackStart(r) BY <1>14 DEF RollbackStart, StartUnit
<1>15. CASE RollbackStarted(r) BY <1>15 DEF RollbackStarted
<1>16. CASE RollbackSignal(r) BY <1>16 DEF RollbackSignal
<1> QED BY <1>1, <1>2, <1>3, <1>4, <1>5, <1>6, <1>7, <1>8, <1>9, <1>10, <1>11, <1>12, <1>13,
           <1>14, <1>15, <1>16
        DEF RollbackStep, RollbackEnvironment

\* At the boot nobody is past the lock.
LEMMA InitLock == Init => LockHeld
BY DEF Init, UnitInit, SnapshotInit, RollbackInit, NotRunning, NotRolling, LockHeld, UpHolds,
       RunHolds, RollHolds, Trapped, RollbackLocked, Swapping

\* Every step leaves the lock with whoever is past it.
LEMMA NextLock == TypeOK /\ LockHeld /\ [Next]_vars => LockHeld'
<1> SUFFICES ASSUME TypeOK, LockHeld, [Next]_vars PROVE LockHeld'
    OBVIOUS
<1> USE ProcAssumption DEF LockHeld, LockStep, TakeLock, DropLock, Procs
<1>1. CASE (Units \/ UnitEnvironment) /\ UNCHANGED <<run, roll>>
      BY <1>1, UnitsOnLock DEF RunHolds, RollHolds
<1>2. ASSUME NEW p \in Snapshotters, SnapshotStep(p) \/ SnapshotEnvironment(p), UNCHANGED roll
      PROVE  LockHeld'
      BY <1>2, SnapshotOnLock DEF RunHolds, RollHolds, UpHolds
<1>3. ASSUME NEW r \in Rollbacks, RollbackStep(r) \/ RollbackEnvironment(r)
      PROVE  LockHeld'
      BY <1>3, RollbackOnLock DEF RunHolds, RollHolds
<1>4. CASE Tick BY <1>4 DEF Tick, UpHolds, RunHolds, RollHolds
<1>5. CASE PowerLoss
      BY <1>5 DEF PowerLoss, NotRunning, NotRolling, UpHolds, RunHolds, RollHolds, Trapped,
                  RollbackLocked, Swapping
<1>6. CASE UNCHANGED vars BY <1>6 DEF vars, UpHolds, RunHolds, RollHolds
<1> QED BY <1>1, <1>2, <1>3, <1>4, <1>5, <1>6 DEF Next, System, Environment

(***************************************************************************)
(* The data: no swap under containers, and every replaced world is kept.   *)
(***************************************************************************)
\* A rollback that has kept the data and not yet deleted it has its copy, and,
\* while it may still take the copy back, under a name no earlier rollback used.
DataIsKept ==
  \A r \in Rollbacks : roll[r].pc \in {"keepConfig", "delete"} =>
    LET kept == roll[r].kept IN
    /\ dir.kind = "subvolume"
    /\ kept[1] = "before" /\ snaps[kept] # Absent /\ snaps[kept].world = dir.world
    /\ roll[r].pc = "keepConfig" => \A e \in replaced : e[1] # kept

RollbackInv ==
  TypeOK /\ LockHeld /\ NeverSwapUnderContainers /\ DataIsKept /\ ReplacedDataKept

\* Where no container is and none is coming up, the units leave a data
\* directory that exists alone.  They never touch a snapshot.
LEMMA UnitsOnData ==
  ASSUME TypeOK, Units \/ UnitEnvironment
  PROVE  /\ UNCHANGED <<snaps, replaced>>
         /\ containers = "none" /\ ~UpHolds => containers' = "none"
         /\ containers = "none" /\ dir.kind = "subvolume" => dir' = dir
<1> USE DEF UpHolds, Exists
<1>1. CASE DataStep
      BY <1>1 DEF DataStep, DataStart, DataCheck, DataCreate, DataOwn, DataFails
<1>2. CASE UnitData BY <1>2 DEF UnitData
<1>3. CASE UnitLock BY <1>3 DEF UnitLock
<1>4. CASE UnitLockTimeout BY <1>4 DEF UnitLockTimeout
<1>5. CASE UnitUp BY <1>5 DEF UnitUp, BringUp
<1>6. CASE UnitUpFails BY <1>6 DEF UnitUpFails, BringUp
<1>7. CASE UnitDown BY <1>7 DEF UnitDown
<1>8. CASE DeployUnits BY <1>8 DEF DeployUnits
<1>9. CASE ContainerRestart BY <1>9 DEF ContainerRestart
<1>10. CASE OperatorStop BY <1>10 DEF OperatorStop, StopUnit, BringUp
<1>11. CASE OperatorStart BY <1>11 DEF OperatorStart
<1>12. CASE DeploySwitch \/ ContainerCrash \/ ContainerWrite
       BY <1>12 DEF DeploySwitch, ContainerCrash, ContainerWrite
<1> QED BY <1>1, <1>2, <1>3, <1>4, <1>5, <1>6, <1>7, <1>8, <1>9, <1>10, <1>11, <1>12
        DEF Units, UnitStep, UnitEnvironment

\* A snapshot run leaves the directory, the containers and every
\* before-rollback snapshot alone, also when it prunes.
LEMMA SnapshotOnData ==
  ASSUME TypeOK, NEW p \in Snapshotters, SnapshotStep(p) \/ SnapshotEnvironment(p)
  PROVE  /\ UNCHANGED <<dir, replaced, containers>>
         /\ \A n \in Names : n[1] = "before" => snaps'[n] = snaps[n]
<1> USE DEF TypeOK, StateTypeOK
<1>1. CASE SnapshotStart(p) BY <1>1 DEF SnapshotStart
<1>2. CASE SnapshotLock(p) BY <1>2 DEF SnapshotLock
<1>3. CASE SnapshotLockTimeout(p) BY <1>3 DEF SnapshotLockTimeout
<1>4. CASE SnapshotAsk(p) BY <1>4 DEF SnapshotAsk
<1>5. CASE SnapshotPre(p) BY <1>5 DEF SnapshotPre
<1>6. CASE SnapshotTake(p)
  <2>1. now(kindOf(p))[1] # "before" BY DEF now, kindOf
  <2> QED BY <1>6, <2>1 DEF SnapshotTake
<1>7. CASE SnapshotPost(p) BY <1>7 DEF SnapshotPost
<1>8. CASE SnapshotConfig(p) BY <1>8 DEF SnapshotConfig
<1>9. CASE SnapshotPrune(p)
  <2>1. \A n \in Excess : n[1] = "nightly" BY DEF Excess, snapshot_names
  <2> QED BY <1>9, <2>1 DEF SnapshotPrune
<1>10. CASE SnapshotTrap(p) BY <1>10 DEF SnapshotTrap
<1>11. CASE SnapshotExit(p) BY <1>11 DEF SnapshotExit
<1>12. CASE SnapshotSignal(p) BY <1>12 DEF SnapshotSignal
<1>13. CASE SnapshotKill(p) BY <1>13 DEF SnapshotKill
<1> QED BY <1>1, <1>2, <1>3, <1>4, <1>5, <1>6, <1>7, <1>8, <1>9, <1>10, <1>11, <1>12, <1>13
        DEF SnapshotStep, SnapshotEnvironment

\* At the boot no rollback runs and nothing has been replaced.
LEMMA InitData == Init => NeverSwapUnderContainers /\ DataIsKept /\ ReplacedDataKept
BY DEF Init, StateInit, UnitInit, SnapshotInit, RollbackInit, NotRolling,
       NeverSwapUnderContainers, DataIsKept, ReplacedDataKept, Swapping

\* The units, Docker and deploys touch no snapshot, and start no container
\* during a swap.
LEMMA UnitsKeepData ==
  ASSUME RollbackInv, Units \/ UnitEnvironment, UNCHANGED <<run, roll>>
  PROVE  NeverSwapUnderContainers' /\ DataIsKept' /\ ReplacedDataKept'
<1>1. \A r \in Rollbacks : roll[r].pc \in Swapping => ~UpHolds
      BY ProcAssumption DEF RollbackInv, LockHeld, RollHolds, RollbackLocked, Procs
<1> QED BY <1>1, UnitsOnData
        DEF RollbackInv, NeverSwapUnderContainers, DataIsKept, ReplacedDataKept, Swapping

\* A snapshot run adds a snapshot or prunes nightly ones, which no rollback kept.
LEMMA SnapshotKeepsData ==
  ASSUME RollbackInv, NEW p \in Snapshotters, SnapshotStep(p) \/ SnapshotEnvironment(p),
         UNCHANGED roll
  PROVE  NeverSwapUnderContainers' /\ DataIsKept' /\ ReplacedDataKept'
<1>1. \A e \in replaced : e[1] \in Names BY DEF RollbackInv, TypeOK, StateTypeOK
<1>2. \A r \in Rollbacks : roll[r].kept \in Names
      BY DEF RollbackInv, TypeOK, RollbackTypeOK, Rolls
<1>3. UNCHANGED <<dir, replaced, containers>>
      /\ \A n \in Names : n[1] = "before" => snaps'[n] = snaps[n]
      BY SnapshotOnData DEF RollbackInv
<1> QED BY <1>1, <1>2, <1>3
        DEF RollbackInv, NeverSwapUnderContainers, DataIsKept, ReplacedDataKept

\* The step that matters: a rollback keeps, deletes and swaps alone, since it
\* has the lock, and deletes only what it has kept.
LEMMA RollbackKeepsData ==
  ASSUME RollbackInv, NEW r \in Rollbacks, RollbackStep(r) \/ RollbackEnvironment(r)
  PROVE  NeverSwapUnderContainers' /\ DataIsKept' /\ ReplacedDataKept'
<1> DEFINE Alone == \A s \in Rollbacks \ {r} : roll[s].pc \notin Swapping
           Others == \A s \in Rollbacks \ {r} : roll'[s] = roll[s]
<1> USE DEF RollAt, RollGoto, RollEnds, RollExit, restart_if_active, NotRolling, Swapping
<1>1. roll \in [Rollbacks -> Rolls] /\ snaps \in [Names -> Snapshots \cup {Absent}]
      /\ replaced \subseteq Names \X Nat /\ \A e \in replaced : e[1] \in Names
      /\ \A s \in Rollbacks : roll[s].kept \in Names
      BY DEF RollbackInv, TypeOK, StateTypeOK, RollbackTypeOK, Rolls
<1>2. Others BY RollbackOnLock DEF RollbackInv
<1>3. ASSUME RollHolds(r) PROVE Alone
      BY <1>3 DEF RollbackInv, LockHeld, RollHolds, RollbackLocked
<1> USE <1>1, <1>2 DEF RollbackInv, NeverSwapUnderContainers, DataIsKept, ReplacedDataKept,
                      Rolls, RollHolds, RollbackLocked
\* Steps that leave the directory, the containers and the snapshots alone.
<1>4. ASSUME UNCHANGED <<dir, snaps, replaced, containers>>, roll'[r].pc \in Swapping =>
             \/ roll[r].pc \in Swapping /\ roll'[r].pc \in {roll[r].pc, "recheck", "swap"}
                  /\ roll'[r].kept = roll[r].kept
             \/ roll[r].pc = "keepConfig" /\ roll'[r].pc = "delete"
                  /\ roll'[r].kept = roll[r].kept
             \/ containers = "none" /\ roll'[r].pc = "keep"
      PROVE  NeverSwapUnderContainers' /\ DataIsKept' /\ ReplacedDataKept'
      BY <1>4
<1>5. CASE RollbackCheck(r)
  <2>1. PICK n \in all_snapshot_names :
              roll' = [roll EXCEPT ![r].pc = "confirm", ![r].chosen = n]
        BY <1>5 DEF RollbackCheck
  <2>2. roll'[r].pc = "confirm" BY <2>1
  <2>3. UNCHANGED <<stateVars, dockerVars>> BY <1>5 DEF RollbackCheck
  <2> QED BY <2>2, <2>3, <1>4
<1>6. CASE RollbackConfirm(r) BY <1>4, <1>6 DEF RollbackConfirm
<1>7. CASE RollbackStop(r)
  <2>1. \A s \in Rollbacks : roll[s].pc \in Swapping => unit \notin {"startUp", "reloadUp"}
        BY ProcAssumption DEF LockHeld, UpHolds, Procs
  <2> QED BY <1>7, <2>1 DEF RollbackStop, StopUnit, BringUp, Exists
<1>8. CASE RollbackStopped(r) BY <1>4, <1>8 DEF RollbackStopped
<1>9. CASE RollbackLock(r) BY <1>4, <1>9 DEF RollbackLock
<1>10. CASE RollbackLockTimeout(r) BY <1>4, <1>10 DEF RollbackLockTimeout
<1>11. CASE RollbackAsk(r) BY <1>4, <1>11 DEF RollbackAsk, DockerPs
<1>12. CASE RollbackKeep(r)
  <2>1. now("before") \in Names /\ now("before")[1] = "before" /\ Copy # Absent
        /\ Copy.world = dir.world
        BY NowType, CopyType, AbsentAssumption DEF now, Copy
  <2>2. Alone BY <1>3, <1>12 DEF RollbackKeep
  <2> QED BY <1>12, <2>1, <2>2 DEF RollbackKeep
<1>13. CASE RollbackKeepConfig(r)
  <2>1. Alone BY <1>3, <1>13 DEF RollbackKeepConfig
  <2>2. \A e \in replaced : e[1] # roll[r].kept BY <1>13 DEF RollbackKeepConfig
  <2> QED BY <1>13, <2>1, <2>2 DEF RollbackKeepConfig, copy_config
<1>14. CASE RollbackDelete(r)
  <2>1. Alone BY <1>3, <1>14 DEF RollbackDelete
  <2> QED BY <1>14, <2>1 DEF RollbackDelete
<1>15. CASE RollbackRecheck(r) BY <1>4, <1>15 DEF RollbackRecheck
<1>16. CASE RollbackSwap(r)
  <2>1. Alone BY <1>3, <1>16 DEF RollbackSwap
  <2> QED BY <1>16, <2>1 DEF RollbackSwap
<1>17. CASE RollbackRelease(r) BY <1>4, <1>17 DEF RollbackRelease
<1>18. CASE RollbackStart(r) BY <1>4, <1>18 DEF RollbackStart
<1>19. CASE RollbackStarted(r) BY <1>4, <1>19 DEF RollbackStarted
<1>20. CASE RollbackSignal(r) BY <1>4, <1>20 DEF RollbackSignal
<1> QED BY <1>5, <1>6, <1>7, <1>8, <1>9, <1>10, <1>11, <1>12, <1>13, <1>14, <1>15, <1>16,
           <1>17, <1>18, <1>19, <1>20
        DEF RollbackStep, RollbackEnvironment

\* Every step keeps what the rollbacks replaced, and their copies.
LEMMA NextData == RollbackInv /\ [Next]_vars => RollbackInv'
<1> SUFFICES ASSUME RollbackInv, [Next]_vars PROVE RollbackInv'
    OBVIOUS
<1> DEFINE Kept == NeverSwapUnderContainers /\ DataIsKept /\ ReplacedDataKept
<1>1. TypeOK' /\ LockHeld' BY NextType, NextLock DEF RollbackInv
<1>2. Kept'
  <2> USE DEF RollbackInv, NeverSwapUnderContainers, DataIsKept, ReplacedDataKept
  <2>1. CASE (Units \/ UnitEnvironment) /\ UNCHANGED <<run, roll>> BY <2>1, UnitsKeepData
  <2>2. CASE \E p \in Snapshotters :
               (SnapshotStep(p) \/ SnapshotEnvironment(p)) /\ UNCHANGED roll
        BY <2>2, SnapshotKeepsData
  <2>3. CASE \E r \in Rollbacks : RollbackStep(r) \/ RollbackEnvironment(r)
        BY <2>3, RollbackKeepsData
  <2>4. CASE Tick BY <2>4 DEF Tick
  <2>5. CASE PowerLoss BY <2>5 DEF PowerLoss, NotRolling, Swapping
  <2>6. CASE UNCHANGED vars BY <2>6 DEF vars
  <2> QED BY <2>1, <2>2, <2>3, <2>4, <2>5, <2>6 DEF Next, System, Environment
<1> QED BY <1>1, <1>2 DEF RollbackInv

\* RollbackInv is inductive.
THEOREM RollbackInvariant == Spec => []RollbackInv
<1>1. Init => RollbackInv BY InitType, InitLock, InitData DEF RollbackInv
<1> QED BY <1>1, NextData, PTL DEF Spec

\* Whatever fails, dies or runs at the same time, every world a rollback has
\* deleted is still in the before-rollback snapshot it was kept in: the design's
\* `a rollback deletes the data it replaces` cannot happen.
THEOREM ReplacedDataIsKept == Spec => []ReplacedDataKept
BY RollbackInvariant, PTL DEF RollbackInv

\* No container of the stack exists from the rollback's last look at Docker to
\* its release of the lock, whatever deploys, operators and the units do.
THEOREM NeverSwapsUnderContainers == Spec => []NeverSwapUnderContainers
BY RollbackInvariant, PTL DEF RollbackInv

(***************************************************************************)
(* The hooks: saving is never left off silently.                           *)
(***************************************************************************)
\* A step of the units leaves saving as it is, or the server (re)starts with it
\* on; the containers come up with it on.
LEMMA UnitsOnSaving ==
  ASSUME TypeOK, Units \/ UnitEnvironment
  PROVE  containers' = "up" /\ saving' = "off" => containers = "up" /\ saving = "off"
<1>1. CASE DataStep
      BY <1>1 DEF DataStep, DataStart, DataCheck, DataCreate, DataOwn, DataFails
<1>2. CASE UnitData BY <1>2 DEF UnitData
<1>3. CASE UnitLock BY <1>3 DEF UnitLock
<1>4. CASE UnitLockTimeout BY <1>4 DEF UnitLockTimeout
<1>5. CASE UnitUp BY <1>5 DEF UnitUp, BringUp
<1>6. CASE UnitUpFails BY <1>6 DEF UnitUpFails, BringUp
<1>7. CASE UnitDown BY <1>7 DEF UnitDown
<1>8. CASE DeployUnits BY <1>8 DEF DeployUnits
<1>9. CASE ContainerRestart BY <1>9 DEF ContainerRestart
<1>10. CASE OperatorStop BY <1>10 DEF OperatorStop, StopUnit, BringUp
<1>11. CASE OperatorStart BY <1>11 DEF OperatorStart
<1>12. CASE DeploySwitch \/ ContainerCrash \/ ContainerWrite
       BY <1>12 DEF DeploySwitch, ContainerCrash, ContainerWrite
<1> QED BY <1>1, <1>2, <1>3, <1>4, <1>5, <1>6, <1>7, <1>8, <1>9, <1>10, <1>11, <1>12
        DEF Units, UnitStep, UnitEnvironment

\* A rollback switches no saving off, and starts no container.
LEMMA RollbackOnSaving ==
  ASSUME TypeOK, NEW r \in Rollbacks, RollbackStep(r) \/ RollbackEnvironment(r)
  PROVE  containers' = "up" /\ saving' = "off" => containers = "up" /\ saving = "off"
BY DEF RollbackStep, RollbackEnvironment, RollbackCheck, RollbackConfirm, RollbackStop,
       StopUnit, BringUp, RollbackStopped, RollbackLock, RollbackLockTimeout, RollbackAsk,
       RollbackKeep, RollbackKeepConfig, RollbackDelete, RollbackRecheck, RollbackSwap,
       RollbackRelease, RollbackStart, RollbackStarted, RollbackSignal

\* The run that switched saving off, and has the lock.
Owing(p) == holder = p /\ run[p].pc \in Trapped /\ (run[p].owes \/ run[p].failed)

\* The post-command is owed before the pre-command runs.
HookOwed == \A p \in Snapshotters : run[p].pc = "pre" => run[p].owes

\* A run's step leaves saving off only if it owes the post-command, or will fail.
LEMMA SnapshotOnSaving ==
  ASSUME TypeOK, LockHeld, HookOwed, NEW p \in Snapshotters,
         SnapshotStep(p) \/ SnapshotEnvironment(p),
         containers' = "up", saving' = "off"
  PROVE  \/ Owing(p)'
         \/ containers = "up" /\ saving = "off" /\ ~Owing(p)
<1> USE DEF TypeOK, SnapshotTypeOK, Runs, LockHeld, RunHolds, Owing, At, Goto, Fail, Trapped
<1>1. CASE SnapshotStart(p) BY <1>1 DEF SnapshotStart
<1>2. CASE SnapshotLock(p) BY <1>2 DEF SnapshotLock
<1>3. CASE SnapshotLockTimeout(p) BY <1>3 DEF SnapshotLockTimeout
<1>4. CASE SnapshotAsk(p) BY <1>4 DEF SnapshotAsk
<1>5. CASE SnapshotPre(p) BY <1>5 DEF SnapshotPre, HookOwed
<1>6. CASE SnapshotTake(p) BY <1>6 DEF SnapshotTake
<1>7. CASE SnapshotPost(p) BY <1>7 DEF SnapshotPost, run_post
<1>8. CASE SnapshotConfig(p) BY <1>8 DEF SnapshotConfig
<1>9. CASE SnapshotPrune(p) BY <1>9 DEF SnapshotPrune
<1>10. CASE SnapshotTrap(p) BY <1>10 DEF SnapshotTrap, run_post
<1>11. CASE SnapshotExit(p) BY <1>11 DEF SnapshotExit, Alerted
<1>12. CASE SnapshotSignal(p) BY <1>12 DEF SnapshotSignal
<1>13. CASE SnapshotKill(p) BY <1>13 DEF SnapshotKill, Alerted
<1> QED BY <1>1, <1>2, <1>3, <1>4, <1>5, <1>6, <1>7, <1>8, <1>9, <1>10, <1>11, <1>12, <1>13
        DEF SnapshotStep, SnapshotEnvironment

\* Only SnapshotAsk leads to the pre-command, and it sets `hooked`.
LEMMA SnapshotOwes ==
  ASSUME TypeOK, HookOwed, NEW p \in Snapshotters, SnapshotStep(p) \/ SnapshotEnvironment(p)
  PROVE  HookOwed'
<1>1. \A q \in Snapshotters \ {p} : run'[q] = run[q] BY SnapshotOnLock
<1>2. run'[p].pc = "pre" => run'[p].owes
  BY DEF TypeOK, SnapshotTypeOK, Runs, HookOwed, At, Goto, Fail, SnapshotStep,
         SnapshotEnvironment, SnapshotStart, SnapshotLock, SnapshotLockTimeout, SnapshotAsk,
         SnapshotPre, SnapshotTake, SnapshotPost, run_post, SnapshotConfig, SnapshotPrune,
         SnapshotTrap, SnapshotExit, NotRunning, SnapshotSignal, SnapshotKill
<1> QED BY <1>1, <1>2 DEF HookOwed

SavingInv == TypeOK /\ LockHeld /\ HookOwed /\ SavingOffAccountedFor

\* Every step accounts for a server that runs with saving off.
LEMMA NextSaving == SavingInv /\ [Next]_vars => SavingInv'
<1> SUFFICES ASSUME SavingInv, [Next]_vars PROVE SavingInv'
    OBVIOUS
<1>1. TypeOK' /\ LockHeld' BY NextType, NextLock DEF SavingInv
<1>2. HookOwed' /\ SavingOffAccountedFor'
  <2> USE DEF SavingInv, HookOwed, SavingOffAccountedFor, Owing
  <2>1. CASE (Units \/ UnitEnvironment) /\ UNCHANGED <<run, roll>>
    <3>1. ASSUME NEW p \in Snapshotters, Owing(p) PROVE Owing(p)'
      <4>1. holder = p /\ ~UpHolds
            BY <3>1, ProcAssumption DEF LockHeld, RunHolds, Procs
      <4>2. holder' = p
            BY <2>1, <4>1, UnitsOnLock, ProcAssumption DEF LockStep, TakeLock, DropLock, Procs
      <4> QED BY <2>1, <3>1, <4>2
    <3> QED BY <2>1, <3>1, UnitsOnSaving
  <2>2. ASSUME NEW p \in Snapshotters, SnapshotStep(p) \/ SnapshotEnvironment(p), UNCHANGED roll
        PROVE  HookOwed' /\ SavingOffAccountedFor'
    <3>1. HookOwed' BY <2>2, SnapshotOwes
    <3>2. ASSUME NEW q \in Snapshotters \ {p}, Owing(q) PROVE Owing(q)'
      <4>1. holder' = q
            BY <2>2, <3>2, SnapshotOnLock, ProcAssumption DEF LockStep, TakeLock, DropLock, Procs
      <4> QED BY <2>2, <3>2, <4>1, SnapshotOnLock
    <3> QED BY <2>2, <3>1, <3>2, SnapshotOnSaving
  <2>3. ASSUME NEW r \in Rollbacks, RollbackStep(r) \/ RollbackEnvironment(r)
        PROVE  HookOwed' /\ SavingOffAccountedFor'
    <3>1. UNCHANGED run BY <2>3, RollbackOnLock
    <3>2. ASSUME NEW p \in Snapshotters, Owing(p) PROVE Owing(p)'
      <4>1. p # r /\ p # Unit /\ p # Free /\ ~UpHolds
            BY <3>2, ProcAssumption DEF LockHeld, Procs
      <4>2. holder' = p
            BY <2>3, <3>2, <4>1, RollbackOnLock DEF LockStep, TakeLock, DropLock
      <4> QED BY <3>1, <3>2, <4>2
    <3> QED BY <2>3, <3>1, <3>2, RollbackOnSaving
  <2>4. CASE Tick BY <2>4 DEF Tick
  <2>5. CASE PowerLoss BY <2>5 DEF PowerLoss, NotRunning
  <2>6. CASE UNCHANGED vars BY <2>6 DEF vars
  <2> QED BY <2>1, <2>2, <2>3, <2>4, <2>5, <2>6 DEF Next, System, Environment
<1> QED BY <1>1, <1>2 DEF SavingInv

\* Whatever hook fails, whatever script is stopped or killed, a running server
\* whose saving is off is between the hooks of the run with the lock, or that
\* run will fail and say so, or one has.
THEOREM SavingIsAccountedFor == Spec => []SavingOffAccountedFor
<1>1. Init => SavingInv
  <2>1. Init => HookOwed /\ SavingOffAccountedFor
        BY DEF Init, UnitInit, SnapshotInit, NotRunning, HookOwed, SavingOffAccountedFor
  <2> QED BY <2>1, InitType, InitLock DEF SavingInv
<1> QED BY <1>1, NextSaving, PTL DEF Spec, SavingInv

(***************************************************************************)
(* The refinement: the programs implement StackVault.                      *)
(***************************************************************************)
\* The vault of ImplementsVault.
Kept == [n \in Names |-> IF snaps[n] = Absent THEN Absent ELSE snaps[n].world]

\* No world is newer than the last one written, so a write is a new one.
NoNewerWorld ==
  /\ dir.world <= written
  /\ \A n \in Names : snaps[n] # Absent => snaps[n].world <= written

VaultInv == RollbackInv /\ NoNewerWorld

\* The units and Docker make an empty directory where there is none, and write.
LEMMA UnitsOnWorlds ==
  ASSUME TypeOK, Units \/ UnitEnvironment
  PROVE  /\ UNCHANGED snaps
         /\ \/ UNCHANGED <<dir, written>>
            \/ ~Exists /\ Exists' /\ dir'.world = 0 /\ UNCHANGED written
            \/ Exists /\ Exists' /\ written' = written + 1 /\ dir'.world = written'
<1> USE DEF Exists, TypeOK, StateTypeOK, Directories
<1>1. CASE DataStep
      BY <1>1 DEF DataStep, DataStart, DataCheck, DataCreate, DataOwn, DataFails
<1>2. CASE UnitData BY <1>2 DEF UnitData
<1>3. CASE UnitLock BY <1>3 DEF UnitLock
<1>4. CASE UnitLockTimeout BY <1>4 DEF UnitLockTimeout
<1>5. CASE UnitUp BY <1>5 DEF UnitUp, BringUp
<1>6. CASE UnitUpFails BY <1>6 DEF UnitUpFails, BringUp
<1>7. CASE UnitDown BY <1>7 DEF UnitDown
<1>8. CASE DeployUnits BY <1>8 DEF DeployUnits
<1>9. CASE ContainerRestart BY <1>9 DEF ContainerRestart
<1>10. CASE OperatorStop BY <1>10 DEF OperatorStop, StopUnit, BringUp
<1>11. CASE OperatorStart BY <1>11 DEF OperatorStart
<1>12. CASE ContainerWrite BY <1>12 DEF ContainerWrite
<1>13. CASE DeploySwitch \/ ContainerCrash BY <1>13 DEF DeploySwitch, ContainerCrash
<1> QED BY <1>1, <1>2, <1>3, <1>4, <1>5, <1>6, <1>7, <1>8, <1>9, <1>10, <1>11, <1>12, <1>13
        DEF Units, UnitStep, UnitEnvironment

\* A snapshot run copies the directory under a free name, or prunes.
LEMMA SnapshotOnWorlds ==
  ASSUME TypeOK, NEW p \in Snapshotters, SnapshotStep(p) \/ SnapshotEnvironment(p)
  PROVE  /\ UNCHANGED <<dir, written>>
         /\ \/ UNCHANGED snaps
            \/ Exists /\ \E n \in Names : snaps[n] = Absent /\ snaps' = [snaps EXCEPT ![n] = Copy]
            \/ \E n \in Excess : snaps' = [snaps EXCEPT ![n] = Absent]
<1>1. CASE SnapshotStart(p) BY <1>1 DEF SnapshotStart
<1>2. CASE SnapshotLock(p) BY <1>2 DEF SnapshotLock
<1>3. CASE SnapshotLockTimeout(p) BY <1>3 DEF SnapshotLockTimeout
<1>4. CASE SnapshotAsk(p) BY <1>4 DEF SnapshotAsk
<1>5. CASE SnapshotPre(p) BY <1>5 DEF SnapshotPre
<1>6. CASE SnapshotTake(p)
  <2>1. now(kindOf(p)) \in Names BY NowType DEF kindOf
  <2> QED BY <1>6, <2>1 DEF SnapshotTake, Exists
<1>7. CASE SnapshotPost(p) BY <1>7 DEF SnapshotPost
<1>8. CASE SnapshotConfig(p) BY <1>8 DEF SnapshotConfig
<1>9. CASE SnapshotPrune(p) BY <1>9 DEF SnapshotPrune
<1>10. CASE SnapshotTrap(p) BY <1>10 DEF SnapshotTrap
<1>11. CASE SnapshotExit(p) BY <1>11 DEF SnapshotExit
<1>12. CASE SnapshotSignal(p) BY <1>12 DEF SnapshotSignal
<1>13. CASE SnapshotKill(p) BY <1>13 DEF SnapshotKill
<1> QED BY <1>1, <1>2, <1>3, <1>4, <1>5, <1>6, <1>7, <1>8, <1>9, <1>10, <1>11, <1>12, <1>13
        DEF SnapshotStep, SnapshotEnvironment

\* A rollback keeps, takes back what it kept, deletes what it kept, or puts a
\* kept world where there is none.
RollbackMoves(r) ==
  LET kept == roll[r].kept
      from == snaps[roll[r].chosen]
  IN
  \/ UNCHANGED <<dir, snaps>>
  \/ /\ Exists /\ UNCHANGED dir
     /\ \E n \in Names : snaps[n] = Absent /\ snaps' = [snaps EXCEPT ![n] = Copy]
  \/ /\ roll[r].pc \in {"keepConfig", "delete"}
     /\ \/ UNCHANGED dir /\ snaps' = [snaps EXCEPT ![kept] = Absent]
        \/ UNCHANGED snaps /\ Exists /\ ~Exists' /\ dir'.world = 0
  \/ /\ ~Exists /\ Exists' /\ UNCHANGED snaps
     /\ \/ dir'.world = 0
        \/ from # Absent /\ dir'.world = from.world

\* A rollback keeps the worlds, as every step of the unit does.
LEMMA RollbackOnWorlds ==
  ASSUME TypeOK, NEW r \in Rollbacks, RollbackStep(r) \/ RollbackEnvironment(r)
  PROVE  RollbackMoves(r) /\ UNCHANGED written
<1> USE DEF RollbackMoves, RollAt, Exists
<1>1. CASE RollbackStop(r) BY <1>1 DEF RollbackStop, StopUnit, BringUp
<1>2. CASE RollbackKeep(r)
  <2>1. now("before") \in Names BY NowType
  <2> QED BY <1>2, <2>1 DEF RollbackKeep
<1>3. CASE RollbackKeepConfig(r) BY <1>3 DEF RollbackKeepConfig
<1>4. CASE RollbackDelete(r) BY <1>4 DEF RollbackDelete
<1>5. CASE RollbackSwap(r) BY <1>5 DEF RollbackSwap, Swapped
<1>6. CASE RollbackCheck(r) \/ RollbackConfirm(r) \/ RollbackSignal(r) \/ RollbackStopped(r)
           \/ RollbackLock(r) \/ RollbackLockTimeout(r) \/ RollbackAsk(r) \/ RollbackRecheck(r)
           \/ RollbackRelease(r) \/ RollbackStart(r) \/ RollbackStarted(r)
  BY <1>6 DEF RollbackCheck, RollbackConfirm, RollbackSignal, RollbackStopped, RollbackLock,
              RollbackLockTimeout, RollbackAsk, RollbackRecheck, RollbackRelease, RollbackStart,
              RollbackStarted
<1> QED BY <1>1, <1>2, <1>3, <1>4, <1>5, <1>6 DEF RollbackStep, RollbackEnvironment

\* No step makes a world newer than the last one written.
LEMMA NextWorlds == ASSUME TypeOK, NoNewerWorld, [Next]_vars PROVE NoNewerWorld'
<1> USE DEF NoNewerWorld, TypeOK, StateTypeOK, Directories, Snapshots
<1>1. CASE Units \/ UnitEnvironment BY <1>1, UnitsOnWorlds
<1>2. ASSUME NEW p \in Snapshotters, SnapshotStep(p) \/ SnapshotEnvironment(p)
      PROVE  NoNewerWorld'
  <2>1. Excess \subseteq Names BY DEF Excess, snapshot_names, all_snapshot_names
  <2>2. Copy.world = dir.world BY DEF Copy
  <2> QED BY <1>2, <2>1, <2>2, SnapshotOnWorlds
<1>3. ASSUME NEW r \in Rollbacks, RollbackStep(r) \/ RollbackEnvironment(r)
      PROVE  NoNewerWorld'
  <2>1. roll[r].kept \in Names /\ roll[r].chosen \in Names
        BY DEF RollbackTypeOK, Rolls
  <2> QED BY <1>3, <2>1, RollbackOnWorlds DEF RollbackMoves, Copy
<1>4. CASE Tick \/ PowerLoss \/ UNCHANGED vars BY <1>4 DEF Tick, PowerLoss, vars
<1> QED BY <1>1, <1>2, <1>3, <1>4 DEF Next, System, Environment

\* A nightly snapshot in excess has at least Keep newer ones in the vault.
LEMMA ExcessIsOld ==
  ASSUME TypeOK, NEW n \in Excess
  PROVE  /\ n \in Names /\ n[1] = "nightly" /\ Kept[n] # Absent
         /\ Cardinality({t \in Times : t > n[2] /\ Kept[<<"nightly", t>>] # Absent}) >= Keep
<1> DEFINE Newer == {m \in snapshot_names : m[2] > n[2]}
           Later == {t \in Times : t > n[2] /\ Kept[<<"nightly", t>>] # Absent}
           time == [m \in Newer |-> m[2]]
<1>1. \A m \in all_snapshot_names : m \in Names /\ Kept[m] # Absent
      BY AbsentAssumption DEF all_snapshot_names, Kept, TypeOK, StateTypeOK, Snapshots
<1>2. n \in snapshot_names /\ Cardinality(Newer) >= Keep BY DEF Excess
<1>3. \A m \in snapshot_names : m = <<"nightly", m[2]>> /\ m[2] \in Times
      BY <1>1 DEF snapshot_names, Names
<1>4. Times \subseteq 0..MaxClock /\ Later \subseteq Times BY DEF Times
<1>5. IsFiniteSet(Later) /\ Cardinality(Later) \in Nat
  <2>1. IsFiniteSet(0..MaxClock) BY FS_Interval, BoundAssumption
  <2> QED BY <1>4, <2>1, FS_Subset, FS_CardinalityType
<1>6. time \in Injection(Newer, Later)
  <2>1. \A m \in Newer : time[m] \in Later BY <1>1, <1>3 DEF snapshot_names
  <2>2. \A a, b \in Newer : time[a] = time[b] => a = b BY <1>3
  <2> QED BY <2>1, <2>2 DEF Injection, IsInjective
<1>7. Cardinality(Newer) <= Cardinality(Later) /\ Cardinality(Newer) \in Nat
      BY <1>5, <1>6, FS_Injection, FS_CardinalityType
<1>8. Cardinality(Later) >= Keep BY <1>2, <1>5, <1>7, BoundAssumption
<1> QED BY <1>1, <1>2, <1>8 DEF snapshot_names

\* The vault before and after a step, name by name.
LEMMA KeptAt ==
  ASSUME TypeOK, TypeOK'
  PROVE  /\ \A n \in Names : Kept[n] = Absent <=> snaps[n] = Absent
         /\ UNCHANGED snaps => UNCHANGED Kept
         /\ \A n \in Names : snaps' = [snaps EXCEPT ![n] = Copy] =>
              Kept' = [Kept EXCEPT ![n] = dir.world]
         /\ \A n \in Names : snaps' = [snaps EXCEPT ![n] = Absent] =>
              Kept' = [Kept EXCEPT ![n] = Absent]
<1> USE AbsentAssumption DEF Kept, TypeOK, StateTypeOK
<1>1. \A n \in Names : Kept[n] = Absent <=> snaps[n] = Absent BY DEF Snapshots
<1>2. UNCHANGED snaps => UNCHANGED Kept OBVIOUS
<1>3. ASSUME NEW n \in Names, snaps' = [snaps EXCEPT ![n] = Copy]
      PROVE  Kept' = [Kept EXCEPT ![n] = dir.world]
      BY <1>3, CopyType DEF Copy
<1>4. ASSUME NEW n \in Names, snaps' = [snaps EXCEPT ![n] = Absent]
      PROVE  Kept' = [Kept EXCEPT ![n] = Absent]
      BY <1>4
<1> QED BY <1>1, <1>2, <1>3, <1>4

\* Each step of the programs is one of the abstract specification, or none.
LEMMA NextImplements ==
  ASSUME VaultInv, TypeOK', [Next]_vars
  PROVE  [Vault!VaultNext]_(Vault!vaultVars)
<1>1. TypeOK /\ dir.world \in Nat /\ dir'.world \in Nat /\ written \in Nat
      BY DEF VaultInv, RollbackInv, TypeOK, StateTypeOK, Directories
<1>2. Vault!VaultNames = Names BY DEF Vault!VaultNames, Names
<1> USE <1>1, <1>2, AbsentAssumption
<1>3. ASSUME UNCHANGED <<dir, snaps>> PROVE UNCHANGED Vault!vaultVars
      BY <1>3, KeptAt DEF Vault!vaultVars, Exists, Kept
<1>4. ASSUME UNCHANGED snaps, ~Exists, Exists', dir'.world = 0 PROVE Vault!Blank
      BY <1>4, KeptAt DEF Vault!Blank, Kept
<1>5. ASSUME UNCHANGED dir, Exists, NEW n \in Names, snaps[n] = Absent,
             snaps' = [snaps EXCEPT ![n] = Copy]
      PROVE  Vault!Archive(n)
      BY <1>5, KeptAt DEF Vault!Archive, Kept, Exists
<1>6. CASE Units \/ UnitEnvironment
  <2>1. ASSUME UNCHANGED snaps, Exists, Exists', written' = written + 1, dir'.world = written'
        PROVE  Vault!Write
    <3>1. dir'.world > dir.world BY <2>1 DEF VaultInv, NoNewerWorld
    <3>2. UNCHANGED Kept BY <2>1, KeptAt
    <3> QED BY <2>1, <3>1, <3>2 DEF Vault!Write, Kept
  <2> QED BY <1>3, <1>4, <1>6, <2>1, UnitsOnWorlds DEF Vault!VaultNext
<1>7. ASSUME NEW p \in Snapshotters, SnapshotStep(p) \/ SnapshotEnvironment(p)
      PROVE  [Vault!VaultNext]_(Vault!vaultVars)
  <2>1. ASSUME NEW n \in Excess, UNCHANGED dir, snaps' = [snaps EXCEPT ![n] = Absent]
        PROVE  Vault!Prune(n)
    <3>1. \A S : Vault!Cardinality(S) = Cardinality(S) BY DEF Vault!Cardinality, Cardinality
    <3>2. /\ n \in Names /\ n[1] = "nightly" /\ Kept[n] # Absent
          /\ Cardinality({t \in Times : t > n[2] /\ Kept[<<"nightly", t>>] # Absent}) >= Keep
          BY ExcessIsOld
    <3>3. Kept' = [Kept EXCEPT ![n] = Absent] BY <2>1, <3>2, KeptAt
    <3> QED BY <2>1, <3>1, <3>2, <3>3 DEF Vault!Prune, Kept, Exists
  <2>2. Excess \subseteq Names BY DEF Excess, snapshot_names, all_snapshot_names
  <2> QED BY <1>3, <1>5, <1>7, <2>1, <2>2, SnapshotOnWorlds DEF Vault!VaultNext
<1>8. ASSUME NEW r \in Rollbacks, RollbackStep(r) \/ RollbackEnvironment(r)
      PROVE  [Vault!VaultNext]_(Vault!vaultVars)
  <2>1. PICK kept \in Names, chosen \in Names : kept = roll[r].kept /\ chosen = roll[r].chosen
        BY DEF VaultInv, RollbackInv, TypeOK, RollbackTypeOK, Rolls
  <2>2. ASSUME roll[r].pc \in {"keepConfig", "delete"}
        PROVE  Exists /\ kept[1] = "before" /\ Kept[kept] = dir.world
        BY <2>1, <2>2 DEF VaultInv, RollbackInv, DataIsKept, Exists, Kept
  <2>3. ASSUME roll[r].pc \in {"keepConfig", "delete"}, UNCHANGED dir,
               snaps' = [snaps EXCEPT ![kept] = Absent]
        PROVE  Vault!Abandon(kept)
        BY <2>1, <2>2, <2>3, KeptAt DEF Vault!Abandon, Kept, Exists
  <2>4. ASSUME roll[r].pc \in {"keepConfig", "delete"}, UNCHANGED snaps, ~Exists'
        PROVE  Vault!Remove(kept)
        BY <2>1, <2>2, <2>4, KeptAt DEF Vault!Remove, Kept
  <2>5. ASSUME ~Exists, Exists', UNCHANGED snaps, snaps[chosen] # Absent,
               dir'.world = snaps[chosen].world
        PROVE  Vault!Restore(chosen)
        BY <2>1, <2>5, KeptAt DEF Vault!Restore, Kept
  <2>6. CASE UNCHANGED <<dir, snaps>> BY <1>3, <2>6
  <2>7. ASSUME UNCHANGED dir, Exists, NEW n \in Names, snaps[n] = Absent,
               snaps' = [snaps EXCEPT ![n] = Copy]
        PROVE  Vault!VaultNext
        BY <1>5, <2>7 DEF Vault!VaultNext
  <2>8. RollbackMoves(r) BY <1>8, RollbackOnWorlds
  <2>9. CASE roll[r].pc \in {"keepConfig", "delete"}
             /\ \/ UNCHANGED dir /\ snaps' = [snaps EXCEPT ![kept] = Absent]
                \/ UNCHANGED snaps /\ Exists /\ ~Exists' /\ dir'.world = 0
        BY <2>3, <2>4, <2>9 DEF Vault!VaultNext
  <2>10. CASE /\ ~Exists /\ Exists' /\ UNCHANGED snaps
              /\ \/ dir'.world = 0
                 \/ snaps[chosen] # Absent /\ dir'.world = snaps[chosen].world
         BY <1>4, <2>1, <2>5, <2>10 DEF Vault!VaultNext
  <2> QED BY <2>1, <2>6, <2>7, <2>8, <2>9, <2>10 DEF RollbackMoves
<1>9. CASE Tick \/ PowerLoss \/ UNCHANGED vars BY <1>3, <1>9 DEF Tick, PowerLoss, vars
<1> QED BY <1>6, <1>7, <1>8, <1>9 DEF Next, System, Environment

\* The programs implement the vault: whatever fails, dies or runs at the same
\* time, and for any number of runs and rollbacks, the live data goes only when
\* a before-rollback copy of it is kept, and a kept copy goes only by pruning or
\* with the rollback that made it and deleted nothing.
THEOREM VaultIsImplemented == Spec => ImplementsVault
<1>1. Init => VaultInv /\ Vault!VaultInit
  <2>1. Init => RollbackInv BY InitType, InitLock, InitData DEF RollbackInv
  <2>2. Init => NoNewerWorld /\ Vault!VaultInit
        BY DEF Init, StateInit, NoNewerWorld, Vault!VaultInit, Vault!VaultNames, Names, Exists
  <2> QED BY <2>1, <2>2 DEF VaultInv
<1>2. VaultInv /\ [Next]_vars => VaultInv' /\ [Vault!VaultNext]_(Vault!vaultVars)
  <2> SUFFICES ASSUME VaultInv, [Next]_vars
               PROVE  VaultInv' /\ [Vault!VaultNext]_(Vault!vaultVars)
      OBVIOUS
  <2>1. RollbackInv' /\ TypeOK' BY NextData DEF VaultInv, RollbackInv
  <2>2. NoNewerWorld' BY NextWorlds DEF VaultInv, RollbackInv
  <2> QED BY <2>1, <2>2, NextImplements DEF VaultInv
<1> QED BY <1>1, <1>2, PTL DEF Spec, ImplementsVault, Vault!VaultSpec

(***************************************************************************)
(* Sound snapshots, while no container dies or restarts.                   *)
(***************************************************************************)
\* Nothing restarts a container: up, or not there.
NoRestarts == Events \cap {"crash", "powerLoss"} = {}

\* A run that is about to take its snapshot has the server quiet.
QuietTake ==
  \A p \in Snapshotters : run[p].pc = "take" => containers = "none" \/ saving # "on"

QuietInv == RollbackInv /\ containers # "restarting" /\ QuietTake /\ NoTornSnapshot

\* The units start no container while a process has the lock, and change saving
\* only by starting or removing them.
LEMMA UnitsOnQuiet ==
  ASSUME TypeOK, NoRestarts, containers # "restarting", Units \/ UnitEnvironment
  PROVE  /\ containers' # "restarting"
         /\ ~UpHolds => containers' = "none" \/ UNCHANGED dockerVars
<1> USE DEF UpHolds, NoRestarts
<1>1. CASE DataStep
      BY <1>1 DEF DataStep, DataStart, DataCheck, DataCreate, DataOwn, DataFails
<1>2. CASE UnitData BY <1>2 DEF UnitData
<1>3. CASE UnitLock BY <1>3 DEF UnitLock
<1>4. CASE UnitLockTimeout BY <1>4 DEF UnitLockTimeout
<1>5. CASE UnitUp BY <1>5 DEF UnitUp, BringUp
<1>6. CASE UnitUpFails BY <1>6 DEF UnitUpFails, BringUp
<1>7. CASE UnitDown BY <1>7 DEF UnitDown
<1>8. CASE DeployUnits BY <1>8 DEF DeployUnits
<1>9. CASE ContainerRestart BY <1>9 DEF ContainerRestart
<1>10. CASE OperatorStop BY <1>10 DEF OperatorStop, StopUnit, BringUp
<1>11. CASE OperatorStart BY <1>11 DEF OperatorStart
<1>12. CASE DeploySwitch \/ ContainerCrash \/ ContainerWrite
       BY <1>12 DEF DeploySwitch, ContainerCrash, ContainerWrite
<1> QED BY <1>1, <1>2, <1>3, <1>4, <1>5, <1>6, <1>7, <1>8, <1>9, <1>10, <1>11, <1>12
        DEF Units, UnitStep, UnitEnvironment

\* A run switches saving on only past the lock; and it gets to its snapshot with
\* the server quiet, by the hook or because none runs.
LEMMA SnapshotOnQuiet ==
  ASSUME TypeOK, containers # "restarting", NEW p \in Snapshotters,
         SnapshotStep(p) \/ SnapshotEnvironment(p)
  PROVE  /\ UNCHANGED containers
         /\ ~RunHolds(p) /\ saving # "on" => saving' # "on"
         /\ run'[p].pc = "take" =>
              \/ containers = "none" \/ saving' # "on"
              \/ run[p].pc = "take" /\ UNCHANGED saving
<1> USE DEF TypeOK, UnitTypeOK, SnapshotTypeOK, Runs, RunHolds, At, Goto, Fail, Trapped
<1>1. CASE SnapshotStart(p) BY <1>1 DEF SnapshotStart
<1>2. CASE SnapshotLock(p) BY <1>2 DEF SnapshotLock
<1>3. CASE SnapshotLockTimeout(p) BY <1>3 DEF SnapshotLockTimeout
<1>4. CASE SnapshotAsk(p) BY <1>4 DEF SnapshotAsk, ComposePsRunning
<1>5. CASE SnapshotPre(p) BY <1>5 DEF SnapshotPre
<1>6. CASE SnapshotTake(p) BY <1>6 DEF SnapshotTake
<1>7. CASE SnapshotPost(p) BY <1>7 DEF SnapshotPost, run_post
<1>8. CASE SnapshotConfig(p) BY <1>8 DEF SnapshotConfig
<1>9. CASE SnapshotPrune(p) BY <1>9 DEF SnapshotPrune
<1>10. CASE SnapshotTrap(p) BY <1>10 DEF SnapshotTrap, run_post
<1>11. CASE SnapshotExit(p) BY <1>11 DEF SnapshotExit, NotRunning, Alerted
<1>12. CASE SnapshotSignal(p) BY <1>12 DEF SnapshotSignal
<1>13. CASE SnapshotKill(p) BY <1>13 DEF SnapshotKill, NotRunning, Alerted
<1> QED BY <1>1, <1>2, <1>3, <1>4, <1>5, <1>6, <1>7, <1>8, <1>9, <1>10, <1>11, <1>12, <1>13
        DEF SnapshotStep, SnapshotEnvironment

\* A snapshot that a run adds is of a quiet server, when the run found it so.
LEMMA SnapshotOnTorn ==
  ASSUME TypeOK, NoTornSnapshot, NEW p \in Snapshotters,
         SnapshotStep(p) \/ SnapshotEnvironment(p), run[p].pc = "take" => ~Copy.torn
  PROVE  NoTornSnapshot'
<1> USE DEF TypeOK, StateTypeOK, NoTornSnapshot, all_snapshot_names
<1>1. CASE SnapshotTake(p)
  <2>1. Copy \in Snapshots BY CopyType
  <2> QED BY <1>1, <2>1 DEF SnapshotTake, At
<1>2. CASE SnapshotPrune(p) BY <1>2 DEF SnapshotPrune
<1>3. CASE UNCHANGED snaps BY <1>3
<1> QED BY <1>1, <1>2, <1>3
        DEF SnapshotStep, SnapshotEnvironment, SnapshotStart, SnapshotLock, SnapshotLockTimeout,
            SnapshotAsk, SnapshotPre, SnapshotPost, SnapshotConfig, SnapshotTrap, SnapshotExit,
            SnapshotSignal, SnapshotKill

\* A rollback keeps what it keeps with no container there; its stop starts no
\* container unless an `up` was under way.
LEMMA RollbackOnQuiet ==
  ASSUME RollbackInv, containers # "restarting", NoTornSnapshot, NEW r \in Rollbacks,
         RollbackStep(r) \/ RollbackEnvironment(r)
  PROVE  /\ containers' # "restarting"
         /\ ~UpHolds => UNCHANGED dockerVars
         /\ NoTornSnapshot'
<1> USE DEF RollbackInv, TypeOK, StateTypeOK, NoTornSnapshot, all_snapshot_names
<1>1. CASE RollbackStop(r) BY <1>1 DEF RollbackStop, StopUnit, BringUp, UpHolds
<1>2. CASE RollbackKeep(r)
  <2>1. containers = "none"
        BY <1>2 DEF RollbackKeep, RollAt, NeverSwapUnderContainers, Swapping
  <2>2. ~Copy.torn /\ Copy \in Snapshots BY <2>1, CopyType DEF Copy
  <2> QED BY <1>2, <2>2 DEF RollbackKeep
<1>3. CASE RollbackKeepConfig(r) BY <1>3 DEF RollbackKeepConfig
<1>4. CASE UNCHANGED <<snaps, dockerVars>> BY <1>4
<1> QED BY <1>1, <1>2, <1>3, <1>4
        DEF RollbackStep, RollbackEnvironment, RollbackCheck, RollbackConfirm, RollbackSignal,
            RollbackStopped, RollbackLock, RollbackLockTimeout, RollbackAsk, RollbackDelete,
            RollbackRecheck, RollbackSwap, RollbackRelease, RollbackStart, RollbackStarted

\* Without restarts every step leaves the snapshots of a quiet server.
LEMMA NextQuiet == ASSUME NoRestarts, QuietInv, [Next]_vars PROVE QuietInv'
<1> USE DEF QuietInv
<1>1. RollbackInv' BY NextData
<1>2. TypeOK /\ LockHeld BY DEF RollbackInv
<1>3. ASSUME NEW p \in Snapshotters, run[p].pc = "take" PROVE holder = p /\ ~UpHolds
      BY <1>2, <1>3, ProcAssumption DEF LockHeld, RunHolds, Trapped, Procs
<1>4. CASE (Units \/ UnitEnvironment) /\ UNCHANGED <<run, roll>>
  <2>1. NoTornSnapshot' BY <1>2, <1>4, UnitsOnData DEF NoTornSnapshot, all_snapshot_names
  <2> QED BY <1>1, <1>2, <1>3, <1>4, <2>1, UnitsOnQuiet DEF QuietTake
<1>5. ASSUME NEW p \in Snapshotters, SnapshotStep(p) \/ SnapshotEnvironment(p), UNCHANGED roll
      PROVE  QuietInv'
  <2>1. UNCHANGED containers /\ \A q \in Snapshotters \ {p} : run'[q] = run[q]
        BY <1>2, <1>5, SnapshotOnQuiet, SnapshotOnLock
  <2>2. ASSUME NEW q \in Snapshotters \ {p}, run[q].pc = "take"
        PROVE  containers = "none" \/ saving' # "on"
        BY <1>2, <1>3, <1>5, <2>2, SnapshotOnQuiet DEF LockHeld, QuietTake
  <2>3. run'[p].pc = "take" => containers = "none" \/ saving' # "on"
        BY <1>2, <1>5, SnapshotOnQuiet DEF QuietTake
  <2>4. QuietTake' BY <2>1, <2>2, <2>3 DEF QuietTake
  <2>5. NoTornSnapshot' BY <1>2, <1>5, SnapshotOnTorn DEF QuietTake, Copy
  <2> QED BY <1>1, <2>1, <2>4, <2>5
<1>6. ASSUME NEW r \in Rollbacks, RollbackStep(r) \/ RollbackEnvironment(r)
      PROVE  QuietInv'
  <2>1. UNCHANGED run BY <1>2, <1>6, RollbackOnLock
  <2> QED BY <1>1, <1>3, <1>6, <2>1, RollbackOnQuiet DEF QuietTake
<1>7. CASE Tick \/ UNCHANGED vars
      BY <1>1, <1>7 DEF Tick, vars, QuietTake, NoTornSnapshot, all_snapshot_names
<1> QED BY <1>4, <1>5, <1>6, <1>7 DEF Next, System, Environment, PowerLoss, NoRestarts

\* While no container dies and no power is lost, no snapshot is of a running
\* server that had saving on, whatever hook or command fails and whatever
\* script is stopped or killed.
THEOREM NoSnapshotIsTorn == NoRestarts => (Spec => []NoTornSnapshot)
<1> SUFFICES ASSUME NoRestarts PROVE Spec => []NoTornSnapshot
    OBVIOUS
<1>1. Init => QuietInv
  <2>1. Init => RollbackInv BY InitType, InitLock, InitData DEF RollbackInv
  <2>2. Init => containers # "restarting" /\ QuietTake /\ NoTornSnapshot
        BY DEF Init, StateInit, UnitInit, SnapshotInit, NotRunning, QuietTake, NoTornSnapshot,
               all_snapshot_names
  <2> QED BY <2>1, <2>2 DEF QuietInv
<1>2. QuietInv /\ [Next]_vars => QuietInv' BY NextQuiet
<1>3. QuietInv => NoTornSnapshot BY DEF QuietInv
<1> QED BY <1>1, <1>2, <1>3, PTL DEF Spec

(***************************************************************************)
(* Whole snapshots, while no script is cut short between its two halves.   *)
(***************************************************************************)
\* No command fails but the hooks, and no script is stopped or killed.
NoCuts == Events \cap {"failure", "signal", "kill", "powerLoss"} = {}

\* The process that has made the snapshot n, and is about to save its
\* configuration.
Halfway(n) ==
  \/ \E p \in Snapshotters : run[p].pc \in {"post", "config"} /\ run[p].name = n
  \/ \E r \in Rollbacks : roll[r].pc = "keepConfig" /\ roll[r].kept = n

Whole(n) == snaps[n] = Absent <=> cfgs[n] = Absent

\* What is not whole is half-way, and what is half-way is there.
HalvesKnown ==
  \A n \in Names : (Whole(n) \/ Halfway(n)) /\ (Halfway(n) => snaps[n] # Absent)

WholeInv == RollbackInv /\ HalvesKnown

\* The units touch neither half of a snapshot.
LEMMA UnitsOnHalves ==
  ASSUME TypeOK, Units \/ UnitEnvironment
  PROVE  UNCHANGED <<snaps, cfgs>>
<1> USE DEF UnitUp, UnitUpFails, OperatorStop
<1>1. CASE DataStep
      BY <1>1 DEF DataStep, DataStart, DataCheck, DataCreate, DataOwn, DataFails
<1>2. CASE UnitStep
      BY <1>2 DEF UnitStep, UnitData, UnitLock, UnitLockTimeout, UnitDown
<1>3. CASE DeployUnits BY <1>3 DEF DeployUnits
<1>4. CASE ContainerRestart BY <1>4 DEF ContainerRestart
<1>5. CASE UnitEnvironment
      BY <1>5 DEF UnitEnvironment, OperatorStart, DeploySwitch, ContainerCrash, ContainerWrite
<1> QED BY <1>1, <1>2, <1>3, <1>4, <1>5 DEF Units

\* A run that is cut nowhere makes both halves, or neither, but for the one it
\* is half-way in; so does the pruning.
LEMMA SnapshotOnHalves ==
  ASSUME NoCuts, WholeInv, NEW p \in Snapshotters, SnapshotStep(p) \/ SnapshotEnvironment(p),
         UNCHANGED roll
  PROVE  HalvesKnown'
<1> DEFINE Mine(n) == run[p].pc \in {"post", "config"} /\ run[p].name = n
           Others(n) == \/ \E q \in Snapshotters \ {p} :
                             run[q].pc \in {"post", "config"} /\ run[q].name = n
                        \/ \E r \in Rollbacks : roll[r].pc = "keepConfig" /\ roll[r].kept = n
<1> USE DEF TypeOK, StateTypeOK, SnapshotTypeOK, Runs, At, Goto, Fail, NoCuts
<1>1. TypeOK /\ LockHeld /\ HalvesKnown BY DEF WholeInv, RollbackInv
<1>2. \A n : (Halfway(n) <=> Mine(n) \/ Others(n)) /\ (Halfway(n)' <=> Mine(n)' \/ Others(n))
  <2>1. \A q \in Snapshotters \ {p} : run'[q] = run[q] BY <1>1, SnapshotOnLock
  <2> QED BY <2>1 DEF Halfway
<1>3. ASSUME RunHolds(p) PROVE \A n : ~Others(n)
      BY <1>1, <1>3, ProcAssumption
         DEF LockHeld, RunHolds, RollHolds, Trapped, RollbackLocked, Swapping
<1> HIDE DEF Others
<1>4. ASSUME UNCHANGED <<snaps, cfgs>>, \A n : Mine(n)' <=> Mine(n) PROVE HalvesKnown'
      BY <1>1, <1>2, <1>4 DEF HalvesKnown, Whole
<1>5. CASE SnapshotTake(p)
  <2>1. now(kindOf(p)) \in Names BY <1>1, NowType DEF kindOf
  <2>2. Copy # Absent BY <1>1, CopyType, AbsentAssumption
  <2>3. \A n : ~Mine(n) /\ ~Others(n) BY <1>3, <1>5 DEF SnapshotTake, RunHolds, Trapped
  <2> QED BY <1>1, <1>2, <1>5, <2>1, <2>2, <2>3 DEF SnapshotTake, HalvesKnown, Whole
<1>6. CASE SnapshotConfig(p)
  <2>1. \A n : ~Others(n) BY <1>3, <1>6 DEF SnapshotConfig, RunHolds, Trapped
  <2>2. etc # Absent BY <1>1, ConfigAssumption
  <2>3. Mine(run[p].name) /\ run[p].name \in Names BY <1>1, <1>6 DEF SnapshotConfig
  <2> QED BY <1>1, <1>2, <1>6, <2>1, <2>2, <2>3
          DEF SnapshotConfig, copy_config, HalvesKnown, Whole
<1>7. CASE SnapshotPrune(p)
  <2>1. \A n : ~Mine(n) /\ ~Others(n) BY <1>3, <1>7 DEF SnapshotPrune, RunHolds, Trapped
  <2>2. \A n : ~Mine(n)' BY <1>1, <1>7 DEF SnapshotPrune
  <2>3. Excess \subseteq Names BY DEF Excess, snapshot_names, all_snapshot_names
  <2> QED BY <1>1, <1>2, <1>7, <2>1, <2>2, <2>3 DEF SnapshotPrune, HalvesKnown, Whole
<1>8. CASE SnapshotPost(p) BY <1>1, <1>4, <1>8 DEF SnapshotPost, run_post
<1>9. CASE \/ SnapshotStart(p) \/ SnapshotLock(p) \/ SnapshotLockTimeout(p) \/ SnapshotAsk(p)
           \/ SnapshotPre(p) \/ SnapshotTrap(p) \/ SnapshotExit(p)
      BY <1>1, <1>4, <1>9
         DEF SnapshotStart, SnapshotLock, SnapshotLockTimeout, SnapshotAsk, SnapshotPre,
             SnapshotTrap, run_post, SnapshotExit, NotRunning
<1> QED BY <1>5, <1>6, <1>7, <1>8, <1>9
        DEF SnapshotStep, SnapshotEnvironment, SnapshotSignal, SnapshotKill

\* A rollback that no command fails keeps both halves.
LEMMA RollbackOnHalves ==
  ASSUME NoCuts, WholeInv, NEW r \in Rollbacks, RollbackStep(r) \/ RollbackEnvironment(r)
  PROVE  HalvesKnown'
<1> DEFINE Mine(n) == roll[r].pc = "keepConfig" /\ roll[r].kept = n
           Others(n) == \/ \E p \in Snapshotters :
                             run[p].pc \in {"post", "config"} /\ run[p].name = n
                        \/ \E s \in Rollbacks \ {r} : roll[s].pc = "keepConfig" /\ roll[s].kept = n
<1> USE DEF TypeOK, StateTypeOK, RollbackTypeOK, Rolls, RollAt, RollGoto, RollEnds, RollExit,
            restart_if_active, NotRolling, NoCuts
<1>1. TypeOK /\ LockHeld /\ HalvesKnown BY DEF WholeInv, RollbackInv
<1>2. \A n : (Halfway(n) <=> Mine(n) \/ Others(n)) /\ (Halfway(n)' <=> Mine(n)' \/ Others(n))
  <2>1. UNCHANGED run /\ \A s \in Rollbacks \ {r} : roll'[s] = roll[s] BY <1>1, RollbackOnLock
  <2> QED BY <2>1 DEF Halfway
<1>3. ASSUME RollHolds(r) PROVE \A n : ~Others(n)
      BY <1>1, <1>3, ProcAssumption
         DEF LockHeld, RunHolds, RollHolds, Trapped, RollbackLocked, Swapping
<1> HIDE DEF Others
<1>4. ASSUME UNCHANGED <<snaps, cfgs>>, \A n : Mine(n)' <=> Mine(n) PROVE HalvesKnown'
      BY <1>1, <1>2, <1>4 DEF HalvesKnown, Whole
<1>5. CASE RollbackKeep(r)
  <2>1. now("before") \in Names BY <1>1, NowType
  <2>2. Copy # Absent BY <1>1, CopyType, AbsentAssumption
  <2>3. \A n : ~Mine(n) /\ ~Others(n)
        BY <1>3, <1>5 DEF RollbackKeep, RollHolds, RollbackLocked, Swapping
  <2> QED BY <1>1, <1>2, <1>5, <2>1, <2>2, <2>3 DEF RollbackKeep, HalvesKnown, Whole
<1>6. CASE RollbackKeepConfig(r)
  <2>1. \A n : ~Others(n)
        BY <1>3, <1>6 DEF RollbackKeepConfig, RollHolds, RollbackLocked, Swapping
  <2>2. etc # Absent BY <1>1, ConfigAssumption
  <2>3. Mine(roll[r].kept) /\ roll[r].kept \in Names BY <1>1, <1>6 DEF RollbackKeepConfig
  <2> QED BY <1>1, <1>2, <1>6, <2>1, <2>2, <2>3
          DEF RollbackKeepConfig, copy_config, HalvesKnown, Whole
<1>7. CASE RollbackCheck(r)
  <2>1. PICK n \in all_snapshot_names :
              roll' = [roll EXCEPT ![r].pc = "confirm", ![r].chosen = n]
        BY <1>7 DEF RollbackCheck
  <2>2. roll'[r].pc = "confirm" BY <1>1, <2>1
  <2> QED BY <1>4, <1>7, <2>2 DEF RollbackCheck
<1>8. CASE \/ RollbackConfirm(r) \/ RollbackStop(r) \/ RollbackStopped(r) \/ RollbackLock(r)
           \/ RollbackLockTimeout(r) \/ RollbackAsk(r) \/ RollbackDelete(r) \/ RollbackRecheck(r)
           \/ RollbackSwap(r) \/ RollbackRelease(r) \/ RollbackStart(r) \/ RollbackStarted(r)
  <2>1. UNCHANGED <<snaps, cfgs>>
        BY <1>8 DEF RollbackConfirm, RollbackStop, RollbackStopped, RollbackLock,
                    RollbackLockTimeout, RollbackAsk, RollbackDelete, RollbackRecheck,
                    RollbackSwap, RollbackRelease, RollbackStart, RollbackStarted
  <2>2. roll[r].pc # "keepConfig" /\ roll'[r].pc # "keepConfig"
        BY <1>1, <1>8 DEF RollbackConfirm, RollbackStop, RollbackStopped, RollbackLock,
                    RollbackLockTimeout, RollbackAsk, RollbackDelete, RollbackRecheck,
                    RollbackSwap, RollbackRelease, RollbackStart, RollbackStarted
  <2> QED BY <1>4, <2>1, <2>2
<1> QED BY <1>5, <1>6, <1>7, <1>8 DEF RollbackStep, RollbackEnvironment, RollbackSignal

\* With no script cut short, every step leaves snapshots whole or half-way.
LEMMA NextHalves == ASSUME NoCuts, WholeInv, [Next]_vars PROVE WholeInv'
<1>1. RollbackInv' /\ TypeOK BY NextData DEF WholeInv, RollbackInv
<1>2. CASE (Units \/ UnitEnvironment) /\ UNCHANGED <<run, roll>>
      BY <1>1, <1>2, UnitsOnHalves DEF WholeInv, HalvesKnown, Whole, Halfway
<1>3. CASE Tick \/ UNCHANGED vars
      BY <1>1, <1>3 DEF WholeInv, HalvesKnown, Whole, Halfway, Tick, vars
<1> QED BY <1>1, <1>2, <1>3, SnapshotOnHalves, RollbackOnHalves
        DEF WholeInv, Next, System, Environment, PowerLoss, NoCuts

\* With nobody in the lock, nothing is half-way.
LEMMA WholeWhenFree == WholeInv => WholeSnapshots
BY ProcAssumption
   DEF WholeInv, RollbackInv, HalvesKnown, Whole, WholeSnapshots, Halfway, LockHeld, RunHolds,
       RollHolds, Trapped, RollbackLocked, Swapping, Procs

\* While no command but a hook fails and no script is cut short, a snapshot has
\* its configuration and a saved configuration its snapshot whenever the lock is
\* free, whatever deploys, crashes and operators do, and whatever is pruned.
THEOREM SnapshotsAreWhole == NoCuts => (Spec => []WholeSnapshots)
<1> SUFFICES ASSUME NoCuts PROVE Spec => []WholeSnapshots
    OBVIOUS
<1>1. Init => WholeInv
  <2>1. Init => RollbackInv BY InitType, InitLock, InitData DEF RollbackInv
  <2>2. Init => HalvesKnown
        BY DEF Init, StateInit, SnapshotInit, RollbackInit, NotRunning, NotRolling,
               HalvesKnown, Whole, Halfway
  <2> QED BY <2>1, <2>2 DEF WholeInv
<1>2. WholeInv /\ [Next]_vars => WholeInv' BY NextHalves
<1> QED BY <1>1, <1>2, WholeWhenFree, PTL DEF Spec

\* Both halves of the run's property, where both hold.
THEOREM SnapshotsAreSound == NoRestarts /\ NoCuts => (Spec => []SnapshotsSound)
<1>1. NoTornSnapshot /\ WholeSnapshots => SnapshotsSound BY DEF SnapshotsSound
<1> QED BY <1>1, NoSnapshotIsTorn, SnapshotsAreWhole, PTL
=============================================================================
