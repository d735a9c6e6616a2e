--------------------------- MODULE StackRollback --------------------------
(***************************************************************************)
(* stack-rollback STACK SNAPSHOT, as operators run it: stop the stack,     *)
(* take the lock, keep the current data as before-rollback-<time>, replace *)
(* it with a writable copy of the chosen snapshot, release the lock, start *)
(* the stack again if it was running.                                      *)
(***************************************************************************)
EXTENDS StackSnapshot

VARIABLE roll   \* the state of each rollback

\* Holding the lock; and, of these, once the containers are known to be gone.
Swapping == {"keep", "keepConfig", "delete", "recheck", "swap"}
RollbackLocked == {"ask", "release"} \cup Swapping
RollbackPcs == {"idle", "confirm", "stop", "stopWait", "lock", "start", "startWait"}
                 \cup RollbackLocked

\* `chosen`: the snapshot asked for; `kept`: the before-rollback name;
\* `wasActive`: was_active.
Rolls == [pc : RollbackPcs, chosen : Names, kept : Names, wasActive : BOOLEAN]
NotRolling == [pc |-> "idle", chosen |-> <<"nightly", 0>>, kept |-> <<"before", 0>>,
               wasActive |-> FALSE]

RollbackTypeOK == roll \in [Rollbacks -> Rolls]
RollbackInit == roll = [r \in Rollbacks |-> NotRolling]

RollAt(r, from) == roll[r].pc = from
RollGoto(r, to) == roll' = [roll EXCEPT ![r].pc = to]
RollEnds(r) == roll' = [roll EXCEPT ![r] = NotRolling]

\* An exit with the lock held: the descriptor closes with the process.
RollExit(r) == RollEnds(r) /\ DropLock(r)

\* (Mutant) The start waits for the lock the rollback still holds.
restart_holding_lock(r) ==
  /\ IF roll[r].wasActive
     THEN RollGoto(r, "start") /\ UNCHANGED holder
     ELSE RollEnds(r) /\ DropLock(r)

\* restart_if_active: release the lock first, then start.
restart_if_active(r) ==
  /\ IF roll[r].wasActive THEN RollGoto(r, "start") ELSE RollEnds(r)
  /\ DropLock(r)

\* Only a name in the listing; before the confirmation and the lock.
RollbackCheck(r) ==
  /\ RollAt(r, "idle")
  /\ \E n \in all_snapshot_names :
       roll' = [roll EXCEPT ![r].pc = "confirm", ![r].chosen = n]
  /\ UNCHANGED <<stateVars, unitVars, dockerVars, run>>

RollbackConfirm(r) ==
  /\ RollAt(r, "confirm")
  /\ \/ RollEnds(r)
     \/ roll' = [roll EXCEPT ![r].pc = "stop", ![r].wasActive = is_active]
  /\ UNCHANGED <<stateVars, unitVars, dockerVars, run>>

RollbackStop(r) ==
  /\ RollAt(r, "stop") /\ RollGoto(r, "stopWait")
  /\ StopUnit
  /\ UNCHANGED <<clock, snaps, cfgs, etc, written, replaced, dataUnit, dataPc, deploy, run>>

\* A start that replaces the stop job makes `systemctl stop` fail.
RollbackStopped(r) ==
  /\ RollAt(r, "stopWait") /\ unit # "stopping"
  /\ RollGoto(r, "lock") \/ ("failure" \in Events /\ RollEnds(r))
  /\ UNCHANGED <<stateVars, unitVars, dockerVars, run>>

\* flock -w 900
RollbackLock(r) ==
  /\ RollAt(r, "lock") /\ RollGoto(r, "ask")
  /\ TakeLock(r)
  /\ UNCHANGED <<clock, storeVars, etc, unitVars, dockerVars, run>>

RollbackLockTimeout(r) ==
  /\ "lockTimeout" \in Events
  /\ RollAt(r, "lock") /\ holder # Free
  /\ restart_if_active(r)
  /\ UNCHANGED <<clock, storeVars, etc, unitVars, dockerVars, run>>

\* (Mutant) The data is not kept.
RollbackAskThenDelete(r) ==
  /\ RollAt(r, "ask")
  /\ \/ ~DockerPs /\ RollGoto(r, "delete") /\ UNCHANGED holder
     \/ (DockerPs \/ "failure" \in Events) /\ restart_if_active(r)
  /\ UNCHANGED <<clock, storeVars, etc, unitVars, dockerVars, run>>

RollbackAsk(r) ==
  /\ RollAt(r, "ask")
  /\ \/ ~DockerPs /\ RollGoto(r, "keep") /\ UNCHANGED holder
     \/ (DockerPs \/ "failure" \in Events) /\ restart_if_active(r)
  /\ UNCHANGED <<clock, storeVars, etc, unitVars, dockerVars, run>>

\* Names have one-second resolution: an existing name is never touched.
RollbackKeep(r) ==
  LET n == now("before")
      taken == snaps[n] # Absent \/ cfgs[n] # Absent
  IN
  /\ RollAt(r, "keep")
  /\ \/ /\ ~taken /\ dir.kind = "subvolume"
        /\ snaps' = [snaps EXCEPT ![n] = Copy]
        /\ roll' = [roll EXCEPT ![r].pc = "keepConfig", ![r].kept = n]
        /\ UNCHANGED holder
     \/ /\ taken \/ dir.kind # "subvolume" \/ "failure" \in Events
        /\ restart_if_active(r)
        /\ UNCHANGED snaps
  /\ UNCHANGED <<clock, dir, cfgs, etc, written, replaced, unitVars, dockerVars, run>>

\* On a failure the new snapshot is deleted, or that fails too and is ignored.
RollbackKeepConfig(r) ==
  /\ RollAt(r, "keepConfig")
  /\ \/ RollGoto(r, "delete") /\ copy_config(roll[r].kept) /\ UNCHANGED <<snaps, holder>>
     \/ /\ "failure" \in Events
        /\ restart_if_active(r)
        /\ snaps' \in {snaps, [snaps EXCEPT ![roll[r].kept] = Absent]}
        /\ UNCHANGED cfgs
  /\ UNCHANGED <<clock, dir, etc, written, replaced, unitVars, dockerVars, run>>

RollbackDelete(r) ==
  /\ RollAt(r, "delete")
  /\ \/ /\ dir.kind = "subvolume"
        /\ RollGoto(r, "recheck")
        /\ dir' = [kind |-> "absent", world |-> 0]
        /\ replaced' = replaced \cup {<<roll[r].kept, dir.world>>}
        /\ UNCHANGED holder
     \/ /\ dir.kind # "subvolume" \/ "failure" \in Events
        /\ RollExit(r)
        /\ UNCHANGED <<dir, replaced>>
  /\ UNCHANGED <<clock, snaps, cfgs, etc, written, unitVars, dockerVars, run>>

RollbackRecheck(r) ==
  /\ RollAt(r, "recheck")
  /\ IF Exists THEN RollExit(r) ELSE RollGoto(r, "swap") /\ UNCHANGED holder
  /\ UNCHANGED <<clock, storeVars, etc, unitVars, dockerVars, run>>

\* btrfs subvolume snapshot FROM DIR: with DIR there already, the copy lands
\* inside it, and the command succeeds.
Swapped(from) == IF Exists THEN dir ELSE [kind |-> "subvolume", world |-> from.world]

RollbackSwap(r) ==
  LET from == snaps[roll[r].chosen] IN
  /\ RollAt(r, "swap")
  /\ \/ /\ from # Absent
        /\ RollGoto(r, "release")
        /\ dir' = Swapped(from)
        /\ UNCHANGED holder
     \/ /\ from = Absent \/ "failure" \in Events
        /\ RollExit(r)
        /\ UNCHANGED dir
     \* chown or chmod fails.
     \/ /\ from # Absent /\ "failure" \in Events
        /\ RollExit(r)
        /\ dir' = Swapped(from)
  /\ UNCHANGED <<clock, snaps, cfgs, etc, written, replaced, unitVars, dockerVars, run>>

RollbackRelease(r) ==
  /\ RollAt(r, "release") /\ restart_if_active(r)
  /\ UNCHANGED <<clock, storeVars, etc, unitVars, dockerVars, run>>

\* `systemctl start` blocks until the start job ends.
RollbackStart(r) ==
  /\ RollAt(r, "start") /\ unit # "stopping"
  /\ StartUnit
  /\ RollGoto(r, "startWait")
  /\ UNCHANGED <<stateVars, dataUnit, dataPc, deploy, dockerVars, run>>

RollbackStarted(r) ==
  /\ RollAt(r, "startWait") /\ unit \notin Starting
  /\ RollEnds(r)
  /\ UNCHANGED <<stateVars, unitVars, dockerVars, run>>

\* A signal ends it anywhere: Ctrl-C, or the SSH session dropping.
RollbackSignal(r) ==
  /\ "signal" \in Events
  /\ ~RollAt(r, "idle") /\ RollExit(r)
  /\ UNCHANGED <<clock, storeVars, etc, unitVars, dockerVars, run>>

RollbackStep(r) ==
  \/ RollbackStop(r) \/ RollbackStopped(r) \/ RollbackLock(r) \/ RollbackLockTimeout(r)
  \/ RollbackAsk(r) \/ RollbackKeep(r) \/ RollbackKeepConfig(r) \/ RollbackDelete(r)
  \/ RollbackRecheck(r) \/ RollbackSwap(r) \/ RollbackRelease(r)
  \/ RollbackStart(r) \/ RollbackStarted(r)

RollbackEnvironment(r) == RollbackCheck(r) \/ RollbackConfirm(r) \/ RollbackSignal(r)
=============================================================================
