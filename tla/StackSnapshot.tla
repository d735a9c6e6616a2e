--------------------------- MODULE StackSnapshot --------------------------
(***************************************************************************)
(* stack-snapshot STACK [manual]: the runs of the nightly unit and of      *)
(* operators.  Under the lock: the pre-command if the containers run, the  *)
(* read-only snapshot, the post-command, the configuration copy and, for a *)
(* nightly run, the pruning.                                               *)
(***************************************************************************)
EXTENDS StackUnit

VARIABLE run   \* the state of each run

\* The lock is held, and the EXIT trap is set.
Trapped == {"ask", "pre", "take", "post", "config", "prune", "finish"}

\* `owes`: hooked = 1 and post_done = 0, the post-command is still to run;
\* `failed`: the run will exit non-zero.
Runs == [pc : {"idle", "lock"} \cup Trapped, name : Names, owes : BOOLEAN, failed : BOOLEAN]
NotRunning == [pc |-> "idle", name |-> <<"nightly", 0>>, owes |-> FALSE, failed |-> FALSE]

SnapshotTypeOK == run \in [Snapshotters -> Runs]
SnapshotInit == run = [p \in Snapshotters |-> NotRunning]

kindOf(p) == IF p \in Nightlies THEN "nightly" ELSE "manual"

At(p, from) == run[p].pc = from
Goto(p, to) == run' = [run EXCEPT ![p].pc = to]

\* `set -e`, or an explicit `exit 1`, with the EXIT trap set.
Fail(p) == run' = [run EXCEPT ![p].pc = "finish", ![p].failed = TRUE]

\* The nightly unit requires the data unit.
SnapshotStart(p) ==
  /\ p \in Nightlies => dataUnit = "active"
  /\ At(p, "idle") /\ Goto(p, "lock")
  /\ UNCHANGED <<stateVars, unitVars, dockerVars>>

SnapshotLock(p) ==
  /\ At(p, "lock") /\ Goto(p, "ask")
  /\ TakeLock(p)
  /\ UNCHANGED <<clock, storeVars, etc, unitVars, dockerVars>>

SnapshotLockTimeout(p) ==
  /\ "lockTimeout" \in Events
  /\ holder # Free
  /\ At(p, "lock") /\ Goto(p, "idle")
  /\ UNCHANGED <<stateVars, unitVars, dockerVars>>

SnapshotAsk(p) ==
  /\ At(p, "ask")
  /\ \/ "failure" \in Events /\ Fail(p)
     \/ ComposePsRunning /\ run' = [run EXCEPT ![p].pc = "pre", ![p].owes = TRUE]
     \/ ~ComposePsRunning /\ Goto(p, "take")
  /\ UNCHANGED <<stateVars, unitVars, dockerVars>>

\* (Mutant) A failing pre-command is ignored.
SnapshotPreIgnored(p) ==
  /\ At(p, "pre") /\ Goto(p, "take")
  /\ \/ containers = "up" /\ saving' = "off"
     \/ (containers # "up" \/ "hookFails" \in Events) /\ UNCHANGED saving
  /\ UNCHANGED <<stateVars, unitVars, containers>>

\* The pre-command switches saving off and flushes.  It fails when the server
\* does not run, or half-way.
SnapshotPre(p) ==
  /\ At(p, "pre")
  /\ \/ containers = "up" /\ saving' = "off" /\ Goto(p, "take")
     \/ containers # "up" /\ UNCHANGED saving /\ Fail(p)
     \/ "hookFails" \in Events /\ saving' \in {saving, "off"} /\ Fail(p)
  /\ UNCHANGED <<stateVars, unitVars, containers>>

\* btrfs subvolume snapshot -r: an existing read-only snapshot of that name
\* makes it fail, as does a directory that is not a subvolume.
SnapshotTake(p) ==
  LET n == now(kindOf(p)) IN
  /\ At(p, "take")
  /\ \/ /\ snaps[n] = Absent /\ dir.kind = "subvolume"
        /\ snaps' = [snaps EXCEPT ![n] = Copy]
        /\ run' = [run EXCEPT ![p].pc = "post", ![p].name = n]
     \/ /\ snaps[n] # Absent \/ dir.kind # "subvolume" \/ "failure" \in Events
        /\ Fail(p)
        /\ UNCHANGED snaps
  /\ UNCHANGED <<clock, holder, dir, cfgs, etc, written, replaced, unitVars, dockerVars>>

\* (Mutant) A failing post-command is ignored.
run_post_ignored(p, next) ==
  /\ run' = [run EXCEPT ![p].pc = next, ![p].owes = FALSE]
  /\ \/ UNCHANGED saving
     \/ run[p].owes /\ containers = "up" /\ saving' = "on"

\* run_post: at most once, whatever its result.  It needs a running server.
run_post(p, next) ==
  LET done(ok) == run' = [run EXCEPT ![p].pc = next, ![p].owes = FALSE,
                                     ![p].failed = @ \/ ~ok]
  IN \/ ~run[p].owes /\ done(TRUE) /\ UNCHANGED saving
     \/ run[p].owes /\ containers = "up" /\ done(TRUE) /\ saving' = "on"
     \/ /\ run[p].owes /\ (containers # "up" \/ "hookFails" \in Events)
        /\ done(FALSE) /\ UNCHANGED saving

SnapshotPost(p) ==
  /\ At(p, "post") /\ run_post(p, "config")
  /\ UNCHANGED <<stateVars, unitVars, containers>>

SnapshotConfig(p) ==
  /\ At(p, "config")
  /\ \/ copy_config(run[p].name) /\ Goto(p, IF p \in Nightlies THEN "prune" ELSE "finish")
     \/ "failure" \in Events /\ UNCHANGED cfgs /\ Fail(p)
  /\ UNCHANGED <<clock, holder, dir, snaps, etc, written, replaced, unitVars, dockerVars>>

\* (Mutant) One snapshot too few is kept.
ExcessOffByOne == {n \in snapshot_names :
                     Cardinality({m \in snapshot_names : m[2] > n[2]}) + 1 >= Keep}

\* The nightly snapshots with Keep newer ones.
Excess == {n \in snapshot_names :
             Cardinality({m \in snapshot_names : m[2] > n[2]}) >= Keep}

\* One turn of the loop deletes the oldest one in excess, then its .config.
SnapshotPrune(p) ==
  /\ At(p, "prune")
  /\ \/ \E n \in Excess :
          /\ \A m \in Excess : n[2] <= m[2]
          /\ snaps' = [snaps EXCEPT ![n] = Absent]
          /\ \/ cfgs' = [cfgs EXCEPT ![n] = Absent] /\ UNCHANGED run
             \/ "failure" \in Events /\ UNCHANGED cfgs /\ Fail(p)
     \/ Excess = {} /\ Goto(p, "finish") /\ UNCHANGED <<snaps, cfgs>>
     \/ Excess # {} /\ "failure" \in Events /\ Fail(p) /\ UNCHANGED <<snaps, cfgs>>
  /\ UNCHANGED <<clock, holder, dir, etc, written, replaced, unitVars, dockerVars>>

\* The EXIT trap runs the post-command if it is still owed.
SnapshotTrap(p) ==
  /\ At(p, "finish") /\ run[p].owes /\ run_post(p, "finish")
  /\ UNCHANGED <<stateVars, unitVars, containers>>

\* A run that exits non-zero alerts: the nightly unit fails and posts, a
\* manual run tells its operator.
Alerted == IF saving = "off" THEN "alerted" ELSE saving

SnapshotExit(p) ==
  /\ At(p, "finish") /\ ~run[p].owes
  /\ run' = [run EXCEPT ![p] = NotRunning]
  /\ DropLock(p)
  /\ saving' = IF run[p].failed THEN Alerted ELSE saving
  /\ UNCHANGED <<clock, storeVars, etc, unitVars, containers>>

\* TERM (the unit's TimeoutStartSec, a stop), INT or HUP.  The trap is not
\* set before the lock is held.
SnapshotSignal(p) ==
  /\ "signal" \in Events
  /\ \/ At(p, "lock") /\ Goto(p, "idle")
     \/ run[p].pc \in Trapped \ {"finish"} /\ Fail(p)
  /\ UNCHANGED <<stateVars, unitVars, dockerVars>>

\* KILL: no trap runs.  The nightly unit still fails, and posts.
SnapshotKill(p) ==
  /\ "kill" \in Events
  /\ run[p].pc # "idle" /\ run' = [run EXCEPT ![p] = NotRunning]
  /\ DropLock(p)
  /\ saving' = Alerted
  /\ UNCHANGED <<clock, storeVars, etc, unitVars, containers>>

SnapshotStep(p) ==
  \/ SnapshotLock(p) \/ SnapshotLockTimeout(p) \/ SnapshotAsk(p) \/ SnapshotPre(p)
  \/ SnapshotTake(p) \/ SnapshotPost(p) \/ SnapshotConfig(p) \/ SnapshotPrune(p)
  \/ SnapshotTrap(p) \/ SnapshotExit(p)

SnapshotEnvironment(p) == SnapshotStart(p) \/ SnapshotSignal(p) \/ SnapshotKill(p)
=============================================================================
