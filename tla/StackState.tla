---------------------------- MODULE StackState ----------------------------
(***************************************************************************)
(* The state the programs around one compose stack share: the stack's lock *)
(* (/run/lock/stack-STACK.lock), its data directory (/srv/data/STACK), its *)
(* snapshots with their saved configuration (/.snapshots/stacks/STACK) and *)
(* the deployed configuration (/etc/stacks/STACK).  Every stack has its    *)
(* own, so one stack is modelled.                                          *)
(***************************************************************************)
EXTENDS Naturals, FiniteSets

CONSTANTS
  Nightlies,   \* the snapshot unit's runs; the unit runs one at a time
  Manuals,     \* operators running `stack-snapshot STACK manual`
  Rollbacks,   \* operators running `stack-rollback STACK SNAPSHOT`
  Unit,        \* the stack unit's `flock ... up`, as a holder of the lock
  Free,        \* the value of `holder` when nobody has the lock
  Absent,      \* no such snapshot, or no saved configuration
  Configs,     \* the configurations a deploy can put in /etc/stacks
  Keep,        \* how many nightly snapshots are kept (snapshot.json: 3)
  MaxClock,    \* bound: seconds, so also the number of snapshot names
  MaxWorld,    \* bound: writes of the containers
  Events       \* which of AllEvents may happen

AllEvents == {"crash",       \* a container dies and Docker restarts it
              "deploy",      \* comin switches /etc and reloads the stack unit
              "dataReload",  \* a deploy reloads the data unit
              "stop",        \* the operator stops the stack unit
              "powerLoss",   \* the machine goes down and boots
              "signal",      \* a script gets TERM, INT or HUP
              "kill",        \* a script gets KILL
              "lockTimeout", \* a wait for the lock runs out
              "hookFails",   \* a pre- or post-snapshot command fails
              "failure"}     \* docker, btrfs, cp or systemctl fails

Snapshotters == Nightlies \cup Manuals
Procs == Snapshotters \cup Rollbacks \cup {Unit}

ASSUME ProcAssumption ==
  /\ Nightlies \cap Manuals = {}
  /\ Snapshotters \cap Rollbacks = {}
  /\ Unit \notin Snapshotters \cup Rollbacks
  /\ Free \notin Procs

ASSUME ConfigAssumption == Configs # {} /\ Absent \notin Configs

ASSUME BoundAssumption ==
  Keep \in Nat \ {0} /\ MaxClock \in Nat /\ MaxWorld \in Nat /\ Events \subseteq AllEvents

VARIABLES
  clock,     \* `now`, in seconds: the resolution of the names
  holder,    \* who has the lock
  dir,       \* the data directory
  snaps,     \* the snapshots, by name
  cfgs,      \* NAME.config, by snapshot name
  etc,       \* the deployed configuration
  written,   \* history: the last world the containers wrote
  replaced   \* history: <<name, world>> for each world a rollback deleted

storeVars == <<dir, snaps, cfgs, written, replaced>>
stateVars == <<clock, holder, storeVars, etc>>

(***************************************************************************)
(* Snapshot names: NIGHTLY time, manual-time, before-rollback-time.        *)
(***************************************************************************)
Times == 0..MaxClock
Names == {"nightly", "manual", "before"} \X Times
now(kind) == <<kind, clock>>

\* World 0 is an empty directory; `torn` is a snapshot of a running server that
\* had saving on.
Snapshots == [world : Nat, torn : BOOLEAN]
ASSUME AbsentAssumption == Absent \notin Snapshots /\ Absent \notin Nat

Directories == [kind : {"absent", "plain", "subvolume"}, world : Nat]

all_snapshot_names == {n \in Names : snaps[n] # Absent}
snapshot_names == {n \in all_snapshot_names : n[1] = "nightly"}

Exists == dir.kind # "absent"

\* flock: taken when free, released when the last descriptor is closed.
TakeLock(p) == holder = Free /\ holder' = p
DropLock(p) == holder' = IF holder = p THEN Free ELSE holder

\* copy_config: the files deployed NOW are saved beside the snapshot.
copy_config(n) == cfgs' = [cfgs EXCEPT ![n] = etc]

StateTypeOK ==
  /\ clock \in Times
  /\ holder \in Procs \cup {Free}
  /\ dir \in Directories
  /\ snaps \in [Names -> Snapshots \cup {Absent}]
  /\ cfgs \in [Names -> Configs \cup {Absent}]
  /\ etc \in Configs
  /\ written \in Nat
  /\ replaced \subseteq (Names \X Nat)

\* A new machine: nothing on disk yet.
StateInit ==
  /\ clock = 0
  /\ holder = Free
  /\ dir = [kind |-> "absent", world |-> 0]
  /\ snaps = [n \in Names |-> Absent]
  /\ cfgs = [n \in Names |-> Absent]
  /\ etc \in Configs
  /\ written = 0
  /\ replaced = {}
=============================================================================
