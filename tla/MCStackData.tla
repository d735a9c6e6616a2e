---------------------------- MODULE MCStackData ---------------------------
(***************************************************************************)
(* Small instances of StackData for TLC: one nightly run, one manual run   *)
(* or rollback, a clock of one or two seconds, so that names collide, and  *)
(* at most one write.  Each run is given one of these sets of Events.      *)
(***************************************************************************)
EXTENDS StackData

\* Everything that stops or fails in the middle, and the units that reload
\* between two steps of a script.
FaultEvents == {"powerLoss", "deploy", "dataReload", "signal", "kill",
                "failure", "hookFails"}

\* Failing commands and waits for the lock that run out; the clock and the
\* pruning make the names collide.
FailureEvents == {"failure", "lockTimeout"}

\* What can come between a snapshot run's questions and its hooks, but for a
\* crashing container, with which NoTornSnapshot does not hold.
SnapshotEvents == {"stop", "deploy", "hookFails", "lockTimeout"}

\* What may come back again and again without stopping a rollback for good.
LiveEvents == {"deploy", "crash"}

\* Nothing goes wrong.
NoEvents == {}

\* Deploys that reload the data unit.
ReloadEvents == {"deploy", "dataReload"}
=============================================================================
