--------------------------- MODULE FailureNotify ---------------------------
(***************************************************************************)
(* notify-failure@UNIT.service, the OnFailure of UNIT: posts its failure,  *)
(* but for the cooldown after a post only counts further ones.  A unit has *)
(* a file of its own, so one is modelled.                                  *)
(***************************************************************************)
EXTENDS PostWindow

CONSTANT MaxFailures   \* bound: failures since the last post

ASSUME FailuresAssumption == MaxFailures \in Nat

VARIABLES
  handler,           \* where the handler is
  hat, hheld,        \* its $now and $held
  file,              \* the state file: $last and $held, or None
  stored,            \* what a power cut would leave of it
  lost,              \* history: what power cuts have undone
  since,             \* history: failures since the last post that was saved
  arrived,           \* history: the times of the posts that arrived
  heldAt             \* history: when a failure was last held back

diskVars == <<stored, lost>>
notifyVars == <<handler, hat, hheld, file, diskVars, since, arrived, heldAt>>

FileOrNone == [last : Times, held : Nat] \cup {None}

NotifyTypeOK ==
  /\ handler \in {"off", "read", "post", "save"}
  /\ hat \in Times /\ hheld \in Nat
  /\ file \in FileOrNone /\ stored \in FileOrNone /\ lost \in {"nothing", "save"}
  /\ since \in Nat
  /\ arrived \subseteq Times
  /\ heldAt \in Times \cup {None}

NotifyInit ==
  /\ handler = "off" /\ hat = 0 /\ hheld = 0
  /\ file = None /\ stored = None /\ lost = "nothing"
  /\ since = 0 /\ arrived = {} /\ heldAt = None

\* OnFailure=; a handler that is running already is joined, uncounted.
UnitFails ==
  /\ since < MaxFailures /\ since' = since + 1
  /\ handler' = IF handler = "off" THEN "read" ELSE handler
  /\ UNCHANGED <<hat, hheld, file, diskVars, arrived, heldAt>>

\* (Mutant) The failures held back are counted from the last run of the
\* handler, posted or not.
NotifyReadAlways ==
  /\ handler = "read"
  /\ hat' = now
  /\ hheld' = IF file = None THEN 0 ELSE file.held
  /\ IF file # None /\ Within(file.last, now)
     THEN /\ handler' = "off"
          /\ file' = [last |-> now, held |-> file.held + 1]
          /\ heldAt' = now
     ELSE handler' = "post" /\ UNCHANGED <<file, heldAt>>
  /\ UNCHANGED <<diskVars, since, arrived>>

NotifyRead ==
  /\ handler = "read"
  /\ hat' = now
  /\ hheld' = IF file = None THEN 0 ELSE file.held
  /\ IF file # None /\ Within(file.last, now)
     THEN /\ handler' = "off"
          /\ file' = [file EXCEPT !.held = @ + 1]
          /\ heldAt' = now
     ELSE handler' = "post" /\ UNCHANGED <<file, heldAt>>
  /\ UNCHANGED <<diskVars, since, arrived>>

\* A post that fails ends the handler, under `set -e`; it may have arrived.
NotifyPost ==
  /\ handler = "post"
  /\ \/ handler' = "save" /\ arrived' = arrived \cup {hat}
     \/ handler' = "off" /\ arrived' \in {arrived, arrived \cup {hat}}
  /\ UNCHANGED <<hat, hheld, file, diskVars, since, heldAt>>

NotifySave ==
  /\ handler = "save" /\ handler' = "off"
  /\ file' = [last |-> hat, held |-> 0]
  /\ since' = 0
  /\ UNCHANGED <<hat, hheld, diskVars, arrived, heldAt>>

\* The kernel writes back; the script does not sync.
NotifyWriteBack ==
  /\ stored # file /\ stored' = file
  /\ UNCHANGED <<handler, hat, hheld, file, lost, since, arrived, heldAt>>

\* A power cut: the handler is gone, the last saves too if they were not
\* written back, and a file may be left empty.
NotifyCut ==
  /\ handler' = "off"
  /\ file' \in {stored, None} /\ stored' = file'
  /\ lost' = IF file' = file THEN lost ELSE "save"
  /\ UNCHANGED <<hat, hheld, since, arrived, heldAt>>

NotifyStep ==
  UnitFails \/ NotifyRead \/ NotifyPost \/ NotifySave \/ NotifyWriteBack \/ NotifyCut

NotifyNext == (NotifyStep /\ UNCHANGED clockVars) \/ (Clock /\ UNCHANGED notifyVars)
NotifySpec == ClockInit /\ NotifyInit /\ [][NotifyNext]_<<clockVars, notifyVars>>

---------------------------------------------------------------------------

\* A failure is held back only when a post of the unit did arrive in the window
\* before it: a post that failed, a power cut or a clock set back never
\* silence a unit.
HeldOnlyAfterPost == heldAt # None => \E t \in arrived : heldAt \in Window(t)

\* The count of failures held back is a floor: with the one it reports, a
\* message never claims more failures than there were since the last one,
\* unless a power cut has undone a save.
CountIsAFloor == handler = "post" /\ lost = "nothing" => hheld + 1 <= since

\* What was held back is told, after a post, and no more than that.
HeldRight == HeldOnlyAfterPost /\ CountIsAFloor
=============================================================================
