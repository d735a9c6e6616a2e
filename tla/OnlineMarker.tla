--------------------------- MODULE OnlineMarker ----------------------------
(***************************************************************************)
(* notify-online.service: at boot it makes a marker file and posts that    *)
(* the host is up, at shutdown it deletes the marker and posts that it     *)
(* goes down.  A marker found at boot is to tell that the last boot did    *)
(* not shut down cleanly.                                                  *)
(***************************************************************************)
CONSTANT EarlyShutdown   \* may a shutdown come before the unit has started?
ASSUME EarlyAssumption == EarlyShutdown \in BOOLEAN

VARIABLES
  host,     \* "off", "running", or on its way down
  online,   \* where the unit is: its start script, active, or its preStop
  marker,   \* is the marker there, as programs see it?
  disk,     \* is it there on the disk, as the next boot sees it?
  unclean,  \* the script's $unclean
  said,     \* history: which boot message has been posted in this boot
  lastEnd   \* history: how the boot before this one ended: at a shutdown, or
            \* cut with the unit at a place

onlineVars == <<host, online, marker, disk, unclean, said, lastEnd>>

StartScript == {"check", "touch", "sync", "post"}
StopScript == {"rm", "rmSync", "postDown"}
Places == {"inactive", "active", "stopped"} \cup StartScript \cup StopScript

OnlineTypeOK ==
  /\ host \in {"off", "running", "shutdown"}
  /\ online \in Places
  /\ marker \in BOOLEAN /\ disk \in BOOLEAN /\ unclean \in BOOLEAN
  /\ said \in {"none", "clean", "unclean"}
  /\ lastEnd \in {"none", "clean"} \cup Places

\* Before the first boot.
OnlineInit ==
  /\ host = "off" /\ online = "stopped"
  /\ marker = FALSE /\ disk = FALSE /\ unclean = FALSE
  /\ said = "none" /\ lastEnd = "none"

OnlineAt(from, to) == host # "off" /\ online = from /\ online' = to

Boot ==
  /\ host = "off" /\ host' = "running"
  /\ online' = "inactive"
  /\ marker' = disk
  /\ unclean' = FALSE
  /\ UNCHANGED <<disk, said, lastEnd>>

\* multi-user.target wants the unit.
OnlineStart ==
  /\ host = "running" /\ OnlineAt("inactive", "check")
  /\ UNCHANGED <<host, marker, disk, unclean, said, lastEnd>>

OnlineCheck ==
  /\ OnlineAt("check", "touch")
  /\ unclean' = marker
  /\ UNCHANGED <<host, marker, disk, said, lastEnd>>

OnlineTouch ==
  /\ OnlineAt("touch", "sync")
  /\ marker' = TRUE
  /\ UNCHANGED <<host, disk, unclean, said, lastEnd>>

\* (Mutant) The new file is not synced.
OnlineNoSync ==
  /\ OnlineAt("sync", "post")
  /\ UNCHANGED <<host, marker, disk, unclean, said, lastEnd>>

OnlineSync ==
  /\ OnlineAt("sync", "post")
  /\ disk' = marker
  /\ UNCHANGED <<host, marker, unclean, said, lastEnd>>

\* A post that fails does not fail the unit.
OnlinePost ==
  /\ OnlineAt("post", "active")
  /\ said' \in {said, IF unclean THEN "unclean" ELSE "clean"}
  /\ UNCHANGED <<host, marker, disk, unclean, lastEnd>>

\* An orderly shutdown or reboot: preStop of an active unit.  A start script
\* under way is killed, and preStop does not run.
Shutdown ==
  /\ host = "running" /\ host' = "shutdown"
  /\ \/ online = "active" /\ online' = "rm"
     \/ EarlyShutdown /\ online \in {"inactive"} \cup StartScript /\ online' = "stopped"
  /\ UNCHANGED <<marker, disk, unclean, said, lastEnd>>

OnlineRm ==
  /\ OnlineAt("rm", "rmSync")
  /\ marker' = FALSE
  /\ UNCHANGED <<host, disk, unclean, said, lastEnd>>

OnlineRmSync ==
  /\ OnlineAt("rmSync", "postDown")
  /\ disk' = marker
  /\ UNCHANGED <<host, marker, unclean, said, lastEnd>>

OnlinePostDown ==
  /\ OnlineAt("postDown", "stopped")
  /\ UNCHANGED <<host, marker, disk, unclean, said, lastEnd>>

\* The file systems are unmounted.
PowerOff ==
  /\ host = "shutdown" /\ online = "stopped"
  /\ host' = "off" /\ disk' = marker /\ lastEnd' = "clean" /\ said' = "none"
  /\ UNCHANGED <<online, marker, unclean>>

\* A power cut, a crash or a hang, at any time.
PowerCut ==
  /\ host # "off" /\ host' = "off"
  /\ lastEnd' = online /\ said' = "none"
  /\ UNCHANGED <<online, marker, disk, unclean>>

\* The kernel writes back what nobody synced.
WriteBack ==
  /\ host # "off" /\ disk # marker
  /\ disk' = marker
  /\ UNCHANGED <<host, online, marker, unclean, said, lastEnd>>

OnlineNext ==
  \/ Boot \/ OnlineStart \/ OnlineCheck \/ OnlineTouch \/ OnlineSync \/ OnlinePost
  \/ Shutdown \/ OnlineRm \/ OnlineRmSync \/ OnlinePostDown \/ PowerOff
  \/ PowerCut \/ WriteBack

OnlineSpec == OnlineInit /\ [][OnlineNext]_onlineVars

---------------------------------------------------------------------------

\* A boot message that says so follows a boot that was cut: an orderly
\* shutdown is never reported as a power cut, whatever posts failed.
NoFalseAlarm == said = "unclean" => lastEnd \in Places

\* A boot cut from the moment its marker was synced until its shutdown removed
\* it is never followed by a message that all was well, even when the power
\* went before the kernel would have written the file itself.
CutIsTold == lastEnd \in {"post", "active", "rm"} => said # "clean"

\* A boot message says of the last end what it was.
BootsTold == NoFalseAlarm /\ CutIsTold
=============================================================================
