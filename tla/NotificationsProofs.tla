------------------------ MODULE NotificationsProofs ------------------------
(***************************************************************************)
(* What the crash watcher, the failure notifier, the online marker and the *)
(* alert relay promise, for every value of the constants.                  *)
(***************************************************************************)
EXTENDS CrashWatch, FailureNotify, OnlineMarker, AlertRelay, FiniteSetTheorems, TLAPS

(***************************************************************************)
(* The online marker.                                                      *)
(***************************************************************************)

\* Where the unit can be while the host runs and while it goes down.
OnlinePlaced ==
  /\ host = "running" => online \in {"inactive", "active"} \cup StartScript
  /\ host = "shutdown" => online \in {"stopped"} \cup StopScript

CutAfterSync == lastEnd \in {"post", "active", "rm"}

\* The marker a boot cut after its sync leaves, followed to the boot message.
MarkerInv ==
  /\ OnlineTypeOK /\ OnlinePlaced
  /\ host # "off" /\ online \in {"sync", "post", "active", "rm"} => marker
  /\ host # "off" /\ online \in {"post", "active", "rm"} => disk
  /\ CutAfterSync /\ host = "off" => disk
  /\ CutAfterSync /\ host # "off" /\ online \in {"inactive", "check"} => marker
  /\ CutAfterSync /\ online \in {"touch", "sync", "post"} /\ host # "off" => unclean
  /\ CutIsTold

LEMMA MarkerInit == OnlineInit => MarkerInv
BY DEF OnlineInit, MarkerInv, OnlineTypeOK, OnlinePlaced, CutAfterSync, CutIsTold,
       Places, StartScript, StopScript

LEMMA MarkerStep == MarkerInv /\ [OnlineNext]_onlineVars => MarkerInv'
<1> SUFFICES ASSUME MarkerInv, [OnlineNext]_onlineVars PROVE MarkerInv'
  OBVIOUS
<1> USE DEF MarkerInv, OnlineTypeOK, OnlinePlaced, CutAfterSync, CutIsTold,
            Places, StartScript, StopScript, OnlineAt
<1>1. CASE Boot
  BY <1>1 DEF Boot
<1>2. CASE OnlineStart
  BY <1>2 DEF OnlineStart
<1>3. CASE OnlineCheck
  BY <1>3 DEF OnlineCheck
<1>4. CASE OnlineTouch
  BY <1>4 DEF OnlineTouch
<1>5. CASE OnlineSync
  BY <1>5 DEF OnlineSync
<1>6. CASE OnlinePost
  BY <1>6 DEF OnlinePost
<1>7. CASE Shutdown
  BY <1>7 DEF Shutdown
<1>8. CASE OnlineRm
  BY <1>8 DEF OnlineRm
<1>9. CASE OnlineRmSync
  BY <1>9 DEF OnlineRmSync
<1>10. CASE OnlinePostDown
  BY <1>10 DEF OnlinePostDown
<1>11. CASE PowerOff
  BY <1>11 DEF PowerOff
<1>12. CASE PowerCut
  BY <1>12 DEF PowerCut
<1>13. CASE WriteBack
  BY <1>13 DEF WriteBack
<1>14. CASE UNCHANGED onlineVars
  BY <1>14 DEF onlineVars
<1> QED
  BY <1>1, <1>2, <1>3, <1>4, <1>5, <1>6, <1>7, <1>8, <1>9, <1>10, <1>11, <1>12,
     <1>13, <1>14 DEF OnlineNext

\* A boot that was cut, at any moment from its marker's sync to the marker's
\* removal, is never followed by a message that all was well: notify.nix:304
\* and :319 say when the marker is there.
THEOREM CutsAreTold == OnlineSpec => []CutIsTold
<1>1. MarkerInv => CutIsTold
  BY DEF MarkerInv
<1> QED
  BY <1>1, MarkerInit, MarkerStep, PTL DEF OnlineSpec

\* The marker a boot that was shut down removes.
CleanInv ==
  /\ OnlineTypeOK /\ OnlinePlaced
  /\ host = "shutdown" /\ online \in {"rmSync", "postDown", "stopped"} => ~marker
  /\ lastEnd \in {"none", "clean"} /\ host = "off" => ~disk
  /\ lastEnd \in {"none", "clean"} /\ host # "off" =>
       /\ online \in {"inactive", "check"} => ~marker
       /\ ~unclean
  /\ NoFalseAlarm

LEMMA CleanInit == OnlineInit => CleanInv
BY DEF OnlineInit, CleanInv, OnlineTypeOK, OnlinePlaced, NoFalseAlarm,
       Places, StartScript, StopScript

LEMMA CleanStep ==
  ASSUME EarlyShutdown = FALSE
  PROVE  CleanInv /\ [OnlineNext]_onlineVars => CleanInv'
<1> SUFFICES ASSUME CleanInv, [OnlineNext]_onlineVars PROVE CleanInv'
  OBVIOUS
<1> USE DEF CleanInv, OnlineTypeOK, OnlinePlaced, NoFalseAlarm,
            Places, StartScript, StopScript, OnlineAt
<1>1. CASE Boot
  BY <1>1 DEF Boot
<1>2. CASE OnlineStart
  BY <1>2 DEF OnlineStart
<1>3. CASE OnlineCheck
  BY <1>3 DEF OnlineCheck
<1>4. CASE OnlineTouch
  BY <1>4 DEF OnlineTouch
<1>5. CASE OnlineSync
  BY <1>5 DEF OnlineSync
<1>6. CASE OnlinePost
  BY <1>6 DEF OnlinePost
<1>7. CASE Shutdown
  BY <1>7, EarlyShutdown = FALSE DEF Shutdown
<1>8. CASE OnlineRm
  BY <1>8 DEF OnlineRm
<1>9. CASE OnlineRmSync
  BY <1>9 DEF OnlineRmSync
<1>10. CASE OnlinePostDown
  BY <1>10 DEF OnlinePostDown
<1>11. CASE PowerOff
  BY <1>11 DEF PowerOff
<1>12. CASE PowerCut
  BY <1>12 DEF PowerCut
<1>13. CASE WriteBack
  BY <1>13 DEF WriteBack
<1>14. CASE UNCHANGED onlineVars
  BY <1>14 DEF onlineVars
<1> QED
  BY <1>1, <1>2, <1>3, <1>4, <1>5, <1>6, <1>7, <1>8, <1>9, <1>10, <1>11, <1>12,
     <1>13, <1>14 DEF OnlineNext

\* When no shutdown comes before the unit is active, an orderly shutdown is
\* never reported as a power cut, whatever posts failed.
THEOREM NoFalseAlarms ==
  ASSUME EarlyShutdown = FALSE
  PROVE  OnlineSpec => []NoFalseAlarm
<1>1. CleanInv => NoFalseAlarm
  BY DEF CleanInv
<1>2. CleanInv /\ [OnlineNext]_onlineVars => CleanInv'
  BY CleanStep
<1> QED
  BY <1>1, <1>2, CleanInit, PTL DEF OnlineSpec

\* A boot message says what the last end was (notify.nix:304), for a host that is
\* not shut down before its boot message is out.
THEOREM BootsAreTold ==
  ASSUME EarlyShutdown = FALSE
  PROVE  OnlineSpec => []BootsTold
<1>1. NoFalseAlarm /\ CutIsTold => BootsTold
  BY DEF BootsTold
<1> QED BY <1>1, NoFalseAlarms, CutsAreTold, PTL

(***************************************************************************)
(* The failure notifier.                                                   *)
(***************************************************************************)

\* How many failures the file says were held back.
HeldBack == IF file = None THEN 0 ELSE file.held

\* The failure a running handler was started by is not among them.
Unsaid == IF handler \in {"read", "post"} THEN 1 ELSE 0

NotifyInv ==
  /\ ClockTypeOK /\ NotifyTypeOK
  \* The times in the file are of posts that arrived.
  /\ file # None => file.last \in arrived
  /\ stored # None => stored.last \in arrived
  /\ handler = "save" => hat \in arrived
  /\ HeldOnlyAfterPost
  /\ handler = "post" /\ lost = "nothing" => hheld = HeldBack
  /\ lost = "nothing" => HeldBack + Unsaid <= since

LEMMA NotifyInvInit == ClockInit /\ NotifyInit => NotifyInv
<1> SUFFICES ASSUME ClockInit, NotifyInit PROVE NotifyInv
  OBVIOUS
<1> USE CooldownAssumption DEF ClockInit, NotifyInit, Times
<1>1. ClockTypeOK
  BY DEF ClockTypeOK
<1>2. NotifyTypeOK
  BY DEF NotifyTypeOK, FileOrNone
<1>3. HeldOnlyAfterPost
  BY DEF HeldOnlyAfterPost
<1>4. HeldBack + Unsaid <= since
  BY DEF HeldBack, Unsaid
<1> QED
  BY <1>1, <1>2, <1>3, <1>4 DEF NotifyInv

LEMMA NotifyInvStep == NotifyInv /\ [NotifyNext]_<<clockVars, notifyVars>> => NotifyInv'
<1> SUFFICES ASSUME NotifyInv, [NotifyNext]_<<clockVars, notifyVars>> PROVE NotifyInv'
  OBVIOUS
<1> USE CooldownAssumption, NoneAssumption
<1> USE DEF NotifyInv, ClockTypeOK, NotifyTypeOK, FileOrNone, HeldOnlyAfterPost, HeldBack, Unsaid,
            Times, clockVars, notifyVars, diskVars
<1>1. CASE UnitFails /\ UNCHANGED clockVars
  BY <1>1 DEF UnitFails
<1>2. CASE NotifyRead /\ UNCHANGED clockVars
  <2>1. CASE file # None /\ Within(file.last, now)
    <3>1. heldAt' = now /\ now \in Window(file.last) /\ file.last \in arrived
      BY <1>2, <2>1 DEF NotifyRead, Within, Window
    <3>2. HeldOnlyAfterPost'
      BY <3>1, <1>2 DEF NotifyRead, Window
    <3> QED
      BY <1>2, <2>1, <3>2 DEF NotifyRead
  <2>2. CASE ~(file # None /\ Within(file.last, now))
    BY <1>2, <2>2 DEF NotifyRead
  <2> QED
    BY <2>1, <2>2
<1>3. CASE NotifyPost /\ UNCHANGED clockVars
  <2>1. arrived \subseteq arrived' /\ arrived' \subseteq Times
    BY <1>3 DEF NotifyPost
  <2>2. HeldOnlyAfterPost'
    BY <1>3, <2>1 DEF NotifyPost
  <2> QED
    BY <1>3, <2>1, <2>2 DEF NotifyPost
<1>4. CASE NotifySave /\ UNCHANGED clockVars
  BY <1>4 DEF NotifySave
<1>5. CASE NotifyWriteBack /\ UNCHANGED clockVars
  BY <1>5 DEF NotifyWriteBack
<1>6. CASE NotifyCut /\ UNCHANGED clockVars
  <2>1. file' \in {stored, None} /\ stored' = file'
    BY <1>6 DEF NotifyCut
  <2>2. NotifyTypeOK'
    BY <1>6, <2>1 DEF NotifyCut
  <2>3. lost' = "nothing" => lost = "nothing" /\ HeldBack' = HeldBack /\ Unsaid' <= Unsaid
    BY <1>6 DEF NotifyCut
  <2> QED
    BY <1>6, <2>1, <2>2, <2>3 DEF NotifyCut
<1>7. CASE Clock /\ UNCHANGED notifyVars
  BY <1>7 DEF Clock, ClockTick, ClockBack
<1>8. CASE UNCHANGED <<clockVars, notifyVars>>
  BY <1>8
<1> QED
  BY <1>1, <1>2, <1>3, <1>4, <1>5, <1>6, <1>7, <1>8 DEF NotifyNext, NotifyStep

\* A failure is held back only in the window of a post of the unit that did
\* arrive: a post that failed, a power cut or a clock set back never silence a
\* unit (notify.nix:244 and :257).
THEOREM HeldBackOnlyAfterPost == NotifySpec => []HeldOnlyAfterPost
<1>1. NotifyInv => HeldOnlyAfterPost
  BY DEF NotifyInv
<1> QED
  BY <1>1, NotifyInvInit, NotifyInvStep, PTL DEF NotifySpec

\* A message never claims more failures than there were since the last one,
\* unless a power cut has undone a save (notify.nix:245 and :252).
THEOREM CountsAFloor == NotifySpec => []CountIsAFloor
<1>1. NotifyInv => CountIsAFloor
  BY DEF NotifyInv, CountIsAFloor, Unsaid, NotifyTypeOK
<1> QED
  BY <1>1, NotifyInvInit, NotifyInvStep, PTL DEF NotifySpec

\* What is held back follows a post, and is not overstated (notify.nix:240 to 257).
THEOREM HeldIsRight == NotifySpec => []HeldRight
<1>1. HeldOnlyAfterPost /\ CountIsAFloor => HeldRight
  BY DEF HeldRight
<1> QED BY <1>1, HeldBackOnlyAfterPost, CountsAFloor, PTL

(***************************************************************************)
(* The crash watcher.                                                      *)
(***************************************************************************)

\* The death in hand is the last one counted.
InHand == watch \in Deciding => counted # <<>> /\ at = counted[Len(counted)]

\* The mark is of a post that was sent, is being sent, or was cut short.
MarkIsOfAPost == posted # None => posted \in PostTimes \/ (watch = "post" /\ posted = at)

WatchInv ==
  /\ ClockTypeOK /\ WatchTypeOK
  /\ InHand /\ MarkIsOfAPost /\ NeverSilent

LEMMA WatchInvInit == ClockInit /\ WatchInit => WatchInv
<1> SUFFICES ASSUME ClockInit, WatchInit PROVE WatchInv
  OBVIOUS
<1> USE CooldownAssumption, DeathsAssumption DEF ClockInit, WatchInit
<1>1. ClockTypeOK
  BY DEF ClockTypeOK, Times
<1>2. WatchTypeOK
  BY DEF WatchTypeOK, Times, TimeOrNone, Deciding, Roles
<1>3. InHand /\ MarkIsOfAPost
  BY DEF InHand, MarkIsOfAPost, Deciding
<1>4. NeverSilent
  BY DEF NeverSilent, Handled
<1> QED
  BY <1>1, <1>2, <1>3, <1>4 DEF WatchInv

\* A step that counts nothing, sends nothing and leaves the mark alone keeps
\* the invariant if it neither takes up a death nor puts one down.
LEMMA WatchInvQuiet ==
  ASSUME WatchInv, ClockTypeOK', WatchTypeOK',
         UNCHANGED <<counted, posts, cutShort>>, posted' \in {posted, None},
         \/ UNCHANGED <<watch, at>>
         \/ {watch, watch'} \cap Deciding = {}
  PROVE  WatchInv'
<1> USE DEF WatchInv
<1>1. PostTimes' = PostTimes
  BY DEF PostTimes
<1>2. Handled' = Handled
  BY DEF Handled
<1>3. InHand'
  BY DEF InHand
<1>4. MarkIsOfAPost'
  BY <1>1 DEF MarkIsOfAPost, Deciding
<1>5. NeverSilent'
  BY <1>1, <1>2 DEF NeverSilent, Window
<1> QED
  BY <1>3, <1>4, <1>5

\* What each step leaves of the types.
LEMMA WatchTypeStep ==
  ASSUME ClockTypeOK, WatchTypeOK, [WatchNext]_<<clockVars, watchVars>>
  PROVE  ClockTypeOK' /\ WatchTypeOK'
<1> USE CooldownAssumption, NoneAssumption
<1> USE DEF ClockTypeOK, WatchTypeOK, Times, TimeOrNone, Roles, Deciding, WatchAt, Down,
            clockVars, watchVars, fileVars, historyVars
<1>1. CASE WatchStep /\ UNCHANGED clockVars
  <2>1. CASE StackStart \/ StackReload \/ DockerStop \/ DockerStart
    <3>1. CASE StackStart
      BY <1>1, <3>1 DEF StackStart
    <3>2. CASE StackReload
      BY <1>1, <3>2 DEF StackReload
    <3>3. CASE DockerStop \/ DockerStart
      BY <1>1, <3>3 DEF DockerStop, DockerStart
    <3> QED
      BY <2>1, <3>1, <3>2, <3>3
  <2>2. CASE StackStop
    BY <1>1, <2>2 DEF StackStop
  <2>8. CASE StackCut
    <3>1. cuts' \in 0..MaxCuts
      BY <2>8, DeathsAssumption DEF StackCut
    <3>2. recent' \subseteq DOMAIN counted'
      BY <2>8 DEF StackCut
    <3>3. pinged' \in TimeOrNone /\ posted' \in TimeOrNone
      BY <2>8 DEF StackCut
    <3> QED
      <4> HIDE DEF TimeOrNone
      <4>1. /\ stack' = "inactive" /\ watch' = "off" /\ stream' = "closed"
            /\ pipe' = 0 /\ at' = 0 /\ role' = "-"
            /\ UNCHANGED <<docker, counted, posts>>
        BY <2>8 DEF StackCut
      <4>2. cutShort' \subseteq Times
        BY <2>8 DEF StackCut
      <4> QED
        BY <1>1, <3>1, <3>2, <3>3, <4>1, <4>2, SMTT(30)
  <2>3. CASE Death \/ WatchConnect \/ WatchEnds
    <3>1. CASE Death
      BY <1>1, <3>1 DEF Death
    <3>2. CASE WatchConnect \/ WatchEnds
      BY <1>1, <3>2 DEF WatchConnect, WatchEnds
    <3> QED
      BY <2>3, <3>1, <3>2
  <2>9. CASE WatchRead
    <3>1. pipe' \in Nat
      BY <2>9 DEF WatchRead
    <3> QED
      BY <1>1, <2>9, <3>1 DEF WatchRead
  <2>4. CASE WatchCount
    BY <1>1, <2>4 DEF WatchCount
  <2>5. CASE WatchDecide
    <3>1. pinged' \in {pinged, at} /\ posted' \in {posted, at} /\ at' \in {at, 0}
      BY <2>5 DEF WatchDecide
    <3>2. watch' \in {"mark", "post", "read"} /\ role' \in {role, "role"}
      BY <2>5 DEF WatchDecide
    <3>3. UNCHANGED <<stack, docker, stream, pipe, recent, historyVars>>
      BY <2>5 DEF WatchDecide
    <3>4. pinged' \in TimeOrNone /\ posted' \in TimeOrNone /\ at' \in Times
      BY <3>1
    <3>5. watch' \in {"off", "connect", "read", "count"} \cup Deciding /\ role' \in Roles
      BY <3>2
    <3> QED
      BY <1>1, <3>3, <3>4, <3>5
  <2>6. CASE WatchMark
    BY <1>1, <2>6 DEF WatchMark
  <2>7. CASE WatchPost
    BY <1>1, <2>7 DEF WatchPost
  <2> QED
    BY <1>1, <2>1, <2>2, <2>3, <2>4, <2>5, <2>6, <2>7, <2>8, <2>9 DEF WatchStep
<1>2. CASE Clock /\ UNCHANGED watchVars
  <2> HIDE DEF Deciding, Roles
  <2>1. CASE ClockTick
    <3>1. ClockTypeOK'
      BY <2>1 DEF ClockTick
    <3> QED
      BY <1>2, <3>1
  <2>2. CASE ClockBack
    <3>1. now' \in Times
      BY <2>2 DEF ClockBack
    <3>2. backs' \in 0..MaxBacks
      BY <2>2 DEF ClockBack
    <3> QED
      BY <1>2, <3>1, <3>2
  <2> QED
    BY <1>2, <2>1, <2>2 DEF Clock
<1>3. CASE UNCHANGED <<clockVars, watchVars>>
  BY <1>3
<1> QED
  BY <1>1, <1>2, <1>3 DEF WatchNext

\* A stop, or a power cut, puts the death in hand among the posts cut short.
LEMMA DownInv ==
  ASSUME WatchInv, Down, ClockTypeOK', WatchTypeOK', posted' \in {posted, None}
  PROVE  WatchInv'
<1> USE DEF WatchInv, Down, Deciding
<1>1. PostTimes \subseteq PostTimes' /\ (watch \in Deciding => at \in PostTimes')
  BY DEF PostTimes
<1>2. InHand'
  BY DEF InHand
<1>3. MarkIsOfAPost'
  BY <1>1 DEF MarkIsOfAPost
<1>4. NeverSilent'
  <2> SUFFICES ASSUME NEW i \in Handled' PROVE \E t \in PostTimes' : counted[i] \in Window(t)
    BY DEF NeverSilent, Window
  <2>1. i \in DOMAIN counted
    BY DEF Handled
  <2>2. CASE i \in Handled
    BY <1>1, <2>2 DEF NeverSilent
  <2>3. CASE i \notin Handled
    <3>1. watch \in Deciding /\ i = Len(counted)
      BY <2>1, <2>3 DEF Handled, WatchTypeOK
    <3>2. counted[i] = at /\ at \in Times
      BY <3>1 DEF InHand, WatchTypeOK
    <3>3. at \in Window(at)
      BY <3>2, CooldownAssumption DEF Window, Times
    <3> QED
      BY <1>1, <3>1, <3>2, <3>3
  <2> QED
    BY <2>2, <2>3
<1> QED
  BY <1>2, <1>3, <1>4

\* The death in hand, once a time is known that covers it.
LEMMA PutDownInv ==
  ASSUME WatchInv, ClockTypeOK', WatchTypeOK', watch \in Deciding, watch' \notin Deciding,
         counted' = counted, PostTimes \subseteq PostTimes',
         NEW t \in PostTimes', at \in Window(t), posted' = posted,
         posted # None => posted \in PostTimes'
  PROVE  WatchInv'
<1> USE DEF WatchInv
<1>1. InHand' /\ MarkIsOfAPost'
  BY DEF InHand, MarkIsOfAPost
<1>2. NeverSilent'
  <2> SUFFICES ASSUME NEW i \in Handled' PROVE \E u \in PostTimes' : counted[i] \in Window(u)
    BY DEF NeverSilent, Window
  <2>1. i \in DOMAIN counted
    BY DEF Handled
  <2>2. CASE i \in Handled
    BY <2>2 DEF NeverSilent
  <2>3. CASE i \notin Handled
    <3>1. i = Len(counted)
      BY <2>1, <2>3 DEF Handled, WatchTypeOK
    <3> QED
      BY <3>1 DEF InHand
  <2> QED
    BY <2>2, <2>3
<1> QED
  BY <1>1, <1>2

LEMMA WatchInvStep == WatchInv /\ [WatchNext]_<<clockVars, watchVars>> => WatchInv'
<1> SUFFICES ASSUME WatchInv, [WatchNext]_<<clockVars, watchVars>> PROVE WatchInv'
  OBVIOUS
<1>0. ClockTypeOK' /\ WatchTypeOK'
  BY WatchTypeStep DEF WatchInv
<1> USE DEF fileVars, historyVars, Deciding, WatchAt
<1>1. CASE WatchStep /\ UNCHANGED clockVars
  <2>1. CASE StackStart \/ StackReload \/ DockerStop \/ DockerStart \/ Death
    <3>1. /\ UNCHANGED <<counted, posts, cutShort, posted>>
          /\ UNCHANGED <<watch, at>> \/ {watch, watch'} \cap Deciding = {}
      BY <2>1 DEF StackStart, StackReload, DockerStop, DockerStart, Death
    <3> QED
      BY <1>0, <3>1, WatchInvQuiet
  <2>2. CASE StackStop \/ StackCut
    <3>1. Down /\ posted' \in {posted, None}
      BY <2>2 DEF StackStop, StackCut
    <3> QED
      BY <1>0, <3>1, DownInv
  <2>3. CASE WatchConnect \/ WatchEnds \/ WatchRead
    <3>1. /\ UNCHANGED <<counted, posts, cutShort, posted>>
          /\ {watch, watch'} \cap Deciding = {}
      BY <2>3 DEF WatchConnect, WatchEnds, WatchRead
    <3> QED
      BY <1>0, <3>1, WatchInvQuiet
  <2>4. CASE WatchCount
    <3> USE <2>4 DEF WatchCount, WatchInv
    <3>1. now \in Times /\ counted' = Append(counted, now) /\ at' = now /\ counted \in Seq(Times)
      BY DEF ClockTypeOK, WatchTypeOK
    <3>2. Len(counted') = Len(counted) + 1 /\ counted'[Len(counted')] = now
      BY <3>1
    <3>3. InHand'
      BY <3>1, <3>2 DEF InHand
    <3>4. PostTimes' = PostTimes
      BY DEF PostTimes
    <3>5. MarkIsOfAPost'
      BY <3>4 DEF MarkIsOfAPost
    <3>6. ASSUME NEW i \in Handled' PROVE i \in Handled /\ counted'[i] = counted[i]
      BY <3>1, <3>2, <3>6 DEF Handled
    <3>7. NeverSilent'
      BY <3>4, <3>6 DEF NeverSilent, Window
    <3> QED
      BY <1>0, <3>3, <3>5, <3>7
  <2>5. CASE WatchDecide
    <3>1. CASE watch' = "mark" \/ watch' = "post"
      <4>1. PostTimes' = PostTimes /\ Handled' = Handled
        BY <2>5, <3>1 DEF WatchDecide, PostTimes, Handled
      <4>2. UNCHANGED <<counted, at>> /\ watch = "decide"
        BY <2>5, <3>1 DEF WatchDecide
      <4>3. InHand'
        BY <4>2 DEF InHand, WatchInv
      <4>4. MarkIsOfAPost'
        BY <2>5, <3>1, <4>1 DEF WatchDecide, MarkIsOfAPost, WatchInv
      <4>5. NeverSilent'
        BY <4>1, <4>2 DEF NeverSilent, Window, WatchInv
      <4> QED
        BY <1>0, <4>3, <4>4, <4>5 DEF WatchInv
    <3>2. CASE watch' = "read"
      <4>1. /\ Within(posted, at) /\ watch = "decide" /\ posted' = posted
            /\ UNCHANGED <<counted, posts, cutShort>>
        BY <2>5, <3>2 DEF WatchDecide
      <4>2. PostTimes' = PostTimes
        BY <4>1 DEF PostTimes
      <4>3. posted \in PostTimes /\ posted \in Times /\ at \in Times
        BY <4>1, NoneAssumption DEF Within, MarkIsOfAPost, WatchInv, WatchTypeOK, TimeOrNone
      <4>4. at \in Window(posted)
        BY <4>1, <4>3, CooldownAssumption DEF Within, Window, Times
      <4> QED
        BY <1>0, <3>2, <4>1, <4>2, <4>3, <4>4, PutDownInv
    <3> QED
      BY <2>5, <3>1, <3>2 DEF WatchDecide
  <2>6. CASE WatchMark
    <3>1. /\ UNCHANGED <<at, counted>> /\ posted' = at
          /\ watch = "mark" /\ watch' = "post"
      BY <2>6 DEF WatchMark
    <3>2. PostTimes' = PostTimes /\ Handled' = Handled
      BY <2>6 DEF WatchMark, PostTimes, Handled
    <3>3. InHand' /\ MarkIsOfAPost'
      BY <3>1 DEF InHand, MarkIsOfAPost, WatchInv
    <3>4. NeverSilent'
      BY <3>1, <3>2 DEF NeverSilent, Window, WatchInv
    <3> QED
      BY <1>0, <3>3, <3>4 DEF WatchInv
  <2>7. CASE WatchPost
    <3>1. /\ UNCHANGED <<posted, counted, cutShort>>
          /\ watch = "post" /\ watch' = "read"
          /\ posts' = Append(posts, [at |-> at, role |-> role])
      BY <2>7 DEF WatchPost
    <3>2. posts \in Seq([at : Times, role : Roles]) /\ [at |-> at, role |-> role] \in [at : Times, role : Roles]
      BY DEF WatchInv, WatchTypeOK
    <3>3. /\ \A i \in DOMAIN posts : i \in DOMAIN posts' /\ posts'[i] = posts[i]
          /\ Len(posts) + 1 \in DOMAIN posts' /\ posts'[Len(posts) + 1].at = at
      BY <3>1, <3>2
    <3>4. PostTimes \subseteq PostTimes' /\ at \in PostTimes'
      BY <3>1, <3>3 DEF PostTimes
    <3>5. at \in Window(at)
      BY CooldownAssumption DEF Window, WatchInv, WatchTypeOK, Times
    <3>6. posted # None => posted \in PostTimes'
      BY <3>4 DEF WatchInv, MarkIsOfAPost
    <3> QED
      BY <1>0, <3>1, <3>4, <3>5, <3>6, PutDownInv
  <2> QED
    BY <1>1, <2>1, <2>2, <2>3, <2>4, <2>5, <2>6, <2>7 DEF WatchStep
<1>2. CASE Clock /\ UNCHANGED watchVars
  BY <1>0, <1>2, WatchInvQuiet DEF watchVars
<1>3. CASE UNCHANGED <<clockVars, watchVars>>
  BY <1>0, <1>3, WatchInvQuiet DEF watchVars
<1> QED
  BY <1>1, <1>2, <1>3 DEF WatchNext

\* `a crash loop of any speed posts at least once per window`
\* (stack-watch.sh:8): no death is passed over without a post in whose window
\* it is, whatever stops, power cuts and clocks do.
THEOREM NeverSilentAlways == WatchSpec => []NeverSilent
<1>1. WatchInv => NeverSilent
  BY DEF WatchInv
<1> QED
  BY <1>1, WatchInvInit, WatchInvStep, PTL DEF WatchSpec

(***************************************************************************)
(* The cadences of a crash loop, while the clock only goes forward and the *)
(* power stays on.  The file then has every death in the window of the     *)
(* last one, and the marks are the last post and the last ping.            *)
(***************************************************************************)
Calm == backs = 0 /\ cuts = 0

Pinging == watch \in {"mark", "post"} /\ role = "role"

\* The last death makes three in its window.
Third == Len(counted) > 2 /\ counted[Len(counted)] \in Window(counted[Len(counted) - 2])

\* What is counted and marked is in the order of the clock, and none of the
\* deaths in the window of the last is forgotten.
CountedInOrder ==
  /\ \A i \in DOMAIN counted : counted[i] <= now
  /\ \A i, j \in DOMAIN counted : i <= j => counted[i] <= counted[j]
  /\ \A i \in DOMAIN counted : counted[Len(counted)] < counted[i] + Cooldown => i \in recent

MarksInPast ==
  \A t \in {posted, pinged} \ {None} : t <= now /\ (watch \in Deciding => t <= at)

OrderInv == CountedInOrder /\ MarksInPast

\* The ping mark is of a ping that was sent, is being sent or was cut short,
\* and a third death has a mark in whose window it is before it is put down.
PingInv ==
  /\ pinged # None => pinged \in PingTimes \/ (Pinging /\ pinged = at)
  /\ watch = "mark" => role = "role"
  /\ watch = "post" /\ role = "-" /\ Third => pinged \in PingTimes /\ Within(pinged, at)
  /\ ThreePing

\* No post is after the mark; what is being posted is far enough from the rest.
SpaceInv ==
  /\ \A i \in DOMAIN posts :
       /\ posted # None /\ posts[i].at <= posted
       /\ posts[i].role = "role" => pinged # None /\ posts[i].at <= pinged
  /\ watch \in {"mark", "post"} \/ role = "-"
  /\ watch = "post" => posted = at
  /\ Pinging => /\ pinged = at
                /\ \A i \in DOMAIN posts : posts[i].role = "role" => posts[i].at + Cooldown <= at
  /\ watch = "post" /\ role = "-" => \A i \in DOMAIN posts : posts[i].at + Cooldown <= at
  /\ PostsSpaced

\* Three things are three.
LEMMA ThreeElements ==
  ASSUME NEW a, NEW b, NEW c, a # b, b # c, a # c
  PROVE  IsFiniteSet({a, b, c}) /\ Cardinality({a, b, c}) = 3
<1>1. IsFiniteSet({a}) /\ Cardinality({a}) = 1 BY FS_Singleton
<1>2. PICK A : A = {a} OBVIOUS
<1>3. PICK B : B = A \cup {b} OBVIOUS
<1>4. PICK C : C = B \cup {c} OBVIOUS
<1>5. b \notin A /\ c \notin B /\ C = {a, b, c} BY <1>2, <1>3, <1>4
<1>6. IsFiniteSet(B) /\ Cardinality(B) = 2
      BY <1>1, <1>2, <1>3, <1>5, FS_AddElement
<1>7. IsFiniteSet(C) /\ Cardinality(C) = 3
      BY <1>4, <1>5, <1>6, FS_AddElement
<1> QED BY <1>5, <1>7

\* Deaths have times of the clock.
LEMMA CountedTimes ==
  ASSUME ClockTypeOK, WatchTypeOK
  PROVE  /\ \A i \in DOMAIN counted : counted[i] \in Times /\ counted[i] \in Nat
         /\ Len(counted) \in Nat /\ DOMAIN counted = 1..Len(counted)
         /\ at \in Nat /\ now \in Nat
         /\ (pinged # None => pinged \in Nat) /\ (posted # None => posted \in Nat)
         /\ \A i \in DOMAIN posts : posts[i].at \in Nat /\ posts[i].role \in Roles
         /\ Len(posts) \in Nat /\ DOMAIN posts = 1..Len(posts)
<1>1. Times \subseteq Nat BY CooldownAssumption DEF Times
<1>2. \A i \in DOMAIN counted : counted[i] \in Times BY DEF WatchTypeOK
<1>3. \A i \in DOMAIN posts : posts[i].at \in Times /\ posts[i].role \in Roles
  <2>1. PICK P : P = [at : Times, role : Roles] OBVIOUS
  <2>2. posts \in Seq([at : Times, role : Roles]) BY DEF WatchTypeOK
  <2>3. posts \in Seq(P) BY <2>1, <2>2
  <2>4. \A i \in DOMAIN posts : posts[i] \in P BY <2>3
  <2> QED BY <2>1, <2>4
<1>4. at \in Times /\ now \in Times /\ {pinged, posted} \subseteq TimeOrNone
      BY DEF WatchTypeOK, ClockTypeOK
<1>5. Len(counted) \in Nat /\ DOMAIN counted = 1..Len(counted) BY DEF WatchTypeOK
<1>6. Len(posts) \in Nat /\ DOMAIN posts = 1..Len(posts) BY DEF WatchTypeOK
<1> QED BY <1>1, <1>2, <1>3, <1>4, <1>5, <1>6 DEF TimeOrNone

\* When the last death is the third in its window, the file has three.
LEMMA ThirdIsMany ==
  ASSUME ClockTypeOK, WatchTypeOK, OrderInv, Third
  PROVE  Many
<1> DEFINE n == Len(counted)
<1>1. n \in Nat /\ n > 2 /\ n - 2 \in Nat /\ n - 1 \in Nat /\ {n - 2, n - 1, n} \subseteq DOMAIN counted
      BY DEF Third, WatchTypeOK
<1>2. \A i \in DOMAIN counted : counted[i] \in Nat
      BY CountedTimes
<1>3. counted[n - 2] <= counted[n - 1] /\ counted[n] < counted[n - 2] + Cooldown
      BY <1>1, <1>2, CooldownAssumption DEF Third, Window, OrderInv, CountedInOrder
<1>4. counted[n] < counted[n] + Cooldown /\ counted[n] < counted[n - 1] + Cooldown
      BY <1>1, <1>2, <1>3, CooldownAssumption
<1>5. {n - 2, n - 1, n} \subseteq recent
      BY <1>1, <1>3, <1>4 DEF OrderInv, CountedInOrder
<1>6. IsFiniteSet(recent)
  <2>1. DOMAIN counted = 1..n BY DEF WatchTypeOK
  <2>2. IsFiniteSet(DOMAIN counted) BY <2>1, <1>1, FS_Interval
  <2> QED BY <2>2, FS_Subset DEF WatchTypeOK
<1>7. Cardinality({n - 2, n - 1, n}) = 3 /\ IsFiniteSet({n - 2, n - 1, n})
  <2>1. n - 2 # n - 1 /\ n - 1 # n /\ n - 2 # n BY <1>1
  <2> HIDE DEF n
  <2> QED BY <2>1, ThreeElements
<1>8. Cardinality({n - 2, n - 1, n}) <= Cardinality(recent)
      BY <1>5, <1>6, FS_Subset
<1>9. Cardinality(recent) \in Nat BY <1>6, FS_CardinalityType
<1> QED BY <1>7, <1>8, <1>9 DEF Many

\* The clock is not set back and the power not cut again.
LEMMA WasCalm ==
  ASSUME WatchInv, Calm', [WatchNext]_<<clockVars, watchVars>>
  PROVE  Calm
<1> USE DEF WatchInv
<1>1. backs' >= backs
      BY DEF WatchNext, Clock, ClockTick, ClockBack, clockVars, ClockTypeOK
<1>2. cuts' >= cuts
  <2>1. CASE StackCut BY <2>1 DEF StackCut, WatchTypeOK
  <2>2. CASE UNCHANGED cuts BY <2>2 DEF WatchTypeOK
  <2> QED BY <2>1, <2>2 DEF WatchNext, WatchStep, StackStart, StackStop, StackReload, DockerStop,
             DockerStart, Death, WatchConnect, WatchEnds, WatchRead, WatchCount, WatchDecide,
             WatchMark, WatchPost, watchVars, historyVars
<1> QED BY <1>1, <1>2 DEF Calm, ClockTypeOK, WatchTypeOK

\* Every step keeps the order.
LEMMA OrderStep ==
  ASSUME WatchInv, WatchInv', Calm', OrderInv, [WatchNext]_<<clockVars, watchVars>>
  PROVE  OrderInv'
<1> USE CountedTimes, NoneAssumption DEF OrderInv, CountedInOrder, MarksInPast, Deciding, WatchAt
<1> USE DEF WatchInv
<1>0. now' \in Nat BY CooldownAssumption DEF ClockTypeOK, Times
<1>1. CASE /\ UNCHANGED <<counted, recent, posted, pinged, at>> /\ now <= now'
           /\ watch' \in Deciding => watch \in Deciding
  <2>1. CountedInOrder' BY <1>0, <1>1
  <2>2. MarksInPast' BY <1>0, <1>1
  <2> QED BY <2>1, <2>2
<1>2. CASE UNCHANGED clockVars /\ WatchCount
  <2>1. counted' = Append(counted, now) /\ now' = now /\ at' = now
        /\ UNCHANGED <<posted, pinged>>
        BY <1>2 DEF WatchCount, clockVars
  <2>2. /\ Len(counted') = Len(counted) + 1 /\ counted'[Len(counted) + 1] = now
        /\ \A i \in DOMAIN counted : counted'[i] = counted[i]
        /\ DOMAIN counted' = DOMAIN counted \cup {Len(counted) + 1}
        BY <2>1
  <2>3. \A i \in DOMAIN counted' : counted'[i] <= now' BY <2>1, <2>2
  <2>4. \A i, j \in DOMAIN counted' : i <= j => counted'[i] <= counted'[j] BY <2>1, <2>2
  <2>5. ASSUME NEW i \in DOMAIN counted', now < counted'[i] + Cooldown
        PROVE  i \in recent'
    <3>1. CASE i = Len(counted) + 1 BY <1>2, <2>2, <3>1 DEF WatchCount
    <3>2. CASE i \in DOMAIN counted
      <4>1. counted[i] <= counted[Len(counted)] /\ counted[Len(counted)] <= now
            /\ Len(counted) \in DOMAIN counted
            BY <3>2
      <4>2. i \in recent BY <2>2, <2>5, <3>2, <4>1, CooldownAssumption
      <4>3. Within(counted[i], now) BY <2>2, <2>5, <3>2, <4>1 DEF Within
      <4> QED BY <1>2, <2>2, <3>2, <4>2, <4>3 DEF WatchCount
    <3> QED BY <2>2, <3>1, <3>2
  <2> QED BY <2>1, <2>2, <2>3, <2>4, <2>5
<1>3. CASE UNCHANGED clockVars /\ (WatchDecide \/ WatchMark)
  <2>1. /\ UNCHANGED <<now, counted, recent>> /\ watch \in Deciding
        /\ (watch' \in Deciding => at' = at)
        /\ posted' \in {posted, at} /\ pinged' \in {pinged, at}
        BY <1>3 DEF WatchDecide, WatchMark, clockVars, historyVars
  <2>2. at <= now BY <2>1 DEF InHand
  <2>3. ASSUME NEW t \in {posted', pinged'} \ {None}
        PROVE  t <= now' /\ (watch' \in Deciding => t <= at')
    <3>1. t \in {posted, pinged} \/ t = at BY <2>1
    <3> QED BY <2>1, <2>2, <3>1
  <2>4. CountedInOrder' BY <2>1
  <2> QED BY <2>3, <2>4
<1>4. CASE UNCHANGED clockVars /\ WatchPost
      BY <1>4 DEF WatchPost, clockVars, fileVars
<1>5. CASE UNCHANGED clockVars /\ (StackStop \/ StackCut)
  <2>1. ~StackCut BY DEF Calm, StackCut, WatchTypeOK
  <2> QED BY <1>5, <2>1 DEF StackStop, Down, clockVars, fileVars
<1>6. CASE Clock /\ UNCHANGED watchVars
  <2>1. ClockTick BY <1>6 DEF Clock, ClockBack, Calm, ClockTypeOK
  <2>2. UNCHANGED <<counted, recent, posted, pinged, at, watch>> /\ now' = now + 1
        BY <1>6, <2>1 DEF ClockTick, watchVars, fileVars, historyVars
  <2> QED BY <1>1, <2>2
<1>7. CASE UNCHANGED clockVars
           /\ (StackStart \/ StackReload \/ DockerStop \/ DockerStart \/ Death
               \/ WatchConnect \/ WatchEnds \/ WatchRead)
      BY <1>1, <1>7 DEF StackStart, StackReload, DockerStop, DockerStart, Death, WatchConnect,
                        WatchEnds, WatchRead, clockVars, fileVars, historyVars
<1>8. CASE UNCHANGED <<clockVars, watchVars>>
      BY <1>1, <1>8 DEF clockVars, watchVars, fileVars, historyVars
<1> QED BY <1>2, <1>3, <1>4, <1>5, <1>6, <1>7, <1>8 DEF WatchNext, WatchStep

\* The deaths that are handled keep their pings, and the one that is put down has one.
LEMMA PingsKept ==
  ASSUME WatchInv, ThreePing, Calm, counted' = counted, PingTimes \subseteq PingTimes',
         \/ Handled' \subseteq Handled
         \/ watch \in Deciding /\ (Third => \E t \in PingTimes' : at \in Window(t))
  PROVE  ThreePing'
<1> SUFFICES ASSUME NEW i \in Handled', i > 2, counted[i] \in Window(counted[i - 2])
             PROVE  \E t \in PingTimes' : counted[i] \in Window(t)
    BY DEF ThreePing, Window
<1>1. i \in DOMAIN counted BY DEF Handled
<1>2. CASE i \in Handled BY <1>2 DEF ThreePing, Calm
<1>3. CASE i \notin Handled
  <2>1. i = Len(counted) /\ watch \in Deciding
        BY <1>1, <1>3, CountedTimes DEF Handled, WatchInv
  <2>2. at = counted[i] /\ Third BY <2>1 DEF InHand, WatchInv, Third
  <2> QED BY <1>3, <2>1, <2>2
<1> QED BY <1>2, <1>3

\* The step of a ping, or of a death that needs none.
LEMMA PingStep ==
  ASSUME WatchInv, WatchInv', Calm', OrderInv, PingInv, [WatchNext]_<<clockVars, watchVars>>
  PROVE  PingInv'
<1> USE CountedTimes, NoneAssumption DEF WatchInv, Deciding, WatchAt
<1>1. Calm BY WasCalm
\* Steps that neither take up a death nor put one down.
<1>2. ASSUME UNCHANGED <<counted, posts, cutShort, pinged>>,
             UNCHANGED <<watch, at, role>> \/ {watch, watch'} \cap Deciding = {}
      PROVE  PingInv'
  <2>1. PingTimes' = PingTimes /\ Handled' = Handled BY <1>2 DEF PingTimes, Handled
  <2>2. ThreePing' BY <1>1, <1>2, <2>1, PingsKept DEF PingInv
  <2>3. Third' <=> Third BY <1>2 DEF Third, Window
  <2> QED BY <1>2, <2>1, <2>2, <2>3 DEF PingInv, Pinging, Within
<1>3. CASE UNCHANGED clockVars /\ WatchCount
  <2>1. counted' = Append(counted, now) /\ UNCHANGED <<posts, cutShort, pinged>>
        /\ watch = "count" /\ watch' = "decide"
        BY <1>3 DEF WatchCount
  <2>2. /\ Len(counted') = Len(counted) + 1
        /\ \A i \in DOMAIN counted : counted'[i] = counted[i]
        BY <2>1
  <2>3. PingTimes' = PingTimes BY <2>1 DEF PingTimes
  <2>4. ASSUME NEW i \in Handled', i > 2
        PROVE  i \in Handled /\ counted'[i] = counted[i] /\ counted'[i - 2] = counted[i - 2]
        BY <2>1, <2>2, <2>4 DEF Handled
  <2>5. ThreePing' BY <1>1, <2>3, <2>4 DEF ThreePing, PingInv, Calm, Window
  <2> QED BY <2>1, <2>3, <2>5 DEF PingInv, Pinging
<1>4. CASE UNCHANGED clockVars /\ WatchDecide
  <2>1. /\ UNCHANGED <<counted, posts, cutShort>> /\ watch = "decide"
        /\ (watch' \in Deciding => at' = at)
        BY <1>4 DEF WatchDecide, historyVars
  <2>2. PingTimes' = PingTimes /\ (Third' <=> Third) BY <2>1 DEF PingTimes, Third, Window
  <2>3. pinged # None => pinged \in PingTimes BY <2>1 DEF PingInv, Pinging
  <2>4. CASE Many /\ ~Within(pinged, at)
    <3>1. watch' = "mark" /\ role' = "role" /\ pinged' = at BY <1>4, <2>4 DEF WatchDecide
    <3>2. ThreePing' BY <1>1, <2>1, <2>2, <3>1, PingsKept DEF PingInv, Handled
    <3> QED BY <2>1, <3>1, <3>2 DEF PingInv, Pinging
  <2>5. CASE ~(Many /\ ~Within(pinged, at))
    <3>1. watch' \in {"post", "read"} /\ UNCHANGED <<role, pinged>>
          BY <1>4, <2>5 DEF WatchDecide
    <3>2. Third => Within(pinged, at) /\ pinged \in PingTimes /\ at \in Window(pinged)
      <4> SUFFICES ASSUME Third PROVE Within(pinged, at) /\ pinged \in PingTimes /\ at \in Window(pinged)
          OBVIOUS
      <4>1. Within(pinged, at) BY <2>5, ThirdIsMany
      <4>2. pinged # None BY <4>1 DEF Within
      <4>3. pinged \in Nat /\ at \in Nat BY <4>2
      <4> QED BY <2>3, <4>1, <4>2, <4>3, CooldownAssumption DEF Within, Window
    <3>3. ThreePing' BY <1>1, <2>1, <2>2, <3>2, PingsKept DEF PingInv
    <3>4. watch' = "post" => at' = at BY <2>1
    <3> QED BY <2>2, <2>3, <3>1, <3>2, <3>3, <3>4 DEF PingInv, Pinging, Within
  <2> QED BY <2>4, <2>5
<1>5. CASE UNCHANGED clockVars /\ WatchMark
  <2>1. /\ UNCHANGED <<counted, posts, cutShort, pinged, at, role>>
        /\ watch = "mark" /\ watch' = "post"
        BY <1>5 DEF WatchMark, historyVars
  <2>2. PingTimes' = PingTimes /\ Handled' = Handled BY <2>1 DEF PingTimes, Handled
  <2>3. ThreePing' BY <1>1, <2>1, <2>2, PingsKept DEF PingInv
  <2> QED BY <2>1, <2>2, <2>3 DEF PingInv, Pinging
<1>6. CASE UNCHANGED clockVars /\ WatchPost
  <2>1. /\ UNCHANGED <<counted, cutShort, pinged>> /\ watch = "post" /\ watch' = "read"
        /\ posts' = Append(posts, [at |-> at, role |-> role])
        BY <1>6 DEF WatchPost, fileVars
  <2>2. /\ \A i \in DOMAIN posts : i \in DOMAIN posts' /\ posts'[i] = posts[i]
        /\ Len(posts) + 1 \in DOMAIN posts'
        /\ posts'[Len(posts) + 1] = [at |-> at, role |-> role]
        BY <2>1
  <2>3. PingTimes \subseteq PingTimes' BY <2>1, <2>2 DEF PingTimes
  <2>4. role = "role" => at \in PingTimes' BY <2>2 DEF PingTimes
  <2>5. ASSUME Third PROVE \E t \in PingTimes' : at \in Window(t)
    <3>1. CASE role = "role"
      <4>1. at \in Window(at) BY CooldownAssumption DEF Window
      <4> QED BY <2>4, <3>1, <4>1
    <3>2. CASE role = "-"
      <4>1. pinged \in PingTimes /\ Within(pinged, at) BY <2>1, <2>5, <3>2 DEF PingInv
      <4>2. pinged \in Nat /\ at \in Nat BY <4>1 DEF Within
      <4>3. at \in Window(pinged) BY <4>1, <4>2, CooldownAssumption DEF Within, Window
      <4> QED BY <2>3, <4>1, <4>3
    <3> QED BY <3>1, <3>2 DEF WatchTypeOK, Roles
  <2>6. ThreePing' BY <1>1, <2>1, <2>3, <2>5, PingsKept DEF PingInv
  <2>7. pinged # None => pinged \in PingTimes' BY <2>3, <2>4 DEF PingInv, Pinging
  <2> QED BY <2>1, <2>6, <2>7 DEF PingInv, Pinging
<1>7. CASE UNCHANGED clockVars /\ (StackStop \/ StackCut)
  <2>1. ~StackCut BY DEF Calm, StackCut, WatchTypeOK
  <2>2. /\ UNCHANGED <<counted, posts, pinged>> /\ watch' = "off"
        /\ cutShort' = cutShort \cup (IF watch \in Deciding THEN {at} ELSE {})
        BY <1>7, <2>1 DEF StackStop, Down, fileVars
  <2>3. PingTimes \subseteq PingTimes' /\ (watch \in Deciding => at \in PingTimes')
        BY <2>2 DEF PingTimes
  <2>4. at \in Window(at) BY CooldownAssumption DEF Window
  <2>5. watch \notin Deciding => Handled' = Handled BY <2>2 DEF Handled
  <2>6. ThreePing' BY <1>1, <2>2, <2>3, <2>4, <2>5, PingsKept DEF PingInv
  <2> QED BY <2>2, <2>3, <2>6 DEF PingInv, Pinging
<1>8. CASE Clock /\ UNCHANGED watchVars
      BY <1>2, <1>8 DEF watchVars, fileVars, historyVars
<1>9. CASE UNCHANGED clockVars
           /\ (StackStart \/ StackReload \/ DockerStop \/ DockerStart \/ Death
               \/ WatchConnect \/ WatchEnds \/ WatchRead)
      BY <1>2, <1>9 DEF StackStart, StackReload, DockerStop, DockerStart, Death, WatchConnect,
                        WatchEnds, WatchRead, fileVars, historyVars
<1>10. CASE UNCHANGED <<clockVars, watchVars>>
      BY <1>2, <1>10 DEF watchVars, fileVars, historyVars
<1> QED BY <1>3, <1>4, <1>5, <1>6, <1>7, <1>8, <1>9, <1>10 DEF WatchNext, WatchStep

\* A post is as far from the posts before it as its role asks.
LEMMA SpaceStep ==
  ASSUME WatchInv, WatchInv', Calm', OrderInv, PingInv, SpaceInv,
         [WatchNext]_<<clockVars, watchVars>>
  PROVE  SpaceInv'
<1> USE CountedTimes, NoneAssumption DEF WatchInv, Deciding, WatchAt
<1>1. Calm BY WasCalm
<1>2. ASSUME UNCHANGED <<posts, posted, pinged>>,
             UNCHANGED <<watch, at, role>> \/ (watch' \notin {"mark", "post"} /\ role' = "-")
      PROVE  SpaceInv'
  <2>1. PostsSpaced' BY <1>1, <1>2 DEF SpaceInv, PostsSpaced, Calm, Window
  <2> QED BY <1>2, <2>1 DEF SpaceInv, Pinging
<1>3. CASE UNCHANGED clockVars /\ WatchCount
      BY <1>2, <1>3 DEF WatchCount, SpaceInv
<1>4. CASE UNCHANGED clockVars /\ WatchDecide
  <2>1. watch = "decide" /\ UNCHANGED posts /\ role = "-"
        BY <1>4 DEF WatchDecide, historyVars, SpaceInv
  <2>2. PostsSpaced' BY <1>1, <2>1 DEF SpaceInv, PostsSpaced, Calm, Window
  <2>3. /\ posted # None => posted <= at
        /\ pinged # None => pinged <= at
        BY <2>1 DEF OrderInv, MarksInPast
  <2>4. CASE Many /\ ~Within(pinged, at)
    <3>1. watch' = "mark" /\ role' = "role" /\ pinged' = at /\ UNCHANGED <<at, posted>>
          BY <1>4, <2>4 DEF WatchDecide
    <3>2. \A i \in DOMAIN posts : posts[i].role = "role" =>
            posts[i].at <= at /\ posts[i].at + Cooldown <= at
          BY <2>3, <2>4, CooldownAssumption DEF Within, SpaceInv
    <3> QED BY <2>1, <2>2, <3>1, <3>2, NoneAssumption DEF SpaceInv, Pinging
  <2>5. CASE ~(Many /\ ~Within(pinged, at)) /\ ~Within(posted, at)
    <3>1. watch' = "post" /\ posted' = at /\ UNCHANGED <<at, role, pinged>>
          BY <1>4, <2>5 DEF WatchDecide
    <3>2. \A i \in DOMAIN posts : posts[i].at <= at /\ posts[i].at + Cooldown <= at
          BY <2>3, <2>5, CooldownAssumption DEF Within, SpaceInv
    <3> QED BY <2>1, <2>2, <3>1, <3>2, NoneAssumption DEF SpaceInv, Pinging
  <2>6. CASE ~(Many /\ ~Within(pinged, at)) /\ Within(posted, at)
        BY <1>2, <1>4, <2>1, <2>6 DEF WatchDecide
  <2> QED BY <2>4, <2>5, <2>6
<1>5. CASE UNCHANGED clockVars /\ WatchMark
  <2>1. /\ UNCHANGED <<posts, pinged, at, role>> /\ posted' = at
        /\ watch = "mark" /\ watch' = "post"
        BY <1>5 DEF WatchMark, historyVars
  <2>2. PostsSpaced' BY <1>1, <2>1 DEF SpaceInv, PostsSpaced, Calm, Window
  <2>3. role = "role" /\ Pinging BY <2>1 DEF PingInv, Pinging
  <2>4. \A i \in DOMAIN posts : posts[i].at <= at
    <3>1. posted # None => posted <= at BY <2>1 DEF OrderInv, MarksInPast
    <3> QED BY <3>1 DEF SpaceInv
  <2> QED BY <2>1, <2>2, <2>3, <2>4 DEF SpaceInv, Pinging
<1>6. CASE UNCHANGED clockVars /\ WatchPost
  <2>1. /\ UNCHANGED <<posted, pinged>> /\ watch = "post" /\ watch' = "read" /\ role' = "-"
        /\ posts' = Append(posts, [at |-> at, role |-> role]) /\ posted = at
        BY <1>6 DEF WatchPost, fileVars, SpaceInv
  <2>2. /\ DOMAIN posts' = DOMAIN posts \cup {Len(posts) + 1}
        /\ \A i \in DOMAIN posts : posts'[i] = posts[i]
        /\ posts'[Len(posts) + 1].at = at /\ posts'[Len(posts) + 1].role = role
        BY <2>1
  <2>3. ASSUME NEW i \in DOMAIN posts'
        PROVE  /\ posted # None /\ posts'[i].at <= posted
               /\ posts'[i].role = "role" => pinged # None /\ posts'[i].at <= pinged
        BY <2>1, <2>2 DEF SpaceInv, Pinging
  <2>4. ASSUME NEW i \in DOMAIN posts', NEW j \in DOMAIN posts', i < j,
               posts'[j].at \in Window(posts'[i].at)
        PROVE  posts'[i].role = "-" /\ posts'[j].role = "role"
    <3>1. i \in DOMAIN posts BY <2>2, <2>4
    <3>2. CASE j \in DOMAIN posts
          BY <1>1, <2>2, <2>4, <3>1, <3>2 DEF SpaceInv, PostsSpaced, Calm
    <3>3. CASE j = Len(posts) + 1
      <4>1. at < posts[i].at + Cooldown
            BY <2>2, <2>4, <3>1, <3>3, CooldownAssumption DEF Window
      <4>2. role = "role" BY <2>1, <3>1, <4>1, CooldownAssumption DEF SpaceInv, WatchTypeOK, Roles
      <4>3. posts[i].role # "role" BY <2>1, <3>1, <4>1, <4>2, CooldownAssumption DEF SpaceInv, Pinging
      <4> QED BY <2>2, <3>1, <3>3, <4>2, <4>3 DEF Roles
    <3> QED BY <2>2, <3>2, <3>3
  <2>5. PostsSpaced' BY <2>4 DEF PostsSpaced, Window
  <2> QED BY <2>1, <2>3, <2>5 DEF SpaceInv, Pinging
<1>7. CASE UNCHANGED clockVars /\ (StackStop \/ StackCut)
  <2>1. ~StackCut BY DEF Calm, StackCut, WatchTypeOK
  <2> QED BY <1>2, <1>7, <2>1 DEF StackStop, Down, fileVars
<1>8. CASE Clock /\ UNCHANGED watchVars
  <2>1. UNCHANGED <<posts, posted, pinged>> /\ UNCHANGED <<watch, at, role>>
        BY <1>8 DEF watchVars, fileVars, historyVars
  <2> QED BY <1>2, <2>1
<1>9. CASE UNCHANGED clockVars
           /\ (StackStart \/ StackReload \/ DockerStop \/ DockerStart \/ Death
               \/ WatchConnect \/ WatchEnds \/ WatchRead)
  <2>1. /\ UNCHANGED <<posts, posted, pinged>> /\ UNCHANGED <<at, role>>
        /\ watch' = watch \/ {watch, watch'} \cap {"mark", "post"} = {}
        BY <1>9 DEF StackStart, StackReload, DockerStop, DockerStart, Death, WatchConnect,
                    WatchEnds, WatchRead, fileVars, historyVars
  <2>2. UNCHANGED <<watch, at, role>> \/ (watch' \notin {"mark", "post"} /\ role' = "-")
        BY <2>1 DEF SpaceInv
  <2> QED BY <1>2, <2>1, <2>2
<1>10. CASE UNCHANGED <<clockVars, watchVars>>
  <2>1. UNCHANGED <<posts, posted, pinged>> /\ UNCHANGED <<watch, at, role>>
        BY <1>10 DEF watchVars, fileVars, historyVars
  <2> QED BY <1>2, <2>1
<1> QED BY <1>3, <1>4, <1>5, <1>6, <1>7, <1>8, <1>9, <1>10 DEF WatchNext, WatchStep

\* `a death that makes three or more in the window posts with the role, at most
\* once per window; any other death posts without it if nothing was posted
\* about the container in the window' (stack-watch.sh:5), whatever deaths come and
\* however often the stack or Docker stops.
THEOREM CrashLoopsPost == WatchSpec => []CrashLoopPosts
<1> DEFINE LoopInv == WatchInv /\ (Calm => OrderInv /\ PingInv /\ SpaceInv)
<1>1. ClockInit /\ WatchInit => LoopInv
  <2> SUFFICES ASSUME ClockInit, WatchInit PROVE OrderInv /\ PingInv /\ SpaceInv
      BY WatchInvInit
  <2>1. OrderInv BY DEF WatchInit, OrderInv, CountedInOrder, MarksInPast
  <2>2. PingInv BY DEF WatchInit, PingInv, Pinging, ThreePing, Handled
  <2>3. SpaceInv BY DEF WatchInit, SpaceInv, Pinging, PostsSpaced
  <2> QED BY <2>1, <2>2, <2>3
<1>2. LoopInv /\ [WatchNext]_<<clockVars, watchVars>> => LoopInv'
  <2> SUFFICES ASSUME LoopInv, [WatchNext]_<<clockVars, watchVars>> PROVE LoopInv'
      OBVIOUS
  <2>1. WatchInv' BY WatchInvStep
  <2>2. Calm' => Calm BY WasCalm
  <2> QED BY <2>1, <2>2, OrderStep, PingStep, SpaceStep
<1>3. LoopInv => CrashLoopPosts
  <2>1. ~Calm => CrashLoopPosts BY DEF Calm, CrashLoopPosts, ThreePing, PostsSpaced
  <2> QED BY <2>1 DEF CrashLoopPosts, PingInv, SpaceInv
<1> QED BY <1>1, <1>2, <1>3, PTL DEF WatchSpec

(***************************************************************************)
(* The relay, for any groups of any number of alerts, any timeouts that    *)
(* fit, any number of threads, and the relay dying any time.               *)
(***************************************************************************)

LEMMA NotFree == \A r \in Requests : r # Free
BY DEF Requests, Free

\* The threads with requests.
LEMMA LiveThreads ==
  ASSUME RelayTypeOK
  PROVE  /\ Live \subseteq Threads /\ \A t \in Live : thread[t] \in Requests
         /\ \A t \in Threads \ Live : thread[t] = Free
BY DEF RelayTypeOK, Live

LEMMA Fits ==
  ASSUME NEW g \in Groups, NEW n \in Nat, n <= Alerts[g] PROVE n * SendTimeout < Deadline
<1>1. Alerts[g] \in Nat /\ SendTimeout \in Nat /\ Deadline \in Nat /\ Alerts[g] * SendTimeout < Deadline
  BY RelayAssumption
<1>2. n * SendTimeout <= Alerts[g] * SendTimeout
  BY <1>1
<1>3. n * SendTimeout \in Nat /\ Alerts[g] * SendTimeout \in Nat
  BY <1>1
<1> QED BY <1>1, <1>2, <1>3

LEMMA InitialRelay == ASSUME RelayInit PROVE RelayTypeOK
<1>1. Live = {}
  BY DEF RelayInit, Live
<1>2. tried \in [Groups -> BOOLEAN] /\ agreed \in [Groups -> BOOLEAN]
  BY DEF RelayInit
<1> QED BY <1>1, <1>2, RelayAssumption DEF RelayInit, RelayTypeOK, Kinds

\* Where the threads are of their type, what is left of the invariant.
LEMMA ThreadsStep ==
  ASSUME NEW t \in Threads, NEW r \in Requests \cup {Free}, RelayTypeOK,
         thread' = [thread EXCEPT ![t] = r],
         r # Free => r.next <= Alerts[r.group] + 1
  PROVE  /\ thread' \in [Threads -> Requests \cup {Free}]
         /\ \A u \in Live' : thread'[u].next <= Alerts[thread'[u].group] + 1
         /\ Live' = IF r = Free THEN Live \ {t} ELSE Live \cup {t}
BY DEF RelayTypeOK, Live

\* A request as it is when it is sent, and after one of its posts.
LEMMA Sent ==
  ASSUME NEW g, NEW t, RelayTypeOK, g \in Groups, t \in Threads, Request(g, t)
  PROVE  \E r \in Requests :
           /\ thread' = [thread EXCEPT ![t] = r]
           /\ r.group = g /\ r.kind = flush[g] /\ r.next = 1 /\ r.ok /\ r.spent = 0 /\ r.waited = 0
           /\ r.awaited /\ r.first = ~ tried[g]
           /\ r.alone <=> \A u \in Live : thread[u].group # g
<1> DEFINE first == ~ tried[g]
           alone == \A u \in Live : thread[u].group # g
           r == [group |-> g, kind |-> flush[g], next |-> 1, ok |-> TRUE, spent |-> 0,
                 awaited |-> TRUE, waited |-> 0, first |-> first, alone |-> alone]
<1>1. thread' = [thread EXCEPT ![t] = r]
  BY Zenon DEF Request
<1>2. first \in BOOLEAN /\ alone \in BOOLEAN
  OBVIOUS
<1>3. flush[g] \in Kinds \ {"none"}
  BY DEF Request, RelayTypeOK
<1>4. 0 \in 0..SendTimeout /\ 0 \in 0..Deadline /\ 1 \in Nat \ {0}
  BY RelayAssumption
<1> HIDE DEF first, alone
<1>5. r \in Requests
  BY <1>2, <1>3, <1>4 DEF Requests
<1>6. r.first = first /\ r.alone = alone
  OBVIOUS
<1>7. /\ r.group = g /\ r.kind = flush[g] /\ r.next = 1 /\ r.ok /\ r.spent = 0 /\ r.waited = 0
      /\ r.awaited
  OBVIOUS
<1> HIDE DEF r
<1> QED
  BY <1>1, <1>5, <1>6, <1>7, Zenon DEF first, alone

LEMMA Posted ==
  ASSUME NEW t, NEW good \in BOOLEAN, RelayTypeOK, t \in Live, Posting(t), Done(t, good)
  PROVE  \E r \in Requests :
           /\ thread' = [thread EXCEPT ![t] = r]
           /\ r.next = thread[t].next + 1 /\ r.next <= Alerts[r.group] + 1 /\ r.spent = 0
           /\ r.ok <=> thread[t].ok /\ good
           /\ r.group = thread[t].group /\ r.kind = thread[t].kind /\ r.waited = thread[t].waited
           /\ r.awaited = thread[t].awaited /\ r.first = thread[t].first /\ r.alone = thread[t].alone
<1> DEFINE ok == thread[t].ok /\ good
           r == [thread[t] EXCEPT !.next = @ + 1, !.spent = 0, !.ok = ok]
<1>1. thread[t] \in Requests /\ t \in Threads
  BY LiveThreads
<1>2. thread' = [thread EXCEPT ![t] = r]
  BY DEF Done
<1>3. ok \in BOOLEAN
  OBVIOUS
<1>4. 0 \in 0..SendTimeout /\ Alerts[thread[t].group] \in Nat
  BY <1>1, RelayAssumption DEF Requests
<1> HIDE DEF ok
<1>9. thread[t].next + 1 \in Nat \ {0}
  BY <1>1 DEF Requests
<1>5. r \in Requests
  BY <1>1, <1>3, <1>4, <1>9 DEF Requests
<1>6. r.ok = ok
  BY <1>1 DEF Requests
<1>7. /\ r.next = thread[t].next + 1 /\ r.next <= Alerts[r.group] + 1 /\ r.spent = 0
      /\ r.group = thread[t].group /\ r.kind = thread[t].kind /\ r.waited = thread[t].waited
  BY <1>1, <1>4 DEF Requests, Posting
<1>8. r.awaited = thread[t].awaited /\ r.first = thread[t].first /\ r.alone = thread[t].alone
  BY <1>1 DEF Requests
<1> HIDE DEF r
<1> QED
  BY <1>2, <1>5, <1>6, <1>7, <1>8, Zenon DEF ok

\* What Alertmanager gives up is only no longer awaited.
LEMMA GivenUp ==
  ASSUME NEW g, RelayTypeOK, g \in Groups, GiveUp(g)
  PROVE  /\ thread' \in [Threads -> Requests \cup {Free}] /\ Live' = Live
         /\ \A t \in Live \ Waiting(g) : thread'[t] = thread[t]
         /\ \A t \in Waiting(g) : /\ ~ thread'[t].awaited
                                  /\ thread'[t].group = g /\ thread'[t].kind = thread[t].kind
                                  /\ thread'[t].next = thread[t].next
                                  /\ thread'[t].first = thread[t].first
<1>1. \A t \in Live : t \in Threads /\ thread[t] \in Requests
  BY LiveThreads
<1>2. \A r \in Requests : /\ [r EXCEPT !.awaited = FALSE] \in Requests
                          /\ ~ [r EXCEPT !.awaited = FALSE].awaited
                          /\ [r EXCEPT !.awaited = FALSE].group = r.group
                          /\ [r EXCEPT !.awaited = FALSE].kind = r.kind
                          /\ [r EXCEPT !.awaited = FALSE].next = r.next
                          /\ [r EXCEPT !.awaited = FALSE].first = r.first
  BY DEF Requests
<1>3. Waiting(g) \subseteq Live /\ \A t \in Waiting(g) : thread[t].group = g
  BY DEF Waiting
<1>4. thread' = [t \in Threads |->
                   IF t \in Waiting(g) THEN [thread[t] EXCEPT !.awaited = FALSE] ELSE thread[t]]
  BY DEF GiveUp
<1>5. \A t \in Threads : thread'[t] \in Requests \cup {Free} /\ (thread'[t] = Free <=> thread[t] = Free)
  BY <1>1, <1>2, <1>3, <1>4, NotFree DEF RelayTypeOK
<1>6. thread' \in [Threads -> Requests \cup {Free}]
  BY <1>4, <1>5
<1>7. Live' = Live
  BY <1>5 DEF Live
<1> QED BY <1>1, <1>2, <1>3, <1>4, <1>6, <1>7

\* A minute of every request.
LEMMA Waited ==
  ASSUME RelayTypeOK, Minute
  PROVE  /\ thread' \in [Threads -> Requests \cup {Free}] /\ Live' = Live
         /\ \A t \in Live :
              /\ thread[t].next <= Alerts[thread[t].group] /\ thread[t].spent < SendTimeout
              /\ thread'[t].spent = thread[t].spent + 1
              /\ thread[t].awaited => thread'[t].waited = thread[t].waited + 1
              /\ thread'[t].group = thread[t].group /\ thread'[t].kind = thread[t].kind
              /\ thread'[t].next = thread[t].next /\ thread'[t].awaited = thread[t].awaited
              /\ thread'[t].first = thread[t].first /\ thread'[t].alone = thread[t].alone
              /\ thread'[t].ok = thread[t].ok
<1> DEFINE Later(t) == [thread[t] EXCEPT !.spent = IF Posting(t) THEN Least(@ + 1, SendTimeout) ELSE @,
                                         !.waited = Least(@ + 1, Deadline)]
<1>1. SendTimeout \in Nat /\ Deadline \in Nat
  BY RelayAssumption
<1>2. \A t \in Live : t \in Threads /\ thread[t] \in Requests
  BY LiveThreads
<1>3. thread' = [t \in Threads |-> IF thread[t] = Free THEN Free ELSE Later(t)]
  BY DEF Minute
<1>4. ASSUME NEW t \in Live
      PROVE  /\ Later(t) \in Requests
             /\ thread[t].next <= Alerts[thread[t].group] /\ thread[t].spent < SendTimeout
             /\ Later(t).spent = thread[t].spent + 1
             /\ thread[t].awaited => Later(t).waited = thread[t].waited + 1
             /\ Later(t).group = thread[t].group /\ Later(t).kind = thread[t].kind
             /\ Later(t).next = thread[t].next /\ Later(t).awaited = thread[t].awaited
             /\ Later(t).first = thread[t].first /\ Later(t).alone = thread[t].alone
             /\ Later(t).ok = thread[t].ok
  <2>1. /\ Posting(t) /\ thread[t].spent < SendTimeout
        /\ thread[t].awaited => thread[t].waited < Deadline
    BY DEF Minute, Running, MayWait
  <2>2. thread[t] \in Requests /\ thread[t].spent \in 0..SendTimeout /\ thread[t].waited \in 0..Deadline
    BY <1>2 DEF Requests
  <2>3. Least(thread[t].spent + 1, SendTimeout) = thread[t].spent + 1
    BY <1>1, <2>1, <2>2 DEF Least
  <2>4. /\ Least(thread[t].waited + 1, Deadline) \in 0..Deadline
        /\ thread[t].awaited => Least(thread[t].waited + 1, Deadline) = thread[t].waited + 1
    BY <1>1, <2>1, <2>2 DEF Least
  <2>5. Later(t) = [thread[t] EXCEPT !.spent = thread[t].spent + 1,
                                     !.waited = Least(thread[t].waited + 1, Deadline)]
    BY <2>1, <2>2, <2>3 DEF Requests
  <2>6. thread[t].spent + 1 \in 0..SendTimeout
    BY <1>1, <2>1, <2>2
  <2> HIDE DEF Later
  <2> QED BY <2>1, <2>2, <2>4, <2>5, <2>6 DEF Requests, Posting
<1> HIDE DEF Later
<1>5. \A t \in Live : thread'[t] = Later(t) /\ thread'[t] # Free
  BY <1>2, <1>3, <1>4, NotFree DEF Live
<1>6. \A t \in Threads \ Live : thread'[t] = Free
  BY <1>3 DEF Live
<1>7. thread' \in [Threads -> Requests \cup {Free}]
  BY <1>2, <1>3, <1>4, <1>5, <1>6
<1>8. Live' = Live
  BY <1>2, <1>5, <1>6 DEF Live
<1> QED BY <1>4, <1>5, <1>7, <1>8

\* What a post that arrives changes of what is shown.
LEMMA OnePost ==
  ASSUME NEW f, NEW h, NEW k \in Kinds, NEW g \in Groups, NEW i \in 1..Alerts[g],
         DOMAIN f = Groups, \A x \in Groups : f[x] \in [1..Alerts[x] -> Kinds],
         h = [f EXCEPT ![g][i] = k]
  PROVE  /\ DOMAIN h = Groups /\ \A x \in Groups : h[x] \in [1..Alerts[x] -> Kinds]
         /\ h[g][i] = k
         /\ \A x \in Groups : \A j \in 1..Alerts[x] : x # g \/ j # i => h[x][j] = f[x][j]
OBVIOUS

LEMMA RelayTypeStep == ASSUME RelayTypeOK, [RelayNext]_relayVars PROVE RelayTypeOK'
<1> DEFINE ThreadsOK == /\ thread \in [Threads -> Requests \cup {Free}]
                        /\ \A t \in Live : thread[t].next <= Alerts[thread[t].group] + 1
           ShownOK == DOMAIN shown = Groups /\ \A g \in Groups : shown[g] \in [1..Alerts[g] -> Kinds]
           RestOK == /\ status \in [Groups -> Kinds] /\ sent \in [Groups -> Kinds]
                     /\ flush \in [Groups -> Kinds]
                     /\ turns \in 0..MaxTurns /\ age \in [Groups -> 0..Interval]
           FlagsOK == tried \in [Groups -> BOOLEAN] /\ agreed \in [Groups -> BOOLEAN]
<1>1. ThreadsOK /\ ShownOK /\ RestOK /\ FlagsOK
  BY DEF RelayTypeOK
<1> SUFFICES ThreadsOK' /\ ShownOK' /\ RestOK' /\ FlagsOK'
  BY DEF RelayTypeOK
<1> USE RelayAssumption
<1>2. ASSUME NEW g \in Groups, Turns(g) PROVE ThreadsOK' /\ ShownOK' /\ RestOK' /\ FlagsOK'
  <2>1. UNCHANGED <<sent, flush, age, tried, thread, shown, agreed>>
    BY <1>2 DEF Turns
  <2>2. RestOK'
    BY <1>1, <1>2 DEF Turns, Kinds
  <2> QED BY <1>1, <2>1, <2>2 DEF Live
<1>3. ASSUME NEW g \in Groups, Flush(g) PROVE ThreadsOK' /\ ShownOK' /\ RestOK' /\ FlagsOK'
  <2>1. UNCHANGED <<status, turns, sent, thread, shown, agreed>>
    BY <1>3 DEF Flush
  <2>2. RestOK'
    BY <1>1, <1>3 DEF Flush
  <2>3. tried' \in [Groups -> BOOLEAN]
    BY <1>1, <1>3 DEF Flush
  <2> QED BY <1>1, <2>1, <2>2, <2>3 DEF Live
<1>4. ASSUME NEW g \in Groups, NEW t \in Threads, Request(g, t)
      PROVE  ThreadsOK' /\ ShownOK' /\ RestOK' /\ FlagsOK'
  <2>1. UNCHANGED <<status, turns, sent, flush, age, tried, shown>>
    BY <1>4 DEF Request
  <2>2. PICK r \in Requests : thread' = [thread EXCEPT ![t] = r] /\ r.group = g /\ r.next = 1
    BY <1>4, Sent
  <2>3. r.next <= Alerts[r.group] + 1
    BY <2>2
  <2>4. ThreadsOK'
    BY <2>2, <2>3, ThreadsStep
  <2>5. agreed' \in [Groups -> BOOLEAN]
    BY <1>1, <1>4 DEF Request
  <2> QED BY <1>1, <2>1, <2>4, <2>5
<1>5. ASSUME NEW g \in Groups, GiveUp(g) PROVE ThreadsOK' /\ ShownOK' /\ RestOK' /\ FlagsOK'
  <2>1. UNCHANGED <<status, turns, sent, age, shown, agreed>>
    BY <1>5 DEF GiveUp
  <2>2. ThreadsOK'
    <3>1. /\ thread' \in [Threads -> Requests \cup {Free}] /\ Live' = Live
          /\ \A t \in Live : thread'[t].next = thread[t].next /\ thread'[t].group = thread[t].group
      BY <1>5, GivenUp DEF Waiting
    <3> QED BY <1>1, <3>1
  <2>3. flush' \in [Groups -> Kinds]
    BY <1>1, <1>5 DEF GiveUp, Kinds
  <2>4. tried' \in [Groups -> BOOLEAN]
    BY <1>1, <1>5 DEF GiveUp
  <2> QED BY <1>1, <2>1, <2>2, <2>3, <2>4
<1>6. ASSUME NEW t \in Live, PostOk(t) \/ PostFails(t)
      PROVE  ThreadsOK' /\ ShownOK' /\ RestOK' /\ FlagsOK'
  <2>1. UNCHANGED <<status, turns, sent, flush, age, tried, agreed>>
    BY <1>6 DEF PostOk, PostFails
  <2>2. PICK r \in Requests : thread' = [thread EXCEPT ![t] = r] /\ r.next <= Alerts[r.group] + 1
    BY <1>6, Posted, TRUE \in BOOLEAN, FALSE \in BOOLEAN DEF PostOk, PostFails
  <2>3. ThreadsOK'
    BY <2>2, ThreadsStep, LiveThreads
  <2>4. /\ thread[t].group \in Groups /\ thread[t].kind \in Kinds
        /\ thread[t].next \in 1..Alerts[thread[t].group]
    <3>1. thread[t] \in Requests /\ thread[t].next <= Alerts[thread[t].group]
      BY <1>6, LiveThreads DEF PostOk, PostFails, Posting
    <3> QED BY <3>1 DEF Requests
  <2>5. ShownOK'
    <3>1. CASE UNCHANGED shown
      BY <1>1, <3>1
    <3>2. CASE Arrives(t)
      BY <1>1, <2>4, <3>2, OnePost DEF Arrives
    <3> QED BY <1>6, <3>1, <3>2 DEF PostOk, PostFails
  <2> QED BY <1>1, <2>1, <2>3, <2>5
<1>7. ASSUME NEW t \in Live, Reply(t) PROVE ThreadsOK' /\ ShownOK' /\ RestOK' /\ FlagsOK'
  <2>1. UNCHANGED <<status, turns, age, shown>>
    BY <1>7 DEF Reply
  <2>2. ThreadsOK'
    BY <1>7, ThreadsStep, LiveThreads DEF Reply
  <2>3. thread[t].group \in Groups
    BY LiveThreads DEF Requests
  <2>4. sent' \in [Groups -> Kinds] /\ flush' \in [Groups -> Kinds]
    BY <1>1, <1>7 DEF Reply, Kinds
  <2>5. tried' \in [Groups -> BOOLEAN] /\ agreed' \in [Groups -> BOOLEAN]
    BY <1>1, <1>7, Zenon DEF Reply
  <2> QED BY <1>1, <2>1, <2>2, <2>4, <2>5
<1>8. CASE RelayDies
  <2>1. UNCHANGED <<status, turns, sent, flush, age, agreed>>
    BY <1>8 DEF RelayDies
  <2>2. thread' = [t \in Threads |-> Free]
    BY <1>8 DEF RelayDies
  <2>3. Live' = {}
    BY <2>2 DEF Live
  <2>4. tried' \in [Groups -> BOOLEAN]
    BY <1>8 DEF RelayDies
  <2>5. ShownOK'
    <3>1. PICK reached \in SUBSET Live :
            shown' = [g \in Groups |-> [i \in 1..Alerts[g] |->
              IF \E t \in reached : thread[t].group = g /\ thread[t].next = i
              THEN (CHOOSE th \in {thread[t] : t \in reached} : th.group = g /\ th.next = i).kind
              ELSE shown[g][i]]]
      BY <1>8 DEF RelayDies
    <3>2. ASSUME NEW g \in Groups, NEW i \in 1..Alerts[g] PROVE shown'[g][i] \in Kinds
      <4>1. CASE \E t \in reached : thread[t].group = g /\ thread[t].next = i
        <5>1. \E th \in {thread[t] : t \in reached} : th.group = g /\ th.next = i
          BY <4>1
        <5>2. (CHOOSE th \in {thread[t] : t \in reached} : th.group = g /\ th.next = i)
                \in {thread[t] : t \in reached}
          BY <5>1
        <5>3. \A th \in {thread[t] : t \in reached} : th.kind \in Kinds
          BY LiveThreads DEF Requests
        <5> QED BY <3>1, <4>1, <5>2, <5>3
      <4>2. CASE ~ \E t \in reached : thread[t].group = g /\ thread[t].next = i
        BY <1>1, <3>1, <4>2
      <4> QED BY <4>1, <4>2
    <3> QED BY <3>1, <3>2
  <2> QED BY <1>1, <2>1, <2>2, <2>3, <2>4, <2>5
<1>9. CASE Minute
  <2>1. UNCHANGED <<status, turns, sent, flush, tried, shown, agreed>>
    BY <1>9 DEF Minute
  <2>2. ThreadsOK'
    BY <1>1, <1>9, Waited
  <2>3. age' \in [Groups -> 0..Interval]
    <3>1. \A g \in Groups : Least(age[g] + 1, Interval) \in 0..Interval
      BY <1>1 DEF Least
    <3> QED BY <1>9, <3>1 DEF Minute
  <2> QED BY <1>1, <2>1, <2>2, <2>3
<1>10. CASE UNCHANGED relayVars
  BY <1>1, <1>10 DEF relayVars, Live
<1> QED
  BY <1>2, <1>3, <1>4, <1>5, <1>6, <1>7, <1>8, <1>9, <1>10 DEF RelayNext

\* Every variable of the relay keeps its type.
THEOREM RelayTypeCorrect == RelaySpec => []RelayTypeOK
BY InitialRelay, RelayTypeStep, PTL DEF RelaySpec

---------------------------------------------------------------------------
\* The first request of a flush is answered in time.

\* Alertmanager awaits one answer about a group, and of what it notifies.
AwaitedInv ==
  /\ \A t, u \in Live : thread[t].awaited /\ thread[u].awaited /\ thread[t].group = thread[u].group => t = u
  /\ \A t \in Live : thread[t].awaited => /\ flush[thread[t].group] # "none"
                                          /\ thread[t].kind = flush[thread[t].group]

\* A first request began with its flush, and has spent no more than its posts may.
FirstInv ==
  /\ \A t \in Live : thread[t].first =>
       /\ thread[t].awaited /\ thread[t].waited = age[thread[t].group]
       /\ thread[t].waited <= (thread[t].next - 1) * SendTimeout + thread[t].spent
       /\ thread[t].next > Alerts[thread[t].group] => thread[t].spent = 0
  /\ \A g \in Groups : flush[g] # "none" /\ ~ tried[g] /\ Waiting(g) = {} => age[g] = 0

FlushInv == RelayTypeOK /\ AwaitedInv /\ FirstInv

\* So its deadline has not come.
LEMMA FirstIsEarly ==
  ASSUME FlushInv, NEW t \in Live, thread[t].first
  PROVE  thread[t].waited < Deadline /\ age[thread[t].group] < Interval
<1>1. /\ thread[t] \in Requests /\ thread[t].next <= Alerts[thread[t].group] + 1
      /\ thread[t].waited = age[thread[t].group]
      /\ thread[t].waited <= (thread[t].next - 1) * SendTimeout + thread[t].spent
      /\ thread[t].next > Alerts[thread[t].group] => thread[t].spent = 0
  BY LiveThreads DEF FlushInv, FirstInv, RelayTypeOK
<1>2. /\ thread[t].next \in Nat \ {0} /\ thread[t].spent \in 0..SendTimeout
      /\ thread[t].waited \in 0..Deadline /\ thread[t].group \in Groups
      /\ Alerts[thread[t].group] \in Nat /\ SendTimeout \in Nat /\ Deadline \in Nat
      /\ Interval \in Nat /\ Deadline < Interval
  BY <1>1, RelayAssumption DEF Requests
<1> DEFINE n == thread[t].next - 1
<1>3. n \in Nat /\ n + 1 \in Nat /\ n <= Alerts[thread[t].group]
  BY <1>1, <1>2
<1>4. CASE n = Alerts[thread[t].group]
  <2>1. n * SendTimeout < Deadline
    BY <1>2, <1>3, Fits
  <2> QED BY <1>1, <1>2, <1>3, <1>4, <2>1
<1>5. CASE n < Alerts[thread[t].group]
  <2>1. (n + 1) * SendTimeout < Deadline
    BY <1>2, <1>3, <1>5, Fits
  <2>2. (n + 1) * SendTimeout = n * SendTimeout + SendTimeout
    BY <1>2, <1>3
  <2>3. n * SendTimeout \in Nat
    BY <1>2, <1>3
  <2> HIDE DEF n
  <2> QED BY <1>1, <1>2, <2>1, <2>2, <2>3 DEF n
<1> QED BY <1>2, <1>3, <1>4, <1>5

LEMMA FlushStep == ASSUME FlushInv, [RelayNext]_relayVars PROVE FlushInv'
<1>1. RelayTypeOK /\ RelayTypeOK' /\ AwaitedInv /\ FirstInv
  BY RelayTypeStep DEF FlushInv
<1>2. \A t \in Live : t \in Threads /\ thread[t] \in Requests /\ thread[t].group \in Groups
  BY <1>1, LiveThreads DEF Requests
<1>3. flush \in [Groups -> Kinds] /\ tried \in [Groups -> BOOLEAN] /\ age \in [Groups -> 0..Interval]
  BY <1>1 DEF RelayTypeOK
<1> SUFFICES AwaitedInv' /\ FirstInv'
  BY <1>1 DEF FlushInv
<1>4. ASSUME NEW g \in Groups, Turns(g) PROVE AwaitedInv' /\ FirstInv'
  <2>1. UNCHANGED <<flush, age, tried, thread>>
    BY <1>4 DEF Turns
  <2> QED BY <1>1, <2>1 DEF AwaitedInv, FirstInv, Live, Waiting
<1>5. ASSUME NEW g \in Groups, Flush(g) PROVE AwaitedInv' /\ FirstInv'
  <2>1. /\ thread' = thread /\ flush[g] = "none"
        /\ \A h \in Groups \ {g} : flush'[h] = flush[h] /\ age'[h] = age[h] /\ tried'[h] = tried[h]
        /\ age'[g] = 0
    BY <1>3, <1>5 DEF Flush
  <2>2. Live' = Live /\ \A h : Waiting(h)' = Waiting(h)
    BY <2>1 DEF Live, Waiting
  <2>3. \A t \in Live : thread[t].awaited => thread[t].group # g
    BY <1>1, <2>1 DEF AwaitedInv
  <2>4. AwaitedInv'
    BY <1>1, <1>2, <2>1, <2>2, <2>3 DEF AwaitedInv
  <2>5. FirstInv'
    BY <1>1, <1>2, <2>1, <2>2, <2>3 DEF FirstInv
  <2> QED BY <2>4, <2>5
<1>6. ASSUME NEW g \in Groups, NEW t \in Threads, Request(g, t) PROVE AwaitedInv' /\ FirstInv'
  <2>1. PICK r \in Requests :
           /\ thread' = [thread EXCEPT ![t] = r]
           /\ r.group = g /\ r.kind = flush[g] /\ r.next = 1 /\ r.spent = 0 /\ r.waited = 0
           /\ r.awaited /\ r.first = ~ tried[g]
    BY <1>1, <1>6, Sent
  <2>2. /\ flush[g] # "none" /\ Waiting(g) = {} /\ thread[t] = Free
        /\ UNCHANGED <<flush, age, tried>>
    BY <1>6 DEF Request
  <2>3. /\ Live' = Live \cup {t} /\ t \notin Live /\ thread'[t] = r
        /\ \A u \in Live : thread'[u] = thread[u]
    BY <1>1, <2>1, <2>2, NotFree DEF Live, RelayTypeOK
  <2>4. \A u \in Live : thread[u].awaited => thread[u].group # g
    BY <2>2 DEF Waiting
  <2>5. AwaitedInv'
    BY <1>1, <2>1, <2>2, <2>3, <2>4 DEF AwaitedInv
  <2>6. \A h \in Groups : Waiting(h)' = {} => Waiting(h) = {}
    BY <2>3 DEF Waiting
  <2>7. \A u \in Live' : thread'[u].first =>
          /\ thread'[u].awaited /\ thread'[u].waited = age[thread'[u].group]
          /\ thread'[u].waited <= (thread'[u].next - 1) * SendTimeout + thread'[u].spent
          /\ thread'[u].next > Alerts[thread'[u].group] => thread'[u].spent = 0
    <3>1. r.first => age[g] = 0
      BY <1>1, <2>1, <2>2 DEF FirstInv
    <3>2. (r.next - 1) * SendTimeout + r.spent = 0
      BY <2>1, RelayAssumption
    <3> QED BY <1>1, <2>1, <2>3, <3>1, <3>2 DEF FirstInv
  <2>8. FirstInv'
    BY <1>1, <2>2, <2>6, <2>7 DEF FirstInv
  <2> QED BY <2>5, <2>8
<1>7. ASSUME NEW g \in Groups, GiveUp(g) PROVE AwaitedInv' /\ FirstInv'
  <2>1. /\ age' = age /\ tried'[g]
        /\ \A h \in Groups \ {g} : flush'[h] = flush[h] /\ tried'[h] = tried[h]
        /\ age[g] = Interval \/ \E t \in Waiting(g) : thread[t].waited = Deadline
    BY <1>3, <1>7 DEF GiveUp
  <2>2. /\ Live' = Live
        /\ \A t \in Live \ Waiting(g) : thread'[t] = thread[t]
        /\ \A t \in Waiting(g) : ~ thread'[t].awaited /\ thread'[t].first = thread[t].first
    BY <1>1, <1>7, GivenUp
  <2>3. \A t \in Live : thread[t].first => thread[t].group # g
    <3>1. SUFFICES ASSUME NEW t \in Live, thread[t].first, thread[t].group = g PROVE FALSE
      OBVIOUS
    <3>2. thread[t].waited < Deadline /\ age[g] < Interval /\ thread[t].awaited
      BY <3>1, FirstIsEarly DEF FlushInv, FirstInv
    <3>3. Interval \in Nat /\ Deadline \in Nat /\ age[g] \in 0..Interval
      BY <1>3, RelayAssumption
    <3>4. PICK u \in Waiting(g) : thread[u].waited = Deadline
      BY <2>1, <3>2, <3>3
    <3>5. u = t
      BY <1>1, <3>1, <3>2, <3>4 DEF AwaitedInv, Waiting
    <3>6. thread[t].waited \in 0..Deadline
      BY <1>2 DEF Requests
    <3> QED BY <3>2, <3>3, <3>4, <3>5, <3>6
  <2>4. \A t \in Live : thread'[t].awaited => thread'[t] = thread[t] /\ thread[t].group # g
    BY <2>2 DEF Waiting
  <2>5. AwaitedInv'
    BY <1>1, <1>2, <2>1, <2>2, <2>4 DEF AwaitedInv
  <2>6. \A t \in Live : thread'[t].first => thread'[t] = thread[t] /\ thread[t].group # g
    BY <2>2, <2>3 DEF Waiting
  <2>7. \A h \in Groups \ {g} : Waiting(h)' = Waiting(h)
    BY <2>2, <2>4 DEF Waiting
  <2>8. FirstInv'
    BY <1>1, <2>1, <2>2, <2>6, <2>7 DEF FirstInv
  <2> QED BY <2>5, <2>8
<1>8. ASSUME NEW t \in Live, PostOk(t) \/ PostFails(t) PROVE AwaitedInv' /\ FirstInv'
  <2>1. PICK r \in Requests :
           /\ thread' = [thread EXCEPT ![t] = r]
           /\ r.next = thread[t].next + 1 /\ r.spent = 0
           /\ r.group = thread[t].group /\ r.kind = thread[t].kind /\ r.waited = thread[t].waited
           /\ r.awaited = thread[t].awaited /\ r.first = thread[t].first
    BY <1>1, <1>8, Posted, TRUE \in BOOLEAN, FALSE \in BOOLEAN DEF PostOk, PostFails
  <2>2. UNCHANGED <<flush, age, tried>>
    BY <1>8 DEF PostOk, PostFails
  <2>3. Live' = Live /\ thread'[t] = r /\ \A u \in Live \ {t} : thread'[u] = thread[u]
    BY <1>1, <1>2, <2>1, NotFree DEF Live, RelayTypeOK
  <2>4. \A u \in Live : /\ thread'[u].awaited = thread[u].awaited
                        /\ thread'[u].group = thread[u].group /\ thread'[u].kind = thread[u].kind
    BY <2>1, <2>3
  <2>5. AwaitedInv'
    BY <1>1, <2>2, <2>3, <2>4 DEF AwaitedInv
  <2>6. \A h \in Groups : Waiting(h)' = Waiting(h)
    BY <2>3, <2>4 DEF Waiting
  <2>7. r.waited <= (r.next - 1) * SendTimeout + r.spent \/ ~ thread[t].first
    <3>1. SUFFICES ASSUME thread[t].first PROVE r.waited <= (r.next - 1) * SendTimeout + r.spent
      OBVIOUS
    <3> DEFINE n == thread[t].next - 1
    <3>2. /\ n \in Nat /\ thread[t].next \in Nat /\ thread[t].spent \in 0..SendTimeout /\ thread[t].waited \in Nat
          /\ SendTimeout \in Nat /\ Deadline \in Nat
      BY <1>2, RelayAssumption DEF Requests
    <3>3. thread[t].waited <= n * SendTimeout + thread[t].spent
      BY <1>1, <3>1 DEF FirstInv
    <3>4. (n + 1) * SendTimeout = n * SendTimeout + SendTimeout /\ n * SendTimeout \in Nat
      BY <3>2
    <3>5. r.next - 1 = n + 1 /\ r.spent = 0
      BY <2>1, <3>2
    <3> HIDE DEF n
    <3> QED BY <2>1, <3>2, <3>3, <3>4, <3>5
  <2>8. FirstInv'
    <3>1. \A u \in Live \ {t} : thread'[u] = thread[u]
      BY <2>3
    <3>2. r.first => /\ r.awaited /\ r.waited = age[r.group]
                     /\ r.waited <= (r.next - 1) * SendTimeout + r.spent
                     /\ r.spent = 0
      BY <1>1, <2>1, <2>7 DEF FirstInv
    <3> QED BY <1>1, <2>2, <2>3, <2>6, <3>1, <3>2 DEF FirstInv
  <2> QED BY <2>5, <2>8
<1>9. ASSUME NEW t \in Live, Reply(t) PROVE AwaitedInv' /\ FirstInv'
  <2> DEFINE good == thread[t].awaited /\ thread[t].ok
  <2>2. PICK g \in Groups : g = thread[t].group
    BY <1>2
  <2>1. /\ thread' = [thread EXCEPT ![t] = Free] /\ age' = age
        /\ flush' = [flush EXCEPT ![g] = IF good THEN "none" ELSE @]
        /\ tried' = [tried EXCEPT ![g] = @ \/ (thread[t].awaited /\ ~ good)]
    BY <1>9, <2>2, Zenon DEF Reply
  <2> HIDE DEF good
  <2>3. /\ Live' = Live \ {t} /\ \A u \in Live' : thread'[u] = thread[u]
    BY <1>1, <1>2, <2>1 DEF Live, RelayTypeOK
  <2>4. \A h \in Groups \ {g} : flush'[h] = flush[h] /\ tried'[h] = tried[h]
    BY <1>3, <2>1
  <2>5. flush'[g] = (IF good THEN "none" ELSE flush[g])
    BY <1>3, <2>1, <2>2
  <2>6. tried'[g] <=> tried[g] \/ (thread[t].awaited /\ ~ good)
    BY <1>3, <2>1, <2>2, Zenon
  <2>7. good => thread[t].awaited
    BY DEF good
  <2>8. \A u \in Live' : thread[u].awaited /\ thread[t].awaited => thread[u].group # g
    BY <1>1, <2>2, <2>3 DEF AwaitedInv
  <2>9. AwaitedInv'
    BY <1>1, <1>2, <2>2, <2>3, <2>4, <2>5, <2>7, <2>8 DEF AwaitedInv
  <2>10. \A h \in Groups \ {g} : Waiting(h)' = Waiting(h)
    BY <2>2, <2>3 DEF Waiting
  <2>11. ~ thread[t].awaited => Waiting(g)' = Waiting(g)
    BY <2>3 DEF Waiting
  <2>12. flush'[g] # "none" /\ ~ tried'[g] /\ Waiting(g)' = {} => age[g] = 0
    BY <1>1, <2>2, <2>5, <2>6, <2>7, <2>11 DEF FirstInv
  <2>13. FirstInv'
    BY <1>1, <2>1, <2>3, <2>4, <2>10, <2>12 DEF FirstInv
  <2> QED BY <2>9, <2>13
<1>10. CASE RelayDies
  <2>1. /\ thread' = [t \in Threads |-> Free] /\ UNCHANGED <<flush, age>>
        /\ tried' = [g \in Groups |-> tried[g] \/ Waiting(g) # {}]
    BY <1>10, Zenon DEF RelayDies
  <2>2. Live' = {}
    BY <2>1 DEF Live
  <2>3. \A g \in Groups : ~ tried'[g] => ~ tried[g] /\ Waiting(g) = {}
    BY <2>1, Zenon
  <2> QED BY <1>1, <2>1, <2>2, <2>3 DEF AwaitedInv, FirstInv
<1>11. CASE Minute
  <2>1. UNCHANGED <<flush, tried>>
    BY <1>11 DEF Minute
  <2>2. /\ Live' = Live
        /\ \A t \in Live :
              /\ thread[t].next <= Alerts[thread[t].group]
              /\ thread'[t].spent = thread[t].spent + 1
              /\ thread[t].awaited => thread'[t].waited = thread[t].waited + 1
              /\ thread'[t].group = thread[t].group /\ thread'[t].kind = thread[t].kind
              /\ thread'[t].next = thread[t].next /\ thread'[t].awaited = thread[t].awaited
              /\ thread'[t].first = thread[t].first
    BY <1>1, <1>11, Waited
  <2>3. AwaitedInv'
    BY <1>1, <2>1, <2>2 DEF AwaitedInv
  <2>4. \A g \in Groups : Waiting(g)' = Waiting(g)
    BY <2>2 DEF Waiting
  <2>5. \A g \in Groups : flush[g] # "none" => Waiting(g) # {} \/ tried[g]
    BY <1>11 DEF Minute
  <2>6. ASSUME NEW t \in Live, thread'[t].first
        PROVE  /\ thread'[t].awaited /\ thread'[t].waited = age'[thread'[t].group]
               /\ thread'[t].waited <= (thread'[t].next - 1) * SendTimeout + thread'[t].spent
               /\ thread'[t].next > Alerts[thread'[t].group] => thread'[t].spent = 0
    <3>1. /\ thread[t].first /\ thread[t].awaited /\ thread[t].waited = age[thread[t].group]
          /\ thread[t].waited <= (thread[t].next - 1) * SendTimeout + thread[t].spent
      BY <1>1, <2>2, <2>6 DEF FirstInv
    <3>2. age[thread[t].group] < Interval
      BY <3>1, FirstIsEarly
    <3>3. /\ Interval \in Nat /\ age[thread[t].group] \in 0..Interval
      BY <1>2, <1>3, RelayAssumption
    <3>4. age'[thread[t].group] = age[thread[t].group] + 1
      <4>1. age' = [g \in Groups |-> Least(age[g] + 1, Interval)]
        BY <1>11 DEF Minute
      <4>2. Least(age[thread[t].group] + 1, Interval) = age[thread[t].group] + 1
        BY <3>2, <3>3 DEF Least
      <4> QED BY <1>2, <4>1, <4>2
    <3>5. /\ (thread[t].next - 1) * SendTimeout \in Nat /\ thread[t].spent \in Nat
          /\ thread[t].waited \in Nat /\ thread[t].next \in Nat
          /\ Alerts[thread[t].group] \in Nat
      BY <1>2, RelayAssumption DEF Requests
    <3> QED BY <2>2, <3>1, <3>4, <3>5
  <2>7. FirstInv'
    BY <1>1, <2>1, <2>2, <2>4, <2>5, <2>6 DEF FirstInv
  <2> QED BY <2>3, <2>7
<1>12. CASE UNCHANGED relayVars
  BY <1>1, <1>12 DEF relayVars, AwaitedInv, FirstInv, Live, Waiting
<1> QED
  BY <1>4, <1>5, <1>6, <1>7, <1>8, <1>9, <1>10, <1>11, <1>12 DEF RelayNext

LEMMA InitialFlush == ASSUME RelayInit PROVE FlushInv
<1>1. Live = {} /\ \A g \in Groups : flush[g] = "none"
  BY DEF RelayInit, Live
<1> QED BY <1>1, InitialRelay DEF FlushInv, AwaitedInv, FirstInv

\* However slow its posts and those of other requests are, and whenever it dies,
\* the relay is done with the first request of a flush before Alertmanager's
\* timeout: so SEND_TIMEOUT fits, for any timeouts that keep to what it says.
THEOREM FirstIsAnswered == RelaySpec => []AnsweredInTime
<1>1. FlushInv => AnsweredInTime
  BY DEF FlushInv, FirstInv, AnsweredInTime
<1> QED BY <1>1, InitialFlush, FlushStep, PTL DEF RelaySpec

---------------------------------------------------------------------------
\* What is shown is what Alertmanager takes to be.

\* No other thread posts about the group of an awaited request that began alone,
\* and what it has posted is shown.
AloneInv ==
  \A t \in Live : thread[t].awaited /\ thread[t].alone =>
    /\ \A u \in Live : thread[u].group = thread[t].group => u = t
    /\ thread[t].ok => \A i \in 1..(thread[t].next - 1) : shown[thread[t].group][i] = thread[t].kind

AgreedInv ==
  \A g \in Groups : agreed[g] =>
    /\ \A t \in Live : thread[t].group # g
    /\ \A i \in 1..Alerts[g] : shown[g][i] = sent[g]

ShownInv == FlushInv /\ AloneInv /\ AgreedInv

LEMMA ShownStep == ASSUME ShownInv, [RelayNext]_relayVars PROVE ShownInv'
<1>1. RelayTypeOK /\ RelayTypeOK' /\ AwaitedInv /\ AloneInv /\ AgreedInv
  BY RelayTypeStep DEF ShownInv, FlushInv
<1>2. \A t \in Live : t \in Threads /\ thread[t] \in Requests /\ thread[t].group \in Groups
  BY <1>1, LiveThreads DEF Requests
<1>3. FlushInv'
  BY FlushStep DEF ShownInv
<1> SUFFICES AloneInv' /\ AgreedInv'
  BY <1>3 DEF ShownInv
<1>4. CASE UNCHANGED relayVars \/ \E g \in Groups : Turns(g) \/ Flush(g)
  <2>1. UNCHANGED <<sent, thread, shown, agreed>>
    BY <1>4 DEF relayVars, Turns, Flush
  <2> QED BY <1>1, <2>1 DEF AloneInv, AgreedInv, Live
<1>6. ASSUME NEW g \in Groups, NEW t \in Threads, Request(g, t) PROVE AloneInv' /\ AgreedInv'
  <2>1. PICK r \in Requests :
           /\ thread' = [thread EXCEPT ![t] = r]
           /\ r.group = g /\ r.kind = flush[g] /\ r.next = 1 /\ r.ok /\ r.spent = 0 /\ r.waited = 0
           /\ r.awaited /\ r.first = ~ tried[g]
           /\ r.alone <=> \A u \in Live : thread[u].group # g
    BY <1>1, <1>6, Sent
  <2>2. /\ Waiting(g) = {} /\ thread[t] = Free /\ UNCHANGED <<sent, shown>>
        /\ agreed' = [agreed EXCEPT ![g] = FALSE]
    BY <1>6 DEF Request
  <2>3. /\ Live' = Live \cup {t} /\ t \notin Live /\ thread'[t] = r
        /\ \A u \in Live : thread'[u] = thread[u]
    BY <1>1, <2>1, <2>2, NotFree DEF Live, RelayTypeOK
  <2>4. \A u \in Live : thread[u].awaited => thread[u].group # g
    BY <2>2 DEF Waiting
  <2>5. ~ agreed'[g] /\ \A h \in Groups \ {g} : agreed'[h] = agreed[h]
    BY <1>1, <2>2 DEF RelayTypeOK
  <2>6. AloneInv'
    BY <1>1, <2>1, <2>2, <2>3, <2>4 DEF AloneInv
  <2>7. AgreedInv'
    BY <1>1, <2>1, <2>2, <2>3, <2>5 DEF AgreedInv
  <2> QED BY <2>6, <2>7
<1>7. ASSUME NEW g \in Groups, GiveUp(g) PROVE AloneInv' /\ AgreedInv'
  <2>1. UNCHANGED <<sent, shown, agreed>>
    BY <1>7 DEF GiveUp
  <2>2. /\ Live' = Live
        /\ \A t \in Live \ Waiting(g) : thread'[t] = thread[t]
        /\ \A t \in Waiting(g) : ~ thread'[t].awaited /\ thread'[t].group = g
    BY <1>1, <1>7, GivenUp
  <2>3. \A t \in Live : /\ thread'[t].group = thread[t].group
                        /\ thread'[t].awaited => thread'[t] = thread[t]
    BY <2>2 DEF Waiting
  <2> QED BY <1>1, <2>1, <2>2, <2>3 DEF AloneInv, AgreedInv
<1>8. ASSUME NEW t \in Live, PostOk(t) \/ PostFails(t) PROVE AloneInv' /\ AgreedInv'
  <2>1. PICK good \in BOOLEAN : /\ Posting(t) /\ Done(t, good)
                                /\ good => Arrives(t)
                                /\ Arrives(t) \/ UNCHANGED shown
    BY <1>8, Zenon DEF PostOk, PostFails
  <2>2. PICK r \in Requests :
           /\ thread' = [thread EXCEPT ![t] = r]
           /\ r.next = thread[t].next + 1
           /\ r.ok <=> thread[t].ok /\ good
           /\ r.group = thread[t].group /\ r.kind = thread[t].kind
           /\ r.awaited = thread[t].awaited /\ r.alone = thread[t].alone
    BY <1>1, <2>1, Posted, Zenon
  <2>3. UNCHANGED <<sent, agreed>>
    BY <1>8 DEF PostOk, PostFails
  <2>4. Live' = Live /\ thread'[t] = r /\ \A u \in Live \ {t} : thread'[u] = thread[u]
    BY <1>1, <1>2, <2>2, NotFree DEF Live, RelayTypeOK
  <2>5. PICK g \in Groups : g = thread[t].group
    BY <1>2
  <2>6. /\ thread[t].next \in 1..Alerts[g] /\ thread[t].kind \in Kinds
    <3>1. thread[t] \in Requests /\ thread[t].next <= Alerts[g]
      BY <1>2, <2>1, <2>5 DEF Posting
    <3> QED BY <3>1, RelayAssumption DEF Requests
  <2>7. /\ \A h \in Groups \ {g} : \A j \in 1..Alerts[h] : shown'[h][j] = shown[h][j]
        /\ \A j \in 1..Alerts[g] : j # thread[t].next => shown'[g][j] = shown[g][j]
        /\ good => shown'[g][thread[t].next] = thread[t].kind
    <3>1. DOMAIN shown = Groups /\ \A x \in Groups : shown[x] \in [1..Alerts[x] -> Kinds]
      BY <1>1 DEF RelayTypeOK
    <3>2. CASE Arrives(t)
      <4>1. PICK i \in 1..Alerts[g], k \in Kinds : i = thread[t].next /\ k = thread[t].kind
        BY <2>6
      <4>2. shown' = [shown EXCEPT ![g][i] = k]
        BY <2>5, <3>2, <4>1 DEF Arrives
      <4>3. /\ shown'[g][i] = k
            /\ \A x \in Groups : \A j \in 1..Alerts[x] : x # g \/ j # i => shown'[x][j] = shown[x][j]
        BY <3>1, <4>2
      <4> QED BY <4>1, <4>3
    <3> QED BY <2>1, <3>2
  <2>8. AgreedInv'
    BY <1>1, <2>2, <2>3, <2>4, <2>5, <2>7 DEF AgreedInv
  <2>9. \A u \in Live : thread'[u].group = thread[u].group
    BY <2>2, <2>4
  <2>10. ASSUME NEW u \in Live, thread'[u].awaited, thread'[u].alone
         PROVE  /\ \A v \in Live : thread[v].group = thread[u].group => v = u
                /\ thread'[u].ok =>
                     \A i \in 1..(thread'[u].next - 1) : shown'[thread'[u].group][i] = thread'[u].kind
    <3>1. \A v \in Live : thread[v].group = thread[u].group => v = u
      BY <1>1, <2>2, <2>4, <2>10 DEF AloneInv
    <3>2. CASE u = t
      <4>1. SUFFICES ASSUME r.ok, NEW i \in 1..(r.next - 1)
                     PROVE  shown'[g][i] = thread[t].kind
        BY <2>2, <2>4, <2>5, <3>1, <3>2
      <4>2. i = thread[t].next \/ i \in 1..(thread[t].next - 1)
        BY <2>2, <2>6, <4>1
      <4>3. i \in 1..Alerts[g]
        BY <2>2, <2>5, <2>6, <4>1, RelayAssumption
      <4>4. i \in 1..(thread[t].next - 1) => shown[g][i] = thread[t].kind
        BY <1>1, <2>2, <2>4, <2>5, <2>10, <3>2, <4>1 DEF AloneInv
      <4> QED BY <2>2, <2>7, <4>1, <4>2, <4>3, <4>4
    <3>3. CASE u # t
      <4>1. thread'[u] = thread[u] /\ thread[u].group # g
        BY <2>4, <2>5, <3>1, <3>3
      <4>3. thread[u].group \in Groups /\ Alerts[thread[u].group] \in Nat /\ thread[u].next \in Nat
        BY <1>2, RelayAssumption DEF Requests
      <4>4. thread[u].next <= Alerts[thread[u].group] + 1
        BY <1>1 DEF RelayTypeOK
      <4>2. thread[u].next - 1 <= Alerts[thread[u].group]
        BY <4>3, <4>4
      <4> QED BY <1>1, <2>7, <2>10, <3>1, <4>1, <4>2, <4>3 DEF AloneInv
    <3> QED BY <3>2, <3>3
  <2>11. AloneInv'
    BY <2>4, <2>9, <2>10 DEF AloneInv
  <2> QED BY <2>8, <2>11
<1>9. ASSUME NEW t \in Live, Reply(t) PROVE AloneInv' /\ AgreedInv'
  <2> DEFINE good == thread[t].awaited /\ thread[t].ok
             whole == good /\ thread[t].alone
  <2>1. PICK g \in Groups : g = thread[t].group
    BY <1>2
  <2>2. /\ thread' = [thread EXCEPT ![t] = Free] /\ shown' = shown
        /\ sent' = [sent EXCEPT ![g] = IF good THEN flush[g] ELSE @]
        /\ agreed' = [agreed EXCEPT ![g] = whole]
    BY <1>9, <2>1, Zenon DEF Reply
  <2>3. Live' = Live \ {t} /\ \A u \in Live' : thread'[u] = thread[u]
    BY <1>1, <1>2, <2>2 DEF Live, RelayTypeOK
  <2>4. AloneInv'
    BY <1>1, <2>2, <2>3 DEF AloneInv
  <2>5. \A h \in Groups \ {g} : agreed'[h] = agreed[h] /\ sent'[h] = sent[h]
    BY <1>1, <2>2 DEF RelayTypeOK
  <2>6. agreed'[g] <=> whole
    BY <1>1, <2>2, Zenon DEF RelayTypeOK
  <2>7. good => sent'[g] = flush[g]
    BY <1>1, <2>2 DEF RelayTypeOK
  <2>8. whole => \A i \in 1..Alerts[g] : shown[g][i] = flush[g]
    <3>1. thread[t].next - 1 = Alerts[g]
      <4>2. thread[t].next \in Nat /\ Alerts[g] \in Nat
        BY <1>2, RelayAssumption DEF Requests
      <4>1. ~ (thread[t].next <= Alerts[g]) /\ thread[t].next <= Alerts[g] + 1
        BY <1>1, <1>9, <2>1 DEF Reply, Posting, RelayTypeOK
      <4> QED BY <4>1, <4>2
    <3>2. whole => thread[t].kind = flush[g]
      BY <1>1, <2>1 DEF AwaitedInv
    <3> QED BY <1>1, <2>1, <3>1, <3>2 DEF AloneInv
  <2>9. whole => \A u \in Live' : thread'[u].group # g
    BY <1>1, <2>1, <2>3 DEF AloneInv
  <2>10. AgreedInv'
    BY <1>1, <2>2, <2>3, <2>5, <2>6, <2>7, <2>8, <2>9 DEF AgreedInv
  <2> QED BY <2>4, <2>10
<1>10. CASE RelayDies
  <2>1. UNCHANGED <<sent, agreed>> /\ thread' = [t \in Threads |-> Free]
    BY <1>10 DEF RelayDies
  <2>2. Live' = {}
    BY <2>1 DEF Live
  <2>3. ASSUME NEW g \in Groups, \A t \in Live : thread[t].group # g
        PROVE  \A i \in 1..Alerts[g] : shown'[g][i] = shown[g][i]
    BY <1>10, <2>3 DEF RelayDies
  <2> QED BY <1>1, <2>1, <2>2, <2>3 DEF AloneInv, AgreedInv
<1>11. CASE Minute
  <2>1. UNCHANGED <<sent, shown, agreed>>
    BY <1>11 DEF Minute
  <2>2. /\ Live' = Live
        /\ \A t \in Live :
              /\ thread'[t].group = thread[t].group /\ thread'[t].kind = thread[t].kind
              /\ thread'[t].next = thread[t].next /\ thread'[t].awaited = thread[t].awaited
              /\ thread'[t].alone = thread[t].alone /\ thread'[t].ok = thread[t].ok
    BY <1>1, <1>11, Waited
  <2> QED BY <1>1, <2>1, <2>2 DEF AloneInv, AgreedInv
<1> QED
  BY <1>4, <1>6, <1>7, <1>8, <1>9, <1>10, <1>11 DEF RelayNext

\* Whatever posts fail, hang or arrive after they were reported to fail, whenever
\* the relay dies: an answer of 200 means that Discord shows what Alertmanager now
\* takes for notified, as far as no request it had given up was still posting.
THEOREM AnswersAreTrue == RelaySpec => []DiscordAgrees
<1>1. RelayInit => ShownInv
  <2> SUFFICES ASSUME RelayInit PROVE AloneInv /\ AgreedInv
    BY InitialFlush DEF ShownInv
  <2>1. Live = {} /\ \A g \in Groups : ~ agreed[g]
    BY DEF RelayInit, Live
  <2> QED BY <2>1 DEF AloneInv, AgreedInv
<1>2. ShownInv => DiscordAgrees
  BY DEF ShownInv, AgreedInv, DiscordAgrees
<1> QED BY <1>1, <1>2, ShownStep, PTL DEF RelaySpec

=============================================================================
