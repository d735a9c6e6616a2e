--------------------------- MODULE ServicesProofs ---------------------------
(***************************************************************************)
(* Proofs about the small services, for any names and lines of the         *)
(* whitelist, any addresses and grace of the router, any cap and width of  *)
(* the query log, and any number of events from outside.                   *)
(***************************************************************************)
EXTENDS MCServices, FiniteSetTheorems, TLAPS

---------------------------------------------------------------------------
(***************************************************************************)
(* The whitelist.                                                          *)
(***************************************************************************)

\* The server's names are names, each of its player.
LEMMA Spelled ==
  /\ Range(Spelling) \subseteq Names
  /\ \A n \in Names : Spelling[Player[n]] \in Range(Spelling)
  /\ \A n \in Names : Player[Spelling[Player[n]]] = Player[n]
  /\ \A line : Want(line) \subseteq Names
BY SpellingAssumption DEF Range, Names, Players, Want

\* The variables of the world, and those of the run.
WorldOK ==
  /\ wanted \in Files /\ listed \subseteq Range(Spelling) /\ changes \in 0..MaxChanges
  /\ restart \in BOOLEAN /\ stackUp \in BOOLEAN /\ healthy \in BOOLEAN /\ lookup \in BOOLEAN
  /\ touched \in BOOLEAN
RunOK ==
  /\ syncFailed \in BOOLEAN
  /\ sync \in {"inactive", "running", "active", "failed"}
  /\ syncAt \in {"-", "read", "wait", "list", "add", "remove"}
  /\ (sync = "running") = (syncAt # "-")
  /\ want \subseteq Names /\ have \subseteq Range(Spelling) /\ left \subseteq want \cup have
  /\ syncAt \in {"-", "read", "wait", "list"} => have = {} /\ left = {}
UpOK == (healthy \/ sync # "inactive") => stackUp

WhitelistOK == WorldOK /\ RunOK /\ UpOK

\* The parts are the types.
LEMMA WhitelistParts == WhitelistOK => WhitelistTypeOK
BY DEF WhitelistTypeOK, WhitelistOK, WorldOK, RunOK, UpOK

\* A run begins and ends with nothing in its hands.
LEMMA RunEdges ==
  /\ \A state \in {"inactive", "active", "failed"} : Idle(state) => RunOK'
  /\ Begin => RunOK'
BY DEF Idle, Begin, RunOK

\* An exit of the unit leaves it inactive, active or failed.
LEMMA ExitEdge ==
  ASSUME NEW ok \in BOOLEAN, Exit(ok)
  PROVE  RunOK' /\ sync' \in {"active", "failed"} /\ (sync' = "active" => ok) /\ syncAt' = "-"
<1>1. CASE ok BY <1>1, RunEdges DEF Exit, Idle
<1>2. CASE ~ ok BY <1>2, RunEdges DEF Exit, Idle
<1> QED BY <1>1, <1>2

\* The types hold at first,
LEMMA WhitelistStart == WhitelistInit => WhitelistOK
<1> SUFFICES ASSUME WhitelistInit PROVE WorldOK /\ RunOK /\ UpOK
    BY DEF WhitelistOK
<1>1. WorldOK
  <2>1. 0 \in 0..MaxChanges BY SpellingAssumption
  <2> QED BY <2>1 DEF WhitelistInit, WorldOK
<1>2. RunOK BY DEF WhitelistInit, RunOK
<1> QED BY <1>1, <1>2 DEF WhitelistInit, UpOK

\* at every step of the unit,
LEMMA SyncTyped == WhitelistOK /\ SyncStep => WhitelistOK'
<1> SUFFICES ASSUME WorldOK, RunOK, UpOK, SyncStep PROVE WorldOK' /\ RunOK' /\ UpOK'
    BY DEF WhitelistOK
<1>0. stackUp /\ sync = "running"
      BY DEF SyncStep, ReadLine, Healthy, WaitEnds, ListNames, AddName, RemoveName, RconFails,
             UpOK, RunOK
<1>1. CASE ReadLine
  <2>1. WorldOK' /\ UpOK' BY <1>0, <1>1 DEF ReadLine, worldVars, WorldOK, UpOK
  <2>2. RunOK'
    <3>1. CASE wanted = NoLine \/ Want(wanted) = {} BY <1>1, <3>1, ExitEdge DEF ReadLine
    <3>2. CASE ~ (wanted = NoLine \/ Want(wanted) = {})
      <4>1. want' \subseteq Names BY <1>1, <3>2, Spelled DEF ReadLine
      <4>2. syncFailed' \in BOOLEAN BY <1>1, <3>2 DEF ReadLine
      <4>3. UNCHANGED <<sync, have, left>> /\ syncAt = "read" /\ syncAt' = "wait"
            BY <1>1, <3>2 DEF ReadLine
      <4> QED BY <4>1, <4>2, <4>3 DEF RunOK
    <3> QED BY <3>1, <3>2
  <2> QED BY <2>1, <2>2
<1>2. CASE Healthy BY <1>0, <1>2 DEF Healthy, worldVars, WorldOK, UpOK, RunOK
<1>3. CASE WaitEnds \/ RconFails
  <2>1. WorldOK' /\ UpOK' BY <1>0, <1>3 DEF WaitEnds, RconFails, worldVars, WorldOK, UpOK
  <2>2. RunOK' BY <1>3, ExitEdge DEF WaitEnds, RconFails
  <2> QED BY <2>1, <2>2
<1>4. CASE ListNames
  <2>1. WorldOK' /\ UpOK' BY <1>0, <1>4 DEF ListNames, worldVars, WorldOK, UpOK
  <2>2. left' \subseteq want BY <1>4 DEF ListNames, Missing
  <2>3. RunOK' BY <1>4, <2>2 DEF ListNames, RunOK, WorldOK
  <2> QED BY <2>1, <2>3
<1>5. CASE AddName
  <2>1. UNCHANGED <<wanted, restart, stackUp, healthy, lookup, touched, changes, sync, want, have>>
        BY <1>5 DEF AddName
  <2>2. CASE left = {}
    <3>1. syncAt' = "remove" /\ left' \subseteq have /\ UNCHANGED <<listed, syncFailed>>
          BY <1>5, <2>2 DEF AddName, Missing
    <3> QED BY <1>0, <2>1, <3>1 DEF WorldOK, RunOK, UpOK
  <2>3. CASE left # {}
    <3>1. PICK n \in left :
            /\ left' = left \ {n} /\ Tried(CanAdd(n))
            /\ listed' = IF CanAdd(n) THEN listed \cup {Spelling[Player[n]]} ELSE listed
            /\ UNCHANGED syncAt
          BY <1>5, <2>3 DEF AddName
    <3>2. n \in Names BY Spelled DEF RunOK
    <3>3. listed' \subseteq Range(Spelling) BY <3>1, <3>2, Spelled DEF WorldOK
    <3>4. syncFailed' \in BOOLEAN BY <3>1 DEF Tried, CanAdd, RunOK
    <3>5. left' \subseteq left /\ syncAt' = "add" BY <1>5, <3>1 DEF AddName
    <3> QED BY <1>0, <2>1, <3>3, <3>4, <3>5 DEF WorldOK, RunOK, UpOK
  <2> QED BY <2>2, <2>3
<1>6. CASE RemoveName
  <2>1. UNCHANGED <<wanted, restart, stackUp, healthy, lookup, touched, changes>>
        BY <1>6 DEF RemoveName
  <2>2. CASE left = {}
    <3>1. RunOK' BY <1>6, <2>2, ExitEdge DEF RemoveName, RunOK
    <3>2. listed' = listed BY <1>6, <2>2 DEF RemoveName
    <3> QED BY <1>0, <2>1, <3>1, <3>2 DEF WorldOK, UpOK
  <2>3. CASE left # {}
    <3>1. PICK n \in left :
            /\ left' = left \ {n} /\ Tried(n \in listed)
            /\ listed' = listed \ {n}
            /\ UNCHANGED <<sync, syncAt, want, have>>
          BY <1>6, <2>3 DEF RemoveName
    <3>2. syncFailed' \in BOOLEAN BY <3>1 DEF Tried, RunOK
    <3>3. left' \subseteq left /\ listed' \subseteq listed /\ syncAt' = "remove"
          BY <1>6, <3>1 DEF RemoveName
    <3> QED BY <1>0, <2>1, <3>1, <3>2, <3>3 DEF WorldOK, RunOK, UpOK
  <2> QED BY <2>2, <2>3
<1> QED BY <1>1, <1>2, <1>3, <1>4, <1>5, <1>6 DEF SyncStep

\* and at every step.
LEMMA WhitelistTyped == WhitelistOK /\ [WhitelistNext]_whitelistVars => WhitelistOK'
<1> SUFFICES ASSUME WorldOK, RunOK, UpOK, [WhitelistNext]_whitelistVars
             PROVE  WorldOK' /\ RunOK' /\ UpOK'
    BY DEF WhitelistOK
<1>0. Change => changes' \in 0..MaxChanges BY SpellingAssumption DEF Change, WorldOK
<1>1. CASE SyncStep BY <1>1, SyncTyped DEF WhitelistOK
<1>2. CASE StackStarts \/ DeployStarts
  <2>1. Begin /\ stackUp' BY <1>2 DEF StackStarts, DeployStarts, worldVars, UpOK
  <2>2. WorldOK' BY <1>2 DEF StackStarts, DeployStarts, worldVars, WorldOK
  <2> QED BY <2>1, <2>2, RunEdges DEF UpOK
<1>3. CASE SecretRestarts
  <2>1. (Begin /\ stackUp) \/ UNCHANGED runVars BY <1>3 DEF SecretRestarts, RestartSync
  <2>2. WorldOK' BY <1>3 DEF SecretRestarts, RestartSync, WorldOK
  <2>3. RunOK' BY <2>1, RunEdges DEF runVars, RunOK
  <2> QED BY <1>3, <2>1, <2>2, <2>3 DEF SecretRestarts, runVars, UpOK
<1>4. CASE ServerReady \/ LookupBack \/ ServerGone \/ LookupDown
  <2>1. UNCHANGED <<wanted, restart, listed, stackUp, touched>> /\ UNCHANGED runVars
        /\ (UNCHANGED changes \/ Change) /\ (healthy' => stackUp)
        BY <1>4 DEF ServerReady, LookupBack, ServerGone, LookupDown, UpOK
  <2>2. healthy' \in BOOLEAN /\ lookup' \in BOOLEAN
        BY <1>4 DEF ServerReady, LookupBack, ServerGone, LookupDown, WorldOK
  <2>3. WorldOK' BY <1>0, <2>1, <2>2 DEF WorldOK
  <2>4. RunOK' BY <2>1 DEF runVars, RunOK
  <2> QED BY <2>1, <2>3, <2>4 DEF runVars, UpOK
<1>5. ASSUME NEW line \in Files, SecretChanges(line) PROVE WorldOK' /\ RunOK' /\ UpOK'
  <2>1. /\ Change /\ wanted' = line /\ restart' = TRUE
        /\ UNCHANGED <<listed, stackUp, healthy, lookup, touched>> /\ UNCHANGED runVars
        BY <1>5 DEF SecretChanges
  <2>2. WorldOK' BY <1>0, <2>1 DEF WorldOK
  <2>3. RunOK' BY <2>1 DEF runVars, RunOK
  <2> QED BY <2>1, <2>2, <2>3 DEF runVars, UpOK
<1>6. CASE StackStops
  <2>1. Idle("inactive") /\ sync' = "inactive" BY <1>6 DEF StackStops, Idle
  <2>2. WorldOK' /\ ~ healthy' BY <1>0, <1>6 DEF StackStops, WorldOK
  <2> QED BY <2>1, <2>2, RunEdges DEF UpOK
<1>7. ASSUME NEW list \in SUBSET Range(Spelling), Restored(list) \/ OperatorEdits(list)
      PROVE  WorldOK' /\ RunOK' /\ UpOK'
  <2>1. /\ Change /\ listed' = list /\ touched' \in {touched, TRUE}
        /\ UNCHANGED <<wanted, restart, stackUp, healthy, lookup>> /\ UNCHANGED runVars
        BY <1>7 DEF Restored, OperatorEdits
  <2>2. WorldOK' BY <1>0, <2>1 DEF WorldOK
  <2>3. RunOK' BY <2>1 DEF runVars, RunOK
  <2> QED BY <2>1, <2>2, <2>3 DEF runVars, UpOK
<1>8. CASE UNCHANGED whitelistVars
      BY <1>8 DEF whitelistVars, worldVars, runVars, WorldOK, RunOK, UpOK
<1> QED BY <1>1, <1>2, <1>3, <1>4, <1>5, <1>6, <1>7, <1>8 DEF WhitelistNext

\* What a run does: it brings the list nearer to what it wants, for whom the list
\* is not touched from outside.
PlanInv ==
  /\ syncAt \in {"wait", "list", "add", "remove"} /\ ~ restart =>
       wanted # NoLine /\ want = Want(wanted)
  /\ syncAt = "add" => left \subseteq want
  /\ syncAt = "add" /\ ~ touched =>
       /\ \A m \in listed : m \in have \/ Player[m] \in PlayersOf(want)
       /\ \A n \in want : n \in left \/ syncFailed \/ Player[n] \in PlayersOf(listed)
  /\ syncAt = "remove" => \A m \in left : Player[m] \notin PlayersOf(want)
  /\ syncAt = "remove" /\ ~ touched =>
       /\ \A m \in listed : m \in left \/ Player[m] \in PlayersOf(want)
       /\ \A n \in want : syncFailed \/ Player[n] \in PlayersOf(listed)
  /\ ActiveMeansApplied

\* A run that has just begun, and one that has ended without success, promise
\* nothing.
LEMMA PlanEdges ==
  ASSUME syncAt' \in {"-", "read"}, sync' # "active"
  PROVE  PlanInv'
BY DEF PlanInv, ActiveMeansApplied

\* Nothing of the run and of what it is to do changes, unless it is flagged.
LEMMA PlanKept ==
  ASSUME PlanInv, WhitelistOK, UNCHANGED <<sync, syncAt, want, have, left, syncFailed>>,
         wanted' = wanted \/ restart', restart' = restart \/ restart' = TRUE,
         \/ UNCHANGED <<listed, touched>>
         \/ touched'
         \/ sync = "inactive"
  PROVE  PlanInv'
<1>1. sync = "inactive" => syncAt = "-" BY DEF WhitelistOK, RunOK
<1>2. CASE sync = "inactive" BY <1>1, <1>2 DEF PlanInv, ActiveMeansApplied
<1>3. CASE touched' BY <1>3 DEF PlanInv, ActiveMeansApplied
<1>4. CASE UNCHANGED <<listed, touched>>
  <2>1. UNCHANGED <<PlayersOf(want), PlayersOf(listed)>> BY <1>4 DEF PlayersOf
  <2>2. restart' \/ UNCHANGED <<wanted, restart, Want(wanted), Declared>>
        BY DEF Want, Declared, PlayersOf
  <2> QED BY <1>4, <2>1, <2>2 DEF PlanInv, ActiveMeansApplied
<1> QED BY <1>2, <1>3, <1>4

\* Each addition keeps the plan.
LEMMA PlanAdds ==
  ASSUME WhitelistOK, PlanInv, AddName
  PROVE  PlanInv'
<1>1. /\ UNCHANGED <<wanted, restart, stackUp, healthy, lookup, touched, changes, sync, want, have>>
      /\ syncAt = "add" /\ sync = "running"
      BY DEF AddName, WhitelistOK, RunOK
<1>2. Want(wanted)' = Want(wanted) BY <1>1 DEF Want
<1>3. CASE left = {}
  <2>1. /\ syncAt' = "remove" /\ left' = Missing(have, want)
        /\ UNCHANGED <<listed, syncFailed>>
        BY <1>3 DEF AddName
  <2>2. UNCHANGED <<PlayersOf(want), PlayersOf(listed)>> BY <1>1, <2>1 DEF PlayersOf
  <2>3. \A m \in have : m \in left' \/ Player[m] \in PlayersOf(want)
        BY <2>1 DEF Missing, Same, PlayersOf
  <2>4. \A m \in left' : Player[m] \notin PlayersOf(want)
        BY <2>1 DEF Missing, Same, PlayersOf
  <2> QED BY <1>1, <1>2, <1>3, <2>1, <2>2, <2>3, <2>4 DEF PlanInv, ActiveMeansApplied
<1>4. CASE left # {}
  <2>1. PICK n \in left :
          /\ left' = left \ {n} /\ Tried(CanAdd(n))
          /\ listed' = IF CanAdd(n) THEN listed \cup {Spelling[Player[n]]} ELSE listed
          /\ UNCHANGED syncAt
        BY <1>4 DEF AddName
  <2> DEFINE s == Spelling[Player[n]]
  <2>2. n \in Names BY Spelled DEF WhitelistOK, RunOK
  <2>3. Player[s] = Player[n] BY <2>2, Spelled
  <2>4. PlayersOf(want)' = PlayersOf(want) BY <1>1 DEF PlayersOf
  <2>5. PlayersOf(listed) \subseteq PlayersOf(listed)' BY <2>1 DEF PlayersOf
  <2>6. syncFailed => syncFailed' BY <2>1 DEF Tried
  <2>7. syncFailed' \/ Player[n] \in PlayersOf(listed)'
    <3>1. CASE CanAdd(n)
      <4>1. s \in listed' BY <2>1, <3>1
      <4> QED BY <2>3, <4>1 DEF PlayersOf
    <3>2. CASE ~ CanAdd(n) BY <2>1, <3>2 DEF Tried
    <3> QED BY <3>1, <3>2
  <2>8. n \in want BY <1>1 DEF PlanInv
  <2>9. ~ touched => \A m \in listed' : m \in have \/ Player[m] \in PlayersOf(want)
    <3>1. \A m \in listed' : m \in listed \/ m = s BY <2>1
    <3>2. Player[s] \in PlayersOf(want) BY <2>3, <2>8 DEF PlayersOf
    <3> QED BY <1>1, <3>1, <3>2 DEF PlanInv
  <2>10. ~ touched => \A m \in want : m \in left' \/ syncFailed' \/ Player[m] \in PlayersOf(listed)'
    <3>1. \A m \in want : m \in left' \/ m = n \/ m \notin left BY <2>1
    <3> QED BY <1>1, <2>5, <2>6, <2>7, <3>1 DEF PlanInv
  <2> QED BY <1>1, <1>2, <2>1, <2>4, <2>9, <2>10 DEF PlanInv, ActiveMeansApplied
<1> QED BY <1>3, <1>4

\* Each removal keeps the plan.
LEMMA PlanRemoves ==
  ASSUME WhitelistOK, PlanInv, RemoveName
  PROVE  PlanInv'
<1>1. /\ UNCHANGED <<wanted, restart, stackUp, healthy, lookup, touched, changes>>
      /\ syncAt = "remove" /\ sync = "running"
      BY DEF RemoveName, WhitelistOK, RunOK
<1>2. UNCHANGED <<Want(wanted), Declared>> BY <1>1 DEF Want, Declared, PlayersOf
<1>3. CASE left = {}
  <2>1. Exit(~ syncFailed) /\ listed' = listed BY <1>3 DEF RemoveName
  <2>2. syncAt' = "-" /\ (sync' = "active" => ~ syncFailed)
        BY <2>1, ExitEdge DEF WhitelistOK, RunOK
  <2>3. ASSUME sync' = "active", ~ restart', ~ touched'
        PROVE  PlayersOf(listed)' = Declared'
    <3>1. wanted # NoLine /\ want = Want(wanted) BY <1>1, <2>3 DEF PlanInv
    <3>2. Declared = PlayersOf(want) BY <3>1 DEF Declared
    <3>3. \A m \in listed : Player[m] \in PlayersOf(want)
          BY <1>1, <1>3, <2>3 DEF PlanInv
    <3>4. \A n \in want : Player[n] \in PlayersOf(listed)
          BY <1>1, <2>2, <2>3 DEF PlanInv
    <3>5. PlayersOf(listed) = PlayersOf(want) BY <3>3, <3>4 DEF PlayersOf
    <3> QED BY <1>2, <2>1, <3>2, <3>5 DEF PlayersOf
  <2> QED BY <2>2, <2>3 DEF PlanInv, ActiveMeansApplied
<1>4. CASE left # {}
  <2>1. PICK n \in left :
          /\ left' = left \ {n} /\ Tried(n \in listed)
          /\ listed' = listed \ {n}
          /\ UNCHANGED <<sync, syncAt, want, have>>
        BY <1>4 DEF RemoveName
  <2>2. PlayersOf(want)' = PlayersOf(want) BY <2>1 DEF PlayersOf
  <2>3. Player[n] \notin PlayersOf(want) BY <1>1 DEF PlanInv
  <2>4. \A m \in want : Player[m] \in PlayersOf(listed) => Player[m] \in PlayersOf(listed)'
    <3> SUFFICES ASSUME NEW m \in want, NEW l \in listed, Player[m] = Player[l]
                 PROVE  Player[m] \in PlayersOf(listed)'
        BY DEF PlayersOf
    <3>1. Player[m] \in PlayersOf(want) BY DEF PlayersOf
    <3>2. l # n BY <2>3, <3>1
    <3>3. l \in listed' BY <2>1, <3>2
    <3> QED BY <3>3 DEF PlayersOf
  <2>5. syncFailed => syncFailed' BY <2>1 DEF Tried
  <2> QED BY <1>1, <1>2, <2>1, <2>2, <2>4, <2>5 DEF PlanInv, ActiveMeansApplied
<1> QED BY <1>3, <1>4

\* Every step keeps the plan.
LEMMA PlanStep == WhitelistOK /\ PlanInv /\ [WhitelistNext]_whitelistVars => PlanInv'
<1> SUFFICES ASSUME WhitelistOK, PlanInv, [WhitelistNext]_whitelistVars PROVE PlanInv'
    OBVIOUS
<1>1. CASE ReadLine
  <2>1. CASE wanted = NoLine \/ Want(wanted) = {}
        BY <1>1, <2>1, PlanEdges DEF ReadLine, Exit, Idle
  <2>2. CASE ~ (wanted = NoLine \/ Want(wanted) = {})
    <3>1. /\ want' = Want(wanted) /\ syncAt' = "wait" /\ wanted' = wanted /\ sync' = sync
          /\ syncAt = "read"
          BY <1>1, <2>2 DEF ReadLine, worldVars
    <3>2. Want(wanted)' = Want(wanted) BY <3>1 DEF Want
    <3>3. sync' # "active" BY <3>1 DEF WhitelistOK, RunOK
    <3> QED BY <2>2, <3>1, <3>2, <3>3 DEF PlanInv, ActiveMeansApplied
  <2> QED BY <2>1, <2>2
<1>2. CASE Healthy
  <2>1. /\ UNCHANGED <<wanted, restart, sync, want>> /\ syncAt = "wait" /\ syncAt' = "list"
        BY <1>2 DEF Healthy, worldVars
  <2>2. Want(wanted)' = Want(wanted) BY <2>1 DEF Want
  <2>3. sync' # "active" BY <2>1 DEF WhitelistOK, RunOK
  <2> QED BY <2>1, <2>2, <2>3 DEF PlanInv, ActiveMeansApplied
<1>3. CASE WaitEnds \/ RconFails
      BY <1>3, PlanEdges DEF WaitEnds, RconFails, Exit, Idle
<1>4. CASE ListNames
  <2>1. /\ UNCHANGED <<wanted, restart, listed, sync, want, syncFailed>>
        /\ syncAt = "list" /\ syncAt' = "add"
        /\ have' = listed /\ left' = Missing(want, listed)
        BY <1>4 DEF ListNames, worldVars
  <2>2. UNCHANGED <<Want(wanted), PlayersOf(want), PlayersOf(listed)>>
        BY <2>1 DEF Want, PlayersOf
  <2>3. sync' # "active" BY <2>1 DEF WhitelistOK, RunOK
  <2>4. left' \subseteq want /\ \A n \in want : n \in left' \/ Player[n] \in PlayersOf(listed)
        BY <2>1 DEF Missing, Same, PlayersOf
  <2> QED BY <2>1, <2>2, <2>3, <2>4 DEF PlanInv, ActiveMeansApplied
<1>5. CASE AddName BY <1>5, PlanAdds
<1>6. CASE RemoveName BY <1>6, PlanRemoves
<1>7. CASE StackStarts \/ DeployStarts
      BY <1>7, PlanEdges DEF StackStarts, DeployStarts, Begin
<1>8. CASE SecretRestarts
  <2>1. CASE stackUp
        BY <1>8, <2>1, PlanEdges DEF SecretRestarts, RestartSync, Begin
  <2>2. CASE ~ stackUp
    <3>1. sync = "inactive" /\ syncAt = "-" BY <2>2 DEF WhitelistOK, UpOK, RunOK
    <3>2. UNCHANGED runVars BY <1>8, <2>2 DEF SecretRestarts, RestartSync
    <3> QED BY <3>1, <3>2, PlanEdges DEF runVars
  <2> QED BY <2>1, <2>2
<1>9. CASE ServerReady \/ LookupBack \/ ServerGone \/ LookupDown
      BY <1>9, PlanKept DEF ServerReady, LookupBack, ServerGone, LookupDown, runVars
<1>10. ASSUME NEW line \in Files, SecretChanges(line) PROVE PlanInv'
      BY <1>10, PlanKept DEF SecretChanges, runVars
<1>11. CASE StackStops BY <1>11, PlanEdges DEF StackStops, Idle
<1>12. ASSUME NEW list \in SUBSET Range(Spelling), Restored(list) PROVE PlanInv'
  <2>1. sync = "inactive" BY <1>12 DEF Restored, WhitelistOK, UpOK
  <2> QED BY <1>12, <2>1, PlanKept DEF Restored, runVars
<1>13. ASSUME NEW list \in SUBSET Range(Spelling), OperatorEdits(list) PROVE PlanInv'
      BY <1>13, PlanKept DEF OperatorEdits, runVars
<1>14. CASE UNCHANGED whitelistVars
      BY <1>14, PlanKept DEF whitelistVars, worldVars, runVars
<1> QED BY <1>1, <1>2, <1>3, <1>4, <1>5, <1>6, <1>7, <1>8, <1>9, <1>10, <1>11, <1>12, <1>13,
           <1>14 DEF WhitelistNext, SyncStep

\* Each variable of the whitelist's unit keeps its type, and the unit is up only
\* with its stack (Requisite= and PartOf=).
THEOREM WhitelistTypeCorrect == WhitelistSpec => []WhitelistTypeOK
BY WhitelistStart, WhitelistTyped, WhitelistParts, PTL DEF WhitelistSpec

\* The plan holds always.
LEMMA PlanAlways == WhitelistSpec => [](WhitelistOK /\ PlanInv)
<1>1. WhitelistInit => PlanInv BY DEF WhitelistInit, PlanInv, ActiveMeansApplied
<1> QED BY <1>1, WhitelistStart, WhitelistTyped, PlanStep, PTL DEF WhitelistSpec

\* An active unit says that the server's list is the secret's, for any names, any
\* lines and any order of what happens outside.
THEOREM ActiveIsApplied == WhitelistSpec => []ActiveMeansApplied
<1>1. PlanInv => ActiveMeansApplied BY DEF PlanInv
<1> QED BY <1>1, PlanAlways, PTL

\* A run takes nobody off the list whom the secret names.
THEOREM NamedPlayersStay == WhitelistSpec => NamedStay
<1>1. ASSUME WhitelistOK, PlanInv, [WhitelistNext]_whitelistVars,
             changes' = changes, ~ restart, NEW n \in listed \ listed'
      PROVE  Player[n] \notin Declared
  <2>1. RemoveName
    <3>1. ~ Change BY <1>1, SpellingAssumption DEF Change, WhitelistOK, WorldOK
    <3>2. listed \subseteq listed' \/ RemoveName
      <4>1. CASE AddName BY <4>1 DEF AddName
      <4>2. CASE ReadLine \/ Healthy \/ WaitEnds \/ ListNames \/ RconFails
            BY <4>2 DEF ReadLine, Healthy, WaitEnds, ListNames, RconFails, worldVars
      <4>3. CASE StackStarts \/ SecretRestarts \/ DeployStarts \/ ServerReady \/ LookupBack
            BY <4>3 DEF StackStarts, SecretRestarts, DeployStarts, ServerReady, LookupBack, worldVars
      <4>4. CASE UNCHANGED whitelistVars BY <4>4 DEF whitelistVars, worldVars
      <4> QED BY <1>1, <3>1, <4>1, <4>2, <4>3, <4>4
              DEF WhitelistNext, SyncStep, SecretChanges, StackStops, ServerGone, LookupDown,
                  Restored, OperatorEdits
    <3> QED BY <1>1, <3>2
  <2>2. syncAt = "remove" /\ n \in left BY <1>1, <2>1 DEF RemoveName
  <2>3. Player[n] \notin PlayersOf(want) BY <1>1, <2>2 DEF PlanInv
  <2>4. wanted # NoLine /\ want = Want(wanted) BY <1>1, <2>2 DEF PlanInv
  <2> QED BY <2>3, <2>4 DEF Declared
<1> DEFINE Stays == changes' = changes /\ ~ restart => \A n \in listed \ listed' : Player[n] \notin Declared
<1>2. WhitelistOK /\ PlanInv /\ [WhitelistNext]_whitelistVars => [Stays]_whitelistVars
      BY <1>1
<1>3. NamedStay <=> [][Stays]_whitelistVars BY DEF NamedStay
<1> HIDE DEF Stays
<1> QED BY <1>2, <1>3, PlanAlways, PTL DEF WhitelistSpec

---------------------------------------------------------------------------
(***************************************************************************)
(* The router's address.                                                   *)
(***************************************************************************)

\* What the end of a run leaves of the unit, in each case.
LEMMA HowItEnds ==
  ASSUME NEW ok \in BOOLEAN, RouterTypeOK, wanAt # "-", Ends(ok)
  PROVE  /\ queued' = FALSE /\ found' = NoAddress
         /\ \/ unit' = "reloading" /\ wanAt' = "put" /\ (ok \/ unit = "reloading")
            \/ unit' = "active" /\ wanAt' = "-" /\ (ok \/ unit = "reloading")
            \/ unit' = "failed" /\ wanAt' = "-" /\ unit = "starting" /\ ~ ok
<1>1. unit \in {"starting", "reloading"}
  BY DEF RouterTypeOK
<1>2. CASE ok \/ unit = "reloading"
  BY <1>2, Zenon DEF Ends
<1>3. CASE ~ ok /\ unit = "starting"
  BY <1>3, Zenon DEF Ends
<1> QED BY <1>1, <1>2, <1>3

\* A counter that stops at its bound.
LEMMA Ticks == ASSUME NEW k \in 0..(Grace + 1) PROVE NoMore(k + 1) \in 0..(Grace + 1)
BY RouterAssumption DEF NoMore

\* The parts of RouterTypeOK.
WanOK == wan \in Addresses /\ {reachable, refreshed, emptied} \subseteq BOOLEAN
FileOK ==
  /\ routerSet \subseteq Addresses /\ saved \in Addresses \cup {NoAddress}
  /\ {age, uptime, outage} \subseteq 0..(Grace + 1) /\ disturbances \in 0..MaxDisturbances
UnitOK ==
  /\ found \in Addresses \cup {NoAddress} /\ queued \in BOOLEAN
  /\ unit \in {"starting", "reloading", "active", "failed"}
  /\ wanAt \in {"-", "put", "lookup", "flush", "add", "write"}
  /\ (unit \in {"starting", "reloading"}) <=> (wanAt # "-")
  /\ (found # NoAddress) <=> (wanAt \in {"flush", "add", "write"})

\* The types in three parts.
LEMMA TypeParts == RouterTypeOK <=> WanOK /\ FileOK /\ UnitOK
BY DEF RouterTypeOK, WanOK, FileOK, UnitOK

\* An exit of the reconnect unit keeps the types.
LEMMA EndsTyped ==
  ASSUME NEW ok \in BOOLEAN, RouterTypeOK, wanAt # "-", Ends(ok)
  PROVE  UnitOK'
<1>1. NoAddress \notin Addresses
  BY RouterAssumption
<1> QED BY HowItEnds, <1>1 DEF UnitOK

\* So does its next step.
LEMMA GotoTyped ==
  ASSUME NEW where \in {"lookup", "flush", "add", "write"}, NEW address \in Addresses \cup {NoAddress},
         (address # NoAddress) <=> (where \in {"flush", "add", "write"}),
         RouterTypeOK, wanAt # "-", Goto(where, address)
  PROVE  UnitOK'
BY DEF RouterTypeOK, UnitOK, Goto

\* The types hold at first,
LEMMA InitialRouter == RouterInit => RouterTypeOK
<1> SUFFICES ASSUME RouterInit PROVE RouterTypeOK
  OBVIOUS
<1>1. WanOK
  BY DEF RouterInit, WanOK
<1>2. FileOK
  BY RouterAssumption DEF RouterInit, FileOK
<1>3. UnitOK
  BY DEF RouterInit, UnitOK
<1> QED BY <1>1, <1>2, <1>3, TypeParts

\* and every step keeps them.
LEMMA RouterTyped == RouterTypeOK /\ [RouterNext]_routerVars => RouterTypeOK'
<1> SUFFICES ASSUME RouterTypeOK, [RouterNext]_routerVars PROVE WanOK' /\ FileOK' /\ UnitOK'
  BY TypeParts DEF RouterTypeOK, WanOK, FileOK, UnitOK
<1> USE RouterAssumption
<1>0. WanOK /\ FileOK /\ UnitOK
  BY TypeParts
<1>1. CASE PutBack
  <2>1. WanOK' /\ FileOK'
    BY <1>0, <1>1 DEF PutBack, Filled, clockVars, WanOK, FileOK
  <2>2. UnitOK'
    BY <1>1, GotoTyped DEF PutBack
  <2> QED BY <2>1, <2>2
<1>2. CASE LookUp
  <2>1. WanOK' /\ FileOK'
    BY <1>0, <1>2 DEF LookUp, fileAndSet, WanOK, FileOK
  <2>2. wan \in Addresses \cup {NoAddress} /\ wan # NoAddress
    BY <1>0 DEF WanOK
  <2>3. UnitOK'
    BY <1>2, <2>2, GotoTyped DEF LookUp
  <2> QED BY <2>1, <2>3
<1>3. CASE LookupFails
  <2>1. WanOK' /\ FileOK'
    BY <1>0, <1>3 DEF LookupFails, fileAndSet, clockVars, WanOK, FileOK
  <2>2. UnitOK'
    BY <1>3, EndsTyped DEF LookupFails, Early
  <2> QED BY <2>1, <2>2
<1>4. CASE Flush
  <2>1. WanOK' /\ FileOK'
    BY <1>0, <1>4 DEF Flush, clockVars, WanOK, FileOK
  <2>2. UnitOK'
    BY <1>0, <1>4, GotoTyped DEF Flush, UnitOK
  <2> QED BY <2>1, <2>2
<1>5. CASE AddAddress
  <2>1. found \in Addresses
    BY <1>0, <1>5 DEF AddAddress, UnitOK
  <2>2. WanOK' /\ FileOK'
    BY <1>0, <1>5, <2>1 DEF AddAddress, Filled, clockVars, WanOK, FileOK
  <2>3. UnitOK'
    BY <1>0, <1>5, <2>1, GotoTyped DEF AddAddress, UnitOK
  <2> QED BY <2>2, <2>3
<1>6. CASE WriteAddress
  <2>1. WanOK' /\ FileOK'
    BY <1>0, <1>6 DEF WriteAddress, clockVars, WanOK, FileOK, UnitOK
  <2>2. UnitOK'
    BY <1>6, EndsTyped DEF WriteAddress
  <2> QED BY <2>1, <2>2
<1>7. CASE Refresh
  BY <1>0, <1>7 DEF Refresh, fileAndSet, WanOK, FileOK, UnitOK
<1>8. CASE Tick
  <2>1. {age', uptime', outage'} \subseteq 0..(Grace + 1)
    BY <1>0, <1>8, Ticks DEF Tick, FileOK
  <2> QED BY <1>0, <1>8, <2>1 DEF Tick, unitVars, WanOK, FileOK, UnitOK
<1>9. CASE \E address \in Addresses : NewAddress(address)
  BY <1>0, <1>9 DEF NewAddress, Disturbance, fileAndSet, unitVars, clockVars, WanOK, FileOK, UnitOK
<1>10. CASE Outage
  BY <1>0, <1>10 DEF Outage, Disturbance, fileAndSet, unitVars, clockVars, WanOK, FileOK, UnitOK
<1>11. CASE \E kept \in BOOLEAN : RulesetReload(kept)
  <2> PICK kept \in BOOLEAN : RulesetReload(kept)
    BY <1>11
  <2>0. /\ disturbances < MaxDisturbances /\ disturbances' = disturbances + 1
        /\ routerSet' = {} /\ emptied' = TRUE
        /\ UNCHANGED <<wan, reachable, saved, age, clockVars>>
    BY Zenon DEF RulesetReload, Disturbance
  <2>1. WanOK' /\ FileOK'
    BY <1>0, <2>0 DEF clockVars, WanOK, FileOK
  <2>2. UnitOK'
    <3>1. CASE unit = "active"
      BY <1>0, <3>1 DEF RulesetReload, ReloadPropagated, UnitOK
    <3>2. CASE unit \in {"starting", "reloading"}
      BY <1>0, <3>2 DEF RulesetReload, ReloadPropagated, UnitOK
    <3>3. CASE unit = "failed"
      BY <1>0, <3>3 DEF RulesetReload, ReloadPropagated, UnitOK, unitVars
    <3> QED BY <1>0, <3>1, <3>2, <3>3 DEF UnitOK
  <2> QED BY <2>1, <2>2
<1>12. CASE CommandFails
  <2>1. age' \in {0, age} /\ saved' \in {saved, NoAddress} /\ emptied' \in BOOLEAN
    BY <1>12, Zenon DEF CommandFails
  <2>2. WanOK' /\ FileOK'
    BY <1>0, <1>12, <2>1 DEF CommandFails, Disturbance, clockVars, WanOK, FileOK
  <2>3. wanAt # "-" /\ Ends(FALSE)
    BY <1>12 DEF CommandFails
  <2>4. UnitOK'
    BY <2>3, EndsTyped
  <2> QED BY <2>2, <2>4
<1>13. CASE Reboot
  <2>1. age' \in 0..(Grace + 1)
    BY <1>0, <1>13, Ticks DEF Reboot, FileOK
  <2>2. /\ disturbances < MaxDisturbances /\ disturbances' = disturbances + 1
        /\ wan' = wan /\ reachable' = reachable /\ emptied' = FALSE /\ refreshed' = TRUE
        /\ routerSet' = {} /\ uptime' = 0 /\ outage' = 0
    BY <1>13, Zenon DEF Reboot, Disturbance
  <2>3. saved' \in {saved, NoAddress}
    BY <1>13 DEF Reboot
  <2>4. UnitOK'
    BY <1>13 DEF Reboot, UnitOK
  <2>5. WanOK'
    BY <1>0, <2>2 DEF WanOK
  <2>6. routerSet' \subseteq Addresses /\ disturbances' \in 0..MaxDisturbances
    BY <1>0, <2>2 DEF FileOK
  <2>7. FileOK'
    BY <1>0, <2>1, <2>2, <2>3, <2>6 DEF FileOK
  <2> QED BY <2>4, <2>5, <2>7
<1>14. CASE UNCHANGED routerVars
  BY <1>0, <1>14 DEF routerVars, fileAndSet, unitVars, clockVars, WanOK, FileOK, UnitOK
<1> QED
  BY <1>1, <1>2, <1>3, <1>4, <1>5, <1>6, <1>7, <1>8, <1>9, <1>10, <1>11, <1>12, <1>13, <1>14
  DEF RouterNext, WanStep

\* Each variable of the service keeps its type.
THEOREM RouterTypeCorrect == RouterSpec => []RouterTypeOK
BY InitialRouter, RouterTyped, PTL DEF RouterSpec

---------------------------------------------------------------------------
\* While an address is saved, the set is empty only between the two transactions,
\* before the last address is put back, or after a reload; once the new address
\* is in it, also without one saved.
GapsKnown ==
  routerSet = {} =>
    /\ wanAt \in {"lookup", "flush"} /\ saved # NoAddress => emptied
    /\ wanAt = "write" => emptied

\* Every step keeps the gap between two logins.
LEMMA GapsStep ==
  ASSUME RouterTypeOK, EmptyIsKnown, GapsKnown, [RouterNext]_routerVars
  PROVE  EmptyIsKnown' /\ GapsKnown'
<1> USE RouterAssumption DEF EmptyIsKnown, GapsKnown
<1>0. WanOK /\ FileOK /\ UnitOK
  BY TypeParts
<1>1. CASE PutBack
  <2>1. wanAt' = "lookup" /\ saved' = saved
    BY <1>1 DEF PutBack, Goto
  <2>2. saved # NoAddress => routerSet' # {}
    BY <1>1 DEF PutBack, Filled
  <2> QED BY <2>1, <2>2
<1>2. CASE LookUp
  BY <1>2, Zenon DEF LookUp, Goto, fileAndSet
<1>3. CASE LookupFails
  <2>1. wanAt = "lookup" /\ Ends(Early) /\ UNCHANGED <<routerSet, saved, emptied>>
    BY <1>3 DEF LookupFails, fileAndSet
  <2>2. wanAt' \in {"-", "put"}
    BY <2>1, HowItEnds DEF Early
  <2> QED BY <2>1, <2>2
<1>4. CASE Flush
  BY <1>4 DEF Flush, Goto
<1>5. CASE AddAddress
  <2>1. wanAt' = "write" /\ routerSet' # {}
    BY <1>5 DEF AddAddress, Goto, Filled
  <2> QED BY <2>1
<1>6. CASE WriteAddress
  <2>1. wanAt = "write" /\ Ends(TRUE) /\ UNCHANGED <<routerSet, emptied>>
    BY <1>6 DEF WriteAddress
  <2>2. wanAt' \in {"-", "put"}
    BY <2>1, HowItEnds
  <2> QED BY <2>1, <2>2
<1>7. CASE Refresh
  BY <1>7 DEF Refresh
<1>8. CASE Tick
  BY <1>8, Zenon DEF Tick, unitVars
<1>9. CASE \E address \in Addresses : NewAddress(address)
  <2>1. UNCHANGED <<routerSet, saved, unit, wanAt, emptied>>
    BY <1>9 DEF NewAddress, fileAndSet, unitVars
  <2> QED BY <2>1
<1>10. CASE Outage
  BY <1>10, Zenon DEF Outage, fileAndSet, unitVars
<1>11. CASE \E kept \in BOOLEAN : RulesetReload(kept)
  <2>1. emptied' = TRUE
    BY <1>11, Zenon DEF RulesetReload
  <2> QED BY <2>1
<1>12. CASE CommandFails
  <2>1. wanAt \in {"put", "flush", "add", "write"} /\ Ends(FALSE) /\ routerSet' = routerSet
    BY <1>12 DEF CommandFails
  <2>2. emptied' <=> (emptied \/ (unit = "reloading" /\ routerSet = {}))
    BY <1>12, Zenon DEF CommandFails
  <2>3. wanAt' \in {"-", "put"} /\ (unit' = "failed" \/ unit = "reloading")
    BY <2>1, HowItEnds
  <2>4. routerSet' = {} => unit' = "failed" \/ emptied'
    BY <2>1, <2>2, <2>3
  <2> QED BY <2>3, <2>4
<1>13. CASE Reboot
  BY <1>13 DEF Reboot
<1>14. CASE UNCHANGED routerVars
  BY <1>14, Zenon DEF routerVars, fileAndSet, unitVars
<1> QED
  BY <1>1, <1>2, <1>3, <1>4, <1>5, <1>6, <1>7, <1>8, <1>9, <1>10, <1>11, <1>12, <1>13, <1>14
  DEF RouterNext, WanStep

\* While an address is saved, the set is empty at rest only after a run that
\* failed the unit, or after a reload.
THEOREM GapsAreKnown == RouterSpec => []EmptyIsKnown
<1>1. RouterInit => EmptyIsKnown /\ GapsKnown
  BY DEF RouterInit, EmptyIsKnown, GapsKnown
<1>2. RouterTypeOK /\ EmptyIsKnown /\ GapsKnown /\ [RouterNext]_routerVars => EmptyIsKnown' /\ GapsKnown'
  BY GapsStep
<1> QED BY <1>1, <1>2, InitialRouter, RouterTyped, PTL DEF RouterSpec

---------------------------------------------------------------------------
\* The clocks of the script are not behind the outage, and only a unit that had
\* not failed by this tick's refresh can be reloading after it.
ClocksAgree ==
  /\ outage <= age /\ outage <= uptime
  /\ wanAt \in {"flush", "add", "write"} => outage = 0
  /\ unit = "reloading" /\ refreshed => outage <= Grace

\* Every step keeps what is known of an outage.
LEMMA OutageStep ==
  ASSUME RouterTypeOK, OutageIsPosted, ClocksAgree, [RouterNext]_routerVars
  PROVE  OutageIsPosted' /\ ClocksAgree'
<1> USE RouterAssumption
<1>0. WanOK /\ FileOK /\ UnitOK /\ {age, uptime, outage} \subseteq Nat
  BY TypeParts DEF FileOK
<1>1. CASE PutBack
  BY <1>1 DEF PutBack, Goto, clockVars, OutageIsPosted, ClocksAgree
<1>2. CASE LookUp
  BY <1>0, <1>2 DEF LookUp, Goto, fileAndSet, OutageIsPosted, ClocksAgree
<1>3. CASE LookupFails
  <2>1. wanAt = "lookup" /\ Ends(Early) /\ UNCHANGED <<age, uptime, refreshed, outage>>
    BY <1>3 DEF LookupFails, fileAndSet, clockVars
  <2>2. Early => outage < Grace
    BY <1>0 DEF Early, ClocksAgree
  <2>3. \/ wanAt' = "put" /\ unit' = "reloading" /\ (Early \/ unit = "reloading")
        \/ wanAt' = "-" /\ unit' = "active" /\ (Early \/ unit = "reloading")
        \/ wanAt' = "-" /\ unit' = "failed"
    BY <2>1, HowItEnds DEF Early
  <2> QED BY <1>0, <2>1, <2>2, <2>3 DEF OutageIsPosted, ClocksAgree
<1>4. CASE Flush
  BY <1>4 DEF Flush, Goto, clockVars, OutageIsPosted, ClocksAgree
<1>5. CASE AddAddress
  BY <1>5 DEF AddAddress, Goto, clockVars, OutageIsPosted, ClocksAgree
<1>6. CASE WriteAddress
  <2>1. outage' = 0 /\ uptime' = uptime /\ age' = 0
    BY <1>6 DEF WriteAddress, clockVars, ClocksAgree
  <2> QED BY <1>0, <2>1 DEF OutageIsPosted, ClocksAgree
<1>7. CASE Refresh
  BY <1>7 DEF Refresh, fileAndSet, OutageIsPosted, ClocksAgree
<1>8. CASE Tick
  <2>1. outage' <= age' /\ outage' <= uptime'
    BY <1>0, <1>8 DEF Tick, NoMore, ClocksAgree
  <2>2. ~ refreshed' /\ wanAt' = "-"
    BY <1>8, Zenon DEF Tick, unitVars
  <2> QED BY <2>1, <2>2 DEF OutageIsPosted, ClocksAgree
<1>9. CASE \E address \in Addresses : NewAddress(address)
  BY <1>9 DEF NewAddress, fileAndSet, unitVars, clockVars, OutageIsPosted, ClocksAgree
<1>10. CASE Outage
  BY <1>10 DEF Outage, fileAndSet, unitVars, clockVars, OutageIsPosted, ClocksAgree
<1>11. CASE \E kept \in BOOLEAN : RulesetReload(kept)
  <2>1. UNCHANGED <<age, uptime, refreshed, outage>>
    BY <1>11, Zenon DEF RulesetReload, clockVars
  <2>2. \/ unit = "active" /\ unit' = "reloading" /\ wanAt' = "put"
        \/ unit # "active" /\ unit' = unit /\ wanAt' = wanAt
    <3>1. unit \in {"active", "starting", "reloading", "failed"}
      BY <1>0 DEF UnitOK
    <3> QED BY <1>11, <3>1 DEF RulesetReload, ReloadPropagated, unitVars
  <2>3. unit = "active" => wanAt = "-"
    BY <1>0 DEF UnitOK
  <2> QED BY <1>0, <2>1, <2>2, <2>3 DEF OutageIsPosted, ClocksAgree
<1>12. CASE CommandFails
  <2>1. /\ wanAt \in {"put", "flush", "add", "write"} /\ Ends(FALSE)
        /\ UNCHANGED <<uptime, refreshed, outage>>
    BY <1>12 DEF CommandFails, clockVars
  <2>2. age' = age \/ (wanAt = "write" /\ age' = 0)
    BY <1>12, Zenon DEF CommandFails
  <2>3. \/ wanAt' = "put" /\ unit' = "reloading" /\ unit = "reloading"
        \/ wanAt' = "-" /\ unit' = "active" /\ unit = "reloading"
        \/ wanAt' = "-" /\ unit' = "failed"
    BY <2>1, HowItEnds
  <2> QED BY <1>0, <2>1, <2>2, <2>3 DEF OutageIsPosted, ClocksAgree
<1>13. CASE Reboot
  <2>1. /\ outage' = 0 /\ uptime' = 0 /\ age' \in Nat /\ wanAt' = "put" /\ unit' = "starting"
    BY <1>0, <1>13 DEF Reboot, NoMore
  <2> QED BY <2>1 DEF OutageIsPosted, ClocksAgree
<1>14. CASE UNCHANGED routerVars
  BY <1>14 DEF routerVars, fileAndSet, unitVars, clockVars, OutageIsPosted, ClocksAgree
<1> QED
  BY <1>1, <1>2, <1>3, <1>4, <1>5, <1>6, <1>7, <1>8, <1>9, <1>10, <1>11, <1>12, <1>13, <1>14
  DEF RouterNext, WanStep

\* After thirty minutes without an answer the unit is failed once the tick's run
\* is over, whatever was reloaded in between.
THEOREM OutagesArePosted == RouterSpec => []OutageIsPosted
<1>1. RouterInit => OutageIsPosted /\ ClocksAgree
  BY RouterAssumption DEF RouterInit, OutageIsPosted, ClocksAgree
<1>2. RouterTypeOK /\ OutageIsPosted /\ ClocksAgree /\ [RouterNext]_routerVars
        => OutageIsPosted' /\ ClocksAgree'
  BY OutageStep
<1> QED BY <1>1, <1>2, InitialRouter, RouterTyped, PTL DEF RouterSpec

---------------------------------------------------------------------------
(***************************************************************************)
(* The cap of the query log.                                               *)
(***************************************************************************)

\* A set of the first numbers, with each that is before one of its own, is as
\* many of them as it has.
LEMMA FirstOnes ==
  ASSUME NEW n \in Nat, NEW S \in SUBSET (1..n),
         \A i, j \in 1..n : i <= j /\ j \in S => i \in S
  PROVE  Cardinality(S) \in 0..n /\ S = 1..Cardinality(S) /\ IsFiniteSet(S)
<1> DEFINE k == Cardinality(S)
<1>1. IsFiniteSet(1..n) /\ Cardinality(1..n) = n BY FS_Interval
<1>2. IsFiniteSet(S) /\ k \in Nat /\ k <= n
      BY <1>1, FS_Subset, FS_CardinalityType
<1>3. S \subseteq 1..k
  <2> SUFFICES ASSUME NEW j \in S PROVE j <= k
      OBVIOUS
  <2>1. 1..j \subseteq S /\ j \in Nat OBVIOUS
  <2>2. Cardinality(1..j) = j BY <2>1, FS_Interval
  <2> QED BY <1>2, <2>1, <2>2, FS_Subset
<1>4. IsFiniteSet(1..k) /\ Cardinality(1..k) = k BY <1>2, FS_Interval
<1>5. S = 1..k BY <1>3, <1>4, FS_Subset
<1> QED BY <1>2, <1>5

\* Integer division is the number it says.
LEMMA Quotient ==
  ASSUME NEW n \in Nat, NEW d \in Nat \ {0}, NEW q \in Nat, d * q <= n, n < d * (q + 1)
  PROVE  n \div d = q
OBVIOUS

\* Integer division, for SMT.
LEMMA QuotientBounds ==
  ASSUME NEW n \in Nat, NEW d \in Nat \ {0}
  PROVE  /\ n \div d \in Nat
         /\ d * (n \div d) <= n /\ n < d * ((n \div d) + 1)
OBVIOUS

\* A factor of both goes.
LEMMA QuotientCancels ==
  ASSUME NEW n \in Nat, NEW d \in Nat \ {0}, NEW e \in Nat \ {0}
  PROVE  (e * n) \div (e * d) = n \div d
<1> DEFINE q == n \div d
<1>1. q \in Nat /\ d * q <= n /\ n < d * (q + 1) BY QuotientBounds
<1> HIDE DEF q
<1>2. e * (d * q) <= e * n /\ e * n < e * (d * (q + 1))
      BY <1>1
<1>3. e * d \in Nat \ {0} /\ e * n \in Nat /\ (e * d) * q = e * (d * q) /\ (e * d) * (q + 1) = e * (d * (q + 1))
      BY <1>1
<1> QED BY <1>1, <1>2, <1>3, Quotient DEF q

\* The rows are the newest first, none after the last query.
Sorted == \A i, j \in DOMAIN rows : i <= j => rows[i] >= rows[j] /\ latest >= rows[i]

RowsOK == rows \in Seq(1..MaxTime) /\ latest \in 1..MaxTime /\ Sorted

\* Rows of the table are times.
LEMMA RowTimes ==
  ASSUME RowsOK
  PROVE  /\ Len(rows) \in Nat /\ DOMAIN rows = 1..Len(rows) /\ latest \in Nat
         /\ \A i \in DOMAIN rows : rows[i] \in 1..MaxTime /\ rows[i] \in Nat
<1>1. PICK T : T = 1..MaxTime OBVIOUS
<1>2. T \subseteq Nat BY <1>1, LogAssumption
<1>3. rows \in Seq(T) /\ latest \in T BY <1>1 DEF RowsOK
<1>4. \A i \in DOMAIN rows : rows[i] \in T BY <1>3
<1> QED BY <1>1, <1>2, <1>3, <1>4

\* What is deleted up to an instant is the end of the table.
LEMMA NewerIsFirst ==
  ASSUME RowsOK, NEW t \in Nat
  PROVE  \E k \in 0..Len(rows) :
           /\ Newer(t) = SubSeq(rows, 1, k) /\ Newer(t) \in Seq(1..MaxTime) /\ Len(Newer(t)) = k
           /\ DOMAIN Newer(t) = 1..k /\ \A i \in 1..k : Newer(t)[i] = rows[i]
           /\ \A i \in DOMAIN rows : rows[i] > t <=> i <= k
<1> USE RowTimes
<1> DEFINE S == {i \in DOMAIN rows : rows[i] > t}
           k == Cardinality(S)
<1>1. S \in SUBSET (1..Len(rows)) OBVIOUS
<1>2. \A i, j \in 1..Len(rows) : i <= j /\ j \in S => i \in S BY DEF RowsOK, Sorted
<1>3. k \in 0..Len(rows) /\ S = 1..k BY <1>1, <1>2, FirstOnes
<1>4. Newer(t) = SubSeq(rows, 1, k) BY DEF Newer
<1>5. rows \in Seq(1..MaxTime) BY DEF RowsOK
<1>6. \A i \in DOMAIN rows : rows[i] > t <=> i \in 1..k BY <1>3
<1> HIDE DEF k, S
<1>7. /\ SubSeq(rows, 1, k) \in Seq(1..MaxTime) /\ Len(SubSeq(rows, 1, k)) = k
      /\ DOMAIN SubSeq(rows, 1, k) = 1..k
      /\ \A i \in 1..k : SubSeq(rows, 1, k)[i] = rows[i]
      BY <1>3, <1>5
<1>8. \A i \in DOMAIN rows : i \in 1..k <=> i <= k BY <1>3
<1> QED BY <1>3, <1>4, <1>6, <1>7, <1>8

\* The keep of every run: the estimate of the rows cancels.
Kept == Larger((8 * cap) \div (10 * width), MinKeep)

JobOK ==
  /\ cap \in Caps /\ width \in Widths /\ estimate \in 0..MaxRows /\ live \in Nat
  /\ cutoff \in {None} \cup (1..MaxTime)
  /\ capAt \in {"-", "gate", "count", "estimate", "cutoff", "delete", "vacuum"}
  /\ capAt = "cutoff" => live = width * estimate /\ live > cap
  /\ capAt = "delete" => cutoff \in 1..MaxTime /\ width > 0
  /\ kills \in 0..MaxKills /\ asked \in 0..MaxWritten /\ trimmed \in -1..MaxWritten

TableOK ==
  /\ RowsOK /\ Len(rows) <= MaxRows
  /\ written \in 0..MaxWritten /\ dead \in Nat /\ Len(rows) + dead <= written
  /\ fileRows \in 0..MaxWritten /\ reltuples \in -1..MaxRows

LogOK == JobOK /\ TableOK

\* The parts are the types.
LEMMA LogParts == LogOK => LogTypeOK
<1> SUFFICES ASSUME LogOK PROVE LogTypeOK
    OBVIOUS
<1> USE RowTimes DEF LogOK, JobOK, TableOK
<1>1. dead \in 0..MaxWritten BY LogAssumption
<1>2. rows \in Seq(1..MaxTime) /\ latest \in 1..MaxTime BY DEF RowsOK
<1>3. \A i, j \in DOMAIN rows : i <= j => rows[i] >= rows[j] /\ latest >= rows[i]
      BY DEF RowsOK, Sorted
<1> QED BY <1>1, <1>2, <1>3 DEF LogTypeOK

\* The estimate of a row cancels: a run computes the same horizon before and after
\* its delete.
LEMMA KeepIsKept ==
  ASSUME LogOK, capAt = "cutoff"
  PROVE  Keep = Kept /\ Keep \in Nat /\ width \in Nat \ {0}
<1>1. cap \in Nat /\ width \in Nat /\ estimate \in Nat /\ width * estimate > cap
      BY LogAssumption DEF LogOK, JobOK
<1>2. width > 0 /\ estimate > 0 BY <1>1
<1>3. 8 * cap \in Nat /\ 10 * width \in Nat \ {0} /\ estimate \in Nat \ {0} BY <1>1, <1>2
<1>4. (estimate * (8 * cap)) \div (estimate * (10 * width)) = (8 * cap) \div (10 * width)
      /\ (8 * cap) \div (10 * width) \in Nat
      BY <1>3, QuotientCancels, QuotientBounds
<1>5. estimate * (8 * cap) = estimate * 8 * cap /\ estimate * (10 * width) = 10 * live
      BY <1>1 DEF LogOK, JobOK
<1> QED BY <1>1, <1>2, <1>4, <1>5, LogAssumption DEF Keep, Kept, Larger

\* The types hold at first.
LEMMA LogStart == LogInit => LogOK
<1> SUFFICES ASSUME LogInit PROVE LogOK
    OBVIOUS
<1>1. RowsOK BY LogAssumption DEF LogInit, RowsOK, Sorted
<1>2. TableOK BY <1>1, LogAssumption DEF LogInit, TableOK
<1>3. JobOK BY LogAssumption DEF LogInit, JobOK
<1> QED BY <1>2, <1>3 DEF LogOK

\* The table, where nothing of it moves.
LEMMA TableKept == ASSUME TableOK, UNCHANGED tableVars PROVE TableOK'
BY DEF TableOK, RowsOK, Sorted, tableVars

\* The job, likewise.
LEMMA JobKept ==
  ASSUME JobOK, UNCHANGED <<cap, width, jobVars, asked, trimmed>>, kills' = kills
  PROVE  JobOK'
BY DEF JobOK, jobVars

\* The end of a run holds nothing.
LEMMA JobEnds ==
  ASSUME JobOK, CapEnds, UNCHANGED <<cap, width>>, kills' \in 0..MaxKills,
         asked' \in 0..MaxWritten, trimmed' \in -1..MaxWritten
  PROVE  JobOK'
BY LogAssumption DEF JobOK, CapEnds

\* A table that loses its end.
LEMMA TableShrinks ==
  ASSUME TableOK, NEW t \in Nat, rows' = Newer(t), dead' = dead + Len(rows) - Len(Newer(t)),
         UNCHANGED <<latest, written, fileRows, reltuples>>
  PROVE  TableOK'
<1> USE RowTimes DEF TableOK
<1>1. PICK k \in 0..Len(rows) :
        /\ Newer(t) \in Seq(1..MaxTime) /\ Len(Newer(t)) = k
        /\ DOMAIN Newer(t) = 1..k /\ \A i \in 1..k : Newer(t)[i] = rows[i]
      BY NewerIsFirst
<1>2. 1..k \subseteq DOMAIN rows OBVIOUS
<1>3. Sorted' BY <1>1, <1>2 DEF RowsOK, Sorted
<1>4. RowsOK' BY <1>1, <1>3 DEF RowsOK
<1>5. Len(rows') <= MaxRows /\ dead' \in Nat /\ Len(rows') + dead' = Len(rows) + dead
  <2>1. Len(rows') = k /\ k \in Nat /\ k <= Len(rows) BY <1>1
  <2> QED BY <1>1, <2>1, LogAssumption
<1> QED BY <1>4, <1>5

\* Every step keeps the types.
LEMMA LogStep == LogOK /\ [LogNext]_logVars => LogOK'
<1> SUFFICES ASSUME JobOK, TableOK, [LogNext]_logVars PROVE JobOK' /\ TableOK'
    BY DEF LogOK
<1> USE LogAssumption
<1>1. CASE CapStarts BY <1>1, TableKept DEF CapStarts, historyVars, JobOK
<1>2. CASE Gate
  <2>1. CASE capAt' = "-" BY <1>2, <2>1, TableKept, JobEnds DEF Gate, historyVars, JobOK
  <2>2. CASE capAt' # "-" BY <1>2, <2>2, TableKept DEF Gate, CapEnds, historyVars, JobOK
  <2> QED BY <2>1, <2>2
<1>3. CASE Count
  <2>1. estimate' \in 0..MaxRows BY <1>3, RowTimes DEF Count, TableOK
  <2> QED BY <1>3, <2>1, TableKept DEF Count, historyVars, JobOK
<1>4. CASE EstimateLive
  <2>1. CASE Live > cap
    <3>1. Live = width * estimate BY <2>1 DEF Live, JobOK
    <3>2. Live \in Nat BY <3>1 DEF JobOK
    <3> QED BY <1>4, <2>1, <3>1, <3>2, TableKept DEF EstimateLive, historyVars, JobOK
  <2>2. CASE ~ (Live > cap) BY <1>4, <2>2, TableKept, JobEnds DEF EstimateLive, historyVars, JobOK
  <2> QED BY <2>1, <2>2
<1>5. CASE ReadCutoff
  <2>1. CASE Len(rows) > Keep
    <3>1. Keep \in Nat /\ width > 0 BY <1>5, KeepIsKept DEF ReadCutoff, LogOK, JobOK
    <3>2. rows[Keep + 1] \in 1..MaxTime BY <2>1, <3>1, RowTimes DEF TableOK
    <3>3. /\ cutoff' \in 1..MaxTime /\ capAt' = "delete" /\ asked' = written
          /\ UNCHANGED <<estimate, live, cap, width, kills, trimmed>> /\ UNCHANGED tableVars
          BY <1>5, <2>1, <3>2 DEF ReadCutoff
    <3> QED BY <3>1, <3>3, TableKept DEF JobOK, TableOK
  <2>2. CASE ~ (Len(rows) > Keep)
        BY <1>5, <2>2, TableKept, JobEnds DEF ReadCutoff, JobOK
  <2> QED BY <2>1, <2>2
<1>6. CASE DeleteOld
  <2>1. cutoff \in Nat BY <1>6 DEF DeleteOld, JobOK
  <2>2. TableOK' BY <1>6, <2>1, TableShrinks DEF DeleteOld
  <2>3. JobOK' BY <1>6 DEF DeleteOld, JobOK
  <2> QED BY <2>2, <2>3
<1>7. CASE Vacuum
  <2>1. TableOK' BY <1>7, RowTimes DEF Vacuum, TableOK, RowsOK, Sorted
  <2> QED BY <1>7, <2>1, JobEnds DEF Vacuum, historyVars, JobOK
<1>8. CASE Killed
  <2>1. kills' \in 0..MaxKills BY <1>8 DEF Killed, JobOK
  <2> QED BY <1>8, <2>1, TableKept, JobEnds DEF Killed, historyVars, JobOK
<1>9. ASSUME NEW t \in 1..MaxTime, WriteRow(t) PROVE JobOK' /\ TableOK'
  <2>1. /\ written < MaxWritten /\ Len(rows) < MaxRows /\ t >= latest /\ latest' = t
        /\ rows' = <<t>> \o rows /\ written' = written + 1
        /\ fileRows' = Larger(fileRows, Len(rows) + 1 + dead)
        /\ UNCHANGED <<cap, width, dead, reltuples, jobVars, kills, historyVars>>
        BY <1>9 DEF WriteRow
  <2>2. /\ rows' \in Seq(1..MaxTime) /\ Len(rows') = Len(rows) + 1
        /\ rows'[1] = t /\ \A i \in DOMAIN rows' : i > 1 => rows'[i] = rows[i - 1] /\ i - 1 \in DOMAIN rows
        /\ DOMAIN rows' = 1..(Len(rows) + 1)
    <3>1. PICK T : T = 1..MaxTime OBVIOUS
    <3>2. rows \in Seq(T) /\ t \in T BY <3>1 DEF TableOK, RowsOK
    <3>3. /\ rows' \in Seq(T) /\ Len(rows') = Len(rows) + 1
          /\ rows'[1] = t /\ \A i \in DOMAIN rows' : i > 1 => rows'[i] = rows[i - 1] /\ i - 1 \in DOMAIN rows
          /\ DOMAIN rows' = 1..(Len(rows) + 1)
          BY <2>1, <3>2
    <3> QED BY <3>1, <3>3
  <2>3. Sorted'
    <3>1. \A i \in DOMAIN rows : latest >= rows[i] /\ rows[i] \in Nat /\ t >= rows[i]
          BY <2>1, RowTimes DEF TableOK, RowsOK, Sorted
    <3>2. ASSUME NEW i \in DOMAIN rows', NEW j \in DOMAIN rows', i <= j
          PROVE  rows'[i] >= rows'[j] /\ t >= rows'[i]
      <4>1. CASE i > 1
        <5>1. /\ i - 1 \in DOMAIN rows /\ j - 1 \in DOMAIN rows /\ i - 1 <= j - 1
              /\ rows'[i] = rows[i - 1] /\ rows'[j] = rows[j - 1]
              BY <2>2, <3>2, <4>1
        <5>2. rows[i - 1] >= rows[j - 1] BY <5>1 DEF TableOK, RowsOK, Sorted
        <5> QED BY <3>1, <5>1, <5>2
      <4>2. CASE i = 1
        <5>1. rows'[i] = t /\ (j > 1 => rows'[j] = rows[j - 1] /\ j - 1 \in DOMAIN rows)
              BY <2>2, <4>2
        <5>2. j = 1 \/ j > 1 BY <2>2
        <5> QED BY <3>1, <4>2, <5>1, <5>2
      <4> QED BY <2>2, <4>1, <4>2
    <3> QED BY <2>1, <3>2 DEF Sorted
  <2>4. fileRows' \in 0..MaxWritten
    <3>1. Len(rows) + 1 + dead <= MaxWritten /\ Len(rows) + 1 + dead \in Nat
          BY <2>1, RowTimes DEF TableOK
    <3> QED BY <2>1, <3>1 DEF Larger, TableOK
  <2>5. TableOK' BY <2>1, <2>2, <2>3, <2>4, RowTimes DEF TableOK, RowsOK
  <2> QED BY <2>1, <2>5, JobKept DEF historyVars
<1>10. CASE Retention
  <2>1. rows[Len(rows)] \in Nat
    <3>1. Len(rows) \in DOMAIN rows BY <1>10, RowTimes DEF Retention, TableOK, RowsOK
    <3> QED BY <3>1, RowTimes DEF TableOK
  <2>2. TableOK' BY <1>10, <2>1, TableShrinks DEF Retention
  <2> QED BY <1>10, <2>2, JobKept DEF Retention, historyVars
<1>11. CASE Autovacuum
  <2>1. TableOK' BY <1>11, RowTimes DEF Autovacuum, TableOK, RowsOK, Sorted
  <2> QED BY <1>11, <2>1, JobKept DEF Autovacuum, historyVars
<1>12. CASE UNCHANGED logVars BY <1>12, TableKept, JobKept DEF logVars, historyVars
<1> QED BY <1>1, <1>2, <1>3, <1>4, <1>5, <1>6, <1>7, <1>8, <1>9, <1>10, <1>11, <1>12
        DEF LogNext, CapStep

\* The rows that may be left when those after the cutoff are.
Room == Kept + (written - asked)

\* The last trim has left no more than a run keeps, but for what was written since;
\* and the next deletes only what is beyond it.  A row that is not after the cutoff
\* has those that are kept before it, whatever the retention has taken.
TrimInv ==
  /\ asked <= written /\ trimmed <= written
  /\ trimmed >= 0 => width > 0 /\ Len(rows) <= Kept + (written - trimmed)
  /\ capAt = "delete" =>
       /\ asked > trimmed /\ cutoff <= latest
       /\ Len(rows) > Room => rows[Room + 1] <= cutoff
       /\ cutoff = latest \/ (rows # <<>> /\ rows[Len(rows)] <= cutoff) =>
            Len(rows) > Kept /\ rows[Kept + 1] >= cutoff

\* With numbers in it.
LEMMA TrimNumbers ==
  ASSUME LogOK
  PROVE  /\ written \in Nat /\ asked \in Nat /\ trimmed \in Int /\ Len(rows) \in Nat
         /\ DOMAIN rows = 1..Len(rows) /\ latest \in Nat
         /\ \A i \in DOMAIN rows : rows[i] \in Nat
         /\ \A i, j \in DOMAIN rows : i <= j => rows[i] >= rows[j] /\ latest >= rows[i]
         /\ capAt = "delete" => cutoff \in Nat
         /\ width > 0 => Kept \in Nat /\ Kept >= MinKeep
<1>1. width > 0 => (8 * cap) \div (10 * width) \in Nat
  <2> SUFFICES ASSUME width > 0 PROVE (8 * cap) \div (10 * width) \in Nat
      OBVIOUS
  <2>1. 8 * cap \in Nat /\ 10 * width \in Nat \ {0} BY LogAssumption DEF LogOK, JobOK
  <2> QED BY <2>1, QuotientBounds
<1>2. width > 0 => Kept \in Nat /\ Kept >= MinKeep BY <1>1, LogAssumption DEF Kept, Larger
<1> QED BY <1>2, RowTimes, LogAssumption DEF LogOK, JobOK, TableOK, RowsOK, Sorted

\* A step that leaves table and histories alone keeps what is known of a trim.
LEMMA TrimKept ==
  ASSUME TrimInv, UNCHANGED <<cap, width, rows, latest, written, historyVars>>,
         capAt' = "delete" => UNCHANGED <<capAt, cutoff>>
  PROVE  TrimInv'
BY DEF TrimInv, Room, Kept, historyVars

\* The job's reads.
LEMMA TrimReads ==
  ASSUME LogOK, TrimInv, ReadCutoff
  PROVE  TrimInv'
<1>1. CASE Len(rows) > Keep
  <2>1. Keep = Kept /\ Kept \in Nat /\ width > 0 BY KeepIsKept DEF ReadCutoff
  <2>2. /\ cutoff' = rows[Kept + 1] /\ capAt' = "delete" /\ asked' = written
        /\ UNCHANGED <<cap, width, rows, latest, written, trimmed>>
        BY <1>1, <2>1 DEF ReadCutoff, tableVars
  <2>3. Kept' = Kept BY <2>2 DEF Kept
  <2>4. Kept + 1 \in DOMAIN rows BY <1>1, <2>1, TrimNumbers
  <2>5. written > trimmed
    <3>1. CASE trimmed >= 0 BY <1>1, <2>1, <3>1, TrimNumbers DEF TrimInv
    <3>2. CASE trimmed < 0 BY <3>2, TrimNumbers
    <3> QED BY <3>1, <3>2, TrimNumbers
  <2>6. Room' = Kept BY <2>1, <2>2, <2>3, TrimNumbers DEF Room
  <2>7. rows[Kept + 1] \in Nat /\ rows[Kept + 1] <= latest BY <2>4, TrimNumbers
  <2> QED BY <1>1, <2>1, <2>2, <2>3, <2>5, <2>6, <2>7, TrimNumbers DEF TrimInv
<1>2. CASE ~ (Len(rows) > Keep)
      BY <1>2, TrimKept DEF ReadCutoff, CapEnds, tableVars, historyVars
<1> QED BY <1>1, <1>2

\* The delete.
LEMMA TrimDeletes ==
  ASSUME LogOK, TrimInv, DeleteOld
  PROVE  TrimInv'
<1>1. /\ rows' = Newer(cutoff) /\ trimmed' = asked /\ capAt' = "vacuum" /\ capAt = "delete"
      /\ UNCHANGED <<cap, width, written, asked>>
      BY DEF DeleteOld
<1>2. cutoff \in Nat /\ Kept \in Nat /\ width > 0 BY <1>1, TrimNumbers DEF LogOK, JobOK
<1>3. PICK k \in 0..Len(rows) :
        Len(Newer(cutoff)) = k /\ \A i \in DOMAIN rows : rows[i] > cutoff <=> i <= k
      BY <1>2, NewerIsFirst DEF LogOK, TableOK
<1>4. Room \in Nat BY <1>2, TrimNumbers DEF TrimInv, Room
<1>5. k <= Room
  <2> SUFFICES ASSUME k > Room PROVE FALSE
      BY <1>4
  <2>1. Room + 1 \in DOMAIN rows /\ Room + 1 <= k BY <1>4, TrimNumbers
  <2>2. rows[Room + 1] > cutoff BY <1>3, <2>1
  <2>3. rows[Room + 1] <= cutoff BY <1>1, <1>4, <2>1, TrimNumbers DEF TrimInv
  <2> QED BY <1>2, <2>1, <2>2, <2>3, TrimNumbers
<1>6. Kept' = Kept BY <1>1 DEF Kept
<1> QED BY <1>1, <1>2, <1>3, <1>5, <1>6, TrimNumbers DEF TrimInv, Room

\* A row at the front, no earlier than the last query.
LEMMA TrimWrites ==
  ASSUME LogOK, TrimInv, NEW t \in 1..MaxTime, WriteRow(t)
  PROVE  TrimInv'
<1> USE TrimNumbers
<1>1. /\ t >= latest /\ latest' = t /\ t \in Nat
      /\ rows' = <<t>> \o rows /\ written' = written + 1
      /\ UNCHANGED <<cap, width, jobVars, historyVars>>
      BY LogAssumption DEF WriteRow
<1>2. rows \in Seq(1..MaxTime) BY DEF LogOK, TableOK, RowsOK
<1>3. /\ Len(rows') = Len(rows) + 1 /\ rows'[1] = t
      /\ \A i \in 1..Len(rows') : i > 1 => rows'[i] = rows[i - 1]
      BY <1>1, <1>2
<1>4. Kept' = Kept /\ UNCHANGED <<asked, trimmed, capAt, cutoff>>
      BY <1>1 DEF Kept, jobVars, historyVars
<1>5. /\ asked <= written' /\ trimmed <= written'
      /\ trimmed >= 0 => width > 0 /\ Len(rows') <= Kept + (written' - trimmed)
      BY <1>1, <1>3 DEF TrimInv
<1>6. ASSUME capAt = "delete"
      PROVE  /\ cutoff <= latest'
             /\ Len(rows') > Room' => rows'[Room' + 1] <= cutoff
             /\ cutoff = latest' \/ (rows' # <<>> /\ rows'[Len(rows')] <= cutoff) =>
                  Len(rows') > Kept /\ rows'[Kept + 1] >= cutoff
  <2>1. /\ Kept \in Nat /\ cutoff \in Nat /\ cutoff <= latest
        /\ Room \in Nat /\ Room' = Room + 1
    <3>1. Kept \in Nat /\ cutoff \in Nat BY <1>6 DEF LogOK, JobOK
    <3>2. asked <= written /\ cutoff <= latest BY <1>6 DEF TrimInv
    <3>3. Room' = Kept + (written + 1 - asked) BY <1>1, <1>4 DEF Room
    <3> QED BY <3>1, <3>2, <3>3 DEF Room
  <2>2. Len(rows') > Room' => rows'[Room' + 1] <= cutoff
    <3> SUFFICES ASSUME Len(rows') > Room' PROVE rows'[Room' + 1] <= cutoff
        OBVIOUS
    <3>1. rows'[Room' + 1] = rows[Room + 1] BY <1>3, <2>1
    <3> QED BY <1>3, <1>6, <2>1, <3>1 DEF TrimInv
  <2>3. ASSUME Len(rows) > Kept, rows[Kept + 1] >= cutoff
        PROVE  Len(rows') > Kept /\ rows'[Kept + 1] >= cutoff
    <3>1. Len(rows') > Kept BY <1>3, <2>1, <2>3
    <3>2. CASE Kept = 0
      <4>1. rows[1] \in Nat /\ latest >= rows[1] BY <2>3, <3>2
      <4> QED BY <1>1, <1>3, <2>1, <2>3, <3>1, <3>2, <4>1
    <3>3. CASE Kept > 0
      <4>1. rows'[Kept + 1] = rows[Kept] BY <1>3, <2>1, <3>1, <3>3
      <4>2. rows[Kept] >= rows[Kept + 1] /\ rows[Kept] \in Nat /\ rows[Kept + 1] \in Nat
            BY <2>1, <2>3, <3>3
      <4> QED BY <2>1, <2>3, <3>1, <4>1, <4>2
    <3> QED BY <2>1, <3>2, <3>3
  <2>4. CASE cutoff = latest \/ (rows # <<>> /\ rows[Len(rows)] <= cutoff)
        BY <1>1, <1>6, <2>1, <2>2, <2>3, <2>4 DEF TrimInv
  <2>5. CASE ~ (cutoff = latest \/ (rows # <<>> /\ rows[Len(rows)] <= cutoff))
    <3>1. cutoff < latest' BY <1>1, <2>1, <2>5
    <3>2. rows'[Len(rows')] > cutoff
      <4>1. CASE rows = <<>> BY <1>1, <1>2, <1>3, <3>1, <4>1
      <4>2. CASE rows # <<>>
        <5>1. Len(rows) > 0 BY <1>2, <4>2
        <5>2. rows'[Len(rows')] = rows[Len(rows)] /\ rows[Len(rows)] \in Nat BY <1>3, <5>1
        <5> QED BY <2>1, <2>5, <4>2, <5>2
      <4> QED BY <4>1, <4>2
    <3>3. rows'[Len(rows')] \in Nat
      <4>1. CASE rows = <<>> BY <1>1, <1>2, <1>3, <4>1
      <4>2. CASE rows # <<>>
        <5>1. Len(rows) > 0 BY <1>2, <4>2
        <5> QED BY <1>3, <5>1
      <4> QED BY <4>1, <4>2
    <3> QED BY <1>1, <2>1, <2>2, <3>1, <3>2, <3>3
  <2> QED BY <2>4, <2>5
<1>7. capAt = "delete" => asked > trimmed BY DEF TrimInv
<1> QED BY <1>1, <1>4, <1>5, <1>6, <1>7 DEF TrimInv

\* The oldest rows go, which are not those of the last query.
LEMMA TrimRetires ==
  ASSUME LogOK, TrimInv, Retention
  PROVE  TrimInv'
<1> USE TrimNumbers
<1> DEFINE t == rows[Len(rows)]
<1>1. /\ rows # <<>> /\ t < latest /\ rows' = Newer(t)
      /\ UNCHANGED <<cap, width, latest, written, jobVars, historyVars>>
      BY DEF Retention
<1>2. rows \in Seq(1..MaxTime) BY DEF LogOK, TableOK, RowsOK
<1>3. Len(rows) \in DOMAIN rows /\ t \in Nat BY <1>1, <1>2
<1>4. PICK k \in 0..Len(rows) :
        /\ Len(Newer(t)) = k /\ \A i \in 1..k : Newer(t)[i] = rows[i]
        /\ \A i \in DOMAIN rows : rows[i] > t <=> i <= k
      BY <1>3, NewerIsFirst DEF LogOK, TableOK
<1>5. Kept' = Kept /\ Room' = Room /\ UNCHANGED <<asked, trimmed, capAt, cutoff>>
      BY <1>1 DEF Kept, Room, jobVars, historyVars
<1>6. /\ k < Len(rows) /\ Len(rows') = k
      /\ \A i \in DOMAIN rows : i <= k => rows'[i] = rows[i]
      BY <1>1, <1>3, <1>4
<1> HIDE DEF t
<1>7. trimmed >= 0 => width > 0 /\ Len(rows') <= Kept + (written - trimmed)
      BY <1>6 DEF TrimInv
<1>8. ASSUME capAt = "delete"
      PROVE  /\ Len(rows') > Room => rows'[Room + 1] <= cutoff
             /\ cutoff = latest \/ (rows' # <<>> /\ rows'[Len(rows')] <= cutoff) =>
                  Len(rows') > Kept /\ rows'[Kept + 1] >= cutoff
  <2>1. /\ Kept \in Nat /\ cutoff \in Nat /\ cutoff <= latest /\ Room \in Nat
        BY <1>1, <1>8 DEF TrimInv, Room, LogOK, JobOK
  <2>2. Len(rows') > Room => rows'[Room + 1] <= cutoff
    <3> SUFFICES ASSUME Len(rows') > Room PROVE rows'[Room + 1] <= cutoff
        OBVIOUS
    <3>1. Room + 1 \in DOMAIN rows /\ Room + 1 <= k /\ Len(rows) > Room BY <1>6, <2>1
    <3> QED BY <1>6, <1>8, <3>1 DEF TrimInv
  <2>3. ASSUME t < cutoff, Len(rows) > Kept, rows[Kept + 1] >= cutoff
        PROVE  Len(rows') > Kept /\ rows'[Kept + 1] >= cutoff
    <3>1. Kept + 1 \in DOMAIN rows /\ rows[Kept + 1] \in Nat BY <2>1, <2>3
    <3>2. Kept + 1 <= k BY <1>3, <1>4, <2>1, <2>3, <3>1
    <3> QED BY <1>6, <2>1, <2>3, <3>1, <3>2
  <2>4. CASE cutoff = latest
        BY <1>1, <1>8, <2>2, <2>3, <2>4 DEF TrimInv
  <2>5. CASE rows' # <<>> /\ rows'[Len(rows')] <= cutoff
    <3>1. k \in DOMAIN rows
      <4>1. k # 0
        <5>1. rows' \in Seq(1..MaxTime) BY <1>1, <1>3, NewerIsFirst DEF LogOK, TableOK
        <5> QED BY <1>6, <2>5, <5>1
      <4> QED BY <1>6, <4>1
    <3>2. rows'[k] = rows[k] /\ rows[k] > t /\ rows[k] \in Nat BY <1>4, <1>6, <3>1
    <3>3. t < cutoff BY <1>3, <1>6, <2>1, <2>5, <3>2
    <3>4. t <= cutoff BY <1>3, <2>1, <3>3
    <3>5. Len(rows) > Kept /\ rows[Kept + 1] >= cutoff
          BY <1>1, <1>8, <3>4 DEF TrimInv, t
    <3> QED BY <2>2, <2>3, <3>3, <3>5
  <2> QED BY <2>2, <2>4, <2>5
<1> QED BY <1>1, <1>5, <1>7, <1>8 DEF TrimInv

\* Every step keeps what is known of the last trim.
LEMMA TrimStep == LogOK /\ TrimInv /\ [LogNext]_logVars => TrimInv'
<1> SUFFICES ASSUME LogOK, TrimInv, [LogNext]_logVars PROVE TrimInv'
    OBVIOUS
<1>1. CASE ReadCutoff BY <1>1, TrimReads
<1>2. CASE DeleteOld BY <1>2, TrimDeletes
<1>3. CASE \E t \in 1..MaxTime : WriteRow(t) BY <1>3, TrimWrites
<1>4. CASE Retention BY <1>4, TrimRetires
<1>5. CASE CapStarts \/ Gate \/ Count \/ EstimateLive
      BY <1>5, TrimKept DEF CapStarts, Gate, Count, EstimateLive, CapEnds, tableVars
<1>6. CASE Vacuum \/ Killed
      BY <1>6, TrimKept DEF Vacuum, Killed, CapEnds, tableVars
<1>7. CASE Autovacuum BY <1>7, TrimKept DEF Autovacuum, jobVars
<1>8. CASE UNCHANGED logVars BY <1>8, TrimKept DEF logVars, tableVars, jobVars
<1> QED BY <1>1, <1>2, <1>3, <1>4, <1>5, <1>6, <1>7, <1>8 DEF LogNext, CapStep

\* Each variable of the job, the table and PostgreSQL's estimate keeps its type: the
\* rows stay in order, and the file and the dead rows within what was written.
THEOREM LogTypeCorrect == LogSpec => []LogTypeOK
BY LogStart, LogStep, LogParts, PTL DEF LogSpec

\* A trim that deletes leaves the minimum.
LEMMA TrimSpares ==
  ASSUME LogOK, TrimInv, DeleteOld, Len(rows') < Len(rows)
  PROVE  Spares /\ asked > trimmed
<1> USE TrimNumbers
<1>1. capAt = "delete" /\ rows' = Newer(cutoff) BY DEF DeleteOld
<1>2. cutoff \in Nat /\ Kept \in Nat /\ Kept >= MinKeep /\ MinKeep \in Nat
      BY <1>1, LogAssumption DEF LogOK, JobOK
<1>3. PICK k \in 0..Len(rows) :
        Len(Newer(cutoff)) = k /\ \A i \in DOMAIN rows : rows[i] > cutoff <=> i <= k
      BY <1>2, NewerIsFirst DEF LogOK, TableOK
<1>4. Len(rows') = k /\ k < Len(rows) /\ k \in Nat BY <1>1, <1>3
<1>5. Len(rows) > Kept /\ rows[Kept + 1] >= cutoff
  <2>1. Len(rows) \in DOMAIN rows /\ rows[Len(rows)] <= cutoff BY <1>2, <1>3, <1>4
  <2>2. rows # <<>> BY <2>1
  <2> QED BY <1>1, <2>1, <2>2 DEF TrimInv
<1> DEFINE S == {i \in DOMAIN rows : rows[i] = cutoff}
<1>6. IsFiniteSet(DOMAIN rows) BY FS_Interval
<1>7. S \in SUBSET DOMAIN rows OBVIOUS
<1>8. IsFiniteSet(S) /\ Cardinality(S) \in Nat BY <1>6, <1>7, FS_Subset, FS_CardinalityType
<1>9. k + 1 .. Kept + 1 \subseteq S
  <2> SUFFICES ASSUME NEW i \in k + 1 .. Kept + 1 PROVE i \in S
      OBVIOUS
  <2>1. i \in DOMAIN rows /\ Kept + 1 \in DOMAIN rows /\ i <= Kept + 1 /\ i > k
        BY <1>2, <1>4, <1>5
  <2>2. rows[i] <= cutoff BY <1>2, <1>3, <2>1
  <2>3. rows[i] >= rows[Kept + 1] BY <2>1
  <2> QED BY <1>2, <1>5, <2>1, <2>2, <2>3
<1>10. Cardinality(k + 1 .. Kept + 1) <= Cardinality(S) BY <1>8, <1>9, FS_Subset
<1>11. Cardinality(k + 1 .. Kept + 1) = IF k + 1 > Kept + 1 THEN 0 ELSE Kept + 1 - k
  <2>1. k + 1 \in Int /\ Kept + 1 \in Int BY <1>2, <1>4
  <2>2. (Kept + 1) - (k + 1) + 1 = Kept + 1 - k BY <1>2, <1>4
  <2> QED BY <2>1, <2>2, FS_Interval
<1>12. k + Cardinality(S) > MinKeep
  <2> HIDE DEF S
  <2> QED BY <1>2, <1>4, <1>8, <1>10, <1>11
<1>13. asked > trimmed BY <1>1 DEF TrimInv
<1> QED BY <1>4, <1>12, <1>13 DEF Spares

\* The trims do not eat the log, for any cap, width and minimum, whatever Blocky
\* writes and deletes and wherever a run is killed.
THEOREM TrimsDoNotCreep == LogSpec => NoCreep
<1>1. LogInit => TrimInv
  <2> SUFFICES ASSUME LogInit PROVE TrimInv
      OBVIOUS
  <2> QED BY DEF LogInit, TrimInv
<1>2. ASSUME LogOK, TrimInv, [LogNext]_logVars
      PROVE  [Trims => Spares /\ asked > trimmed]_logVars
  <2> SUFFICES ASSUME Trims, LogNext PROVE Spares /\ asked > trimmed
      BY <1>2
  <2>1. DeleteOld
    <3>1. capAt = "delete" /\ capAt' = "vacuum" BY DEF Trims
    <3> QED BY <3>1 DEF LogNext, CapStep, CapStarts, Gate, Count, EstimateLive, ReadCutoff, Vacuum,
                        Killed, CapEnds, WriteRow, Retention, Autovacuum, jobVars
  <2> QED BY <1>2, <2>1, TrimSpares DEF Trims
<1> DEFINE Keeps == Trims => Spares /\ asked > trimmed
<1>3. LogOK /\ TrimInv /\ [LogNext]_logVars => [Keeps]_logVars BY <1>2
<1>4. NoCreep <=> [][Keeps]_logVars BY DEF NoCreep
<1> HIDE DEF Keeps
<1> QED BY <1>1, <1>3, <1>4, LogStart, LogStep, TrimStep, PTL DEF LogSpec

---------------------------------------------------------------------------
(***************************************************************************)
(* The three together.                                                     *)
(***************************************************************************)

\* Each variable of the three services keeps its type, whichever of them runs.
THEOREM ServicesTypeCorrect ==
  ASSUME NoLine \in Files, Addresses # {}, Caps # {}, Widths # {}
  PROVE  MCSpec => []TypeOK
<1>1. MCInit => WhitelistOK
  <2>1. CASE service = "whitelist" BY <2>1, WhitelistStart DEF MCInit
  <2>2. CASE service # "whitelist"
    <3> SUFFICES ASSUME MCInit PROVE WorldOK /\ RunOK /\ UpOK
        BY DEF WhitelistOK
    <3>1. 0 \in 0..MaxChanges BY SpellingAssumption
    <3>2. WorldOK BY <2>2, <3>1 DEF MCInit, WorldOK
    <3>3. RunOK BY <2>2 DEF MCInit, RunOK
    <3> QED BY <2>2, <3>2, <3>3 DEF MCInit, UpOK
  <2> QED BY <2>1, <2>2
<1>2. MCInit => RouterTypeOK
  <2>1. CASE service = "router" BY <2>1, InitialRouter DEF MCInit
  <2>2. CASE service # "router"
    <3> SUFFICES ASSUME MCInit PROVE RouterTypeOK
        OBVIOUS
    <3>1. wan \in Addresses BY <2>2 DEF MCInit
    <3>2. /\ reachable = FALSE /\ routerSet = {} /\ saved = NoAddress /\ age = 0
          /\ unit = "failed" /\ queued = FALSE /\ wanAt = "-" /\ found = NoAddress
          /\ uptime = 0 /\ refreshed = TRUE /\ outage = 0 /\ emptied = FALSE /\ disturbances = 0
          BY <2>2 DEF MCInit
    <3>3. WanOK BY <3>1, <3>2 DEF WanOK
    <3>4. FileOK BY <3>2, RouterAssumption DEF FileOK
    <3>5. UnitOK BY <3>2 DEF UnitOK
    <3> QED BY <3>3, <3>4, <3>5, TypeParts
  <2> QED BY <2>1, <2>2
<1>3. MCInit => LogOK
  <2>1. CASE service = "log" BY <2>1, LogStart DEF MCInit
  <2>2. CASE service # "log"
    <3> SUFFICES ASSUME MCInit PROVE LogOK
        OBVIOUS
    <3>1. /\ cap \in Caps /\ width \in Widths /\ rows = <<>> /\ latest = 1 /\ written = 0
          /\ dead = 0 /\ fileRows = 0 /\ reltuples = -1 /\ capAt = "-" /\ estimate = 0
          /\ live = 0 /\ cutoff = None /\ kills = 0 /\ asked = 0 /\ trimmed = -1
          BY <2>2 DEF MCInit
    <3>2. LogInit BY <3>1 DEF LogInit
    <3> QED BY <3>2, LogStart
  <2> QED BY <2>1, <2>2
<1> DEFINE AllVars == <<service, whitelistVars, routerVars, logVars>>
           AllOK == WhitelistOK /\ RouterTypeOK /\ LogOK
<1>4. AllOK /\ [MCNext]_AllVars => AllOK'
  <2> SUFFICES ASSUME AllOK, [MCNext]_AllVars PROVE AllOK'
      OBVIOUS
  <2>1. [WhitelistNext]_whitelistVars /\ [RouterNext]_routerVars /\ [LogNext]_logVars
        BY DEF MCNext, MinecraftServer, Router, Log
  <2> QED BY <2>1, WhitelistTyped, RouterTyped, LogStep
<1>5. AllOK => TypeOK BY WhitelistParts, LogParts DEF TypeOK
<1>6. MCInit => AllOK BY <1>1, <1>2, <1>3
<1> HIDE DEF AllOK
<1> QED BY <1>4, <1>5, <1>6, PTL DEF MCSpec
=============================================================================
