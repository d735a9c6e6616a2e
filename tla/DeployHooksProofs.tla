------------------------- MODULE DeployHooksProofs --------------------------
(***************************************************************************)
(* Proofs about the deploy hooks and the reboot window, for any systems,   *)
(* any number of builds, boots, restarts and deploys by hand.              *)
(***************************************************************************)
EXTENDS DeployHooks, SequenceTheorems, TLAPS

\* What the steps change of comin's generations.
LEMMA Appended ==
  ASSUME NEW S, NEW s \in Seq(S), NEW x \in S
  PROVE  /\ Append(s, x) \in Seq(S)
         /\ DOMAIN Append(s, x) = DOMAIN s \cup {Len(s) + 1}
         /\ Len(Append(s, x)) = Len(s) + 1
         /\ \A i \in DOMAIN s : Append(s, x)[i] = s[i]
         /\ DOMAIN s = 1..Len(s) /\ Len(s) \in Nat
OBVIOUS

LEMMA InitialType == ASSUME DeployInit PROVE DeployTypeOK
<1>1. CominTypeOK
  BY DeployAssumption DEF DeployInit, CominTypeOK, NoBuild, NoDeploy
<1>2. RunningTypeOK /\ incidents \in 0..MaxIncidents
  BY DeployAssumption DEF DeployInit, RunningTypeOK
<1>4. late \in BOOLEAN /\ blind \in BOOLEAN
  BY Zenon DEF DeployInit
<1>5. WindowTypeOK
  BY DeployAssumption, <1>4 DEF DeployInit, WindowTypeOK
<1>3. ToldTypeOK
  BY DEF DeployInit, ToldTypeOK, Generations
<1> QED BY <1>1, <1>2, <1>3, <1>5 DEF DeployTypeOK

\* What a step leaves alone keeps its type.
LEMMA TypesKept ==
  /\ CominTypeOK /\ UNCHANGED cominVars => CominTypeOK'
  /\ WindowTypeOK /\ UNCHANGED windowVars => WindowTypeOK'
  /\ ToldTypeOK /\ UNCHANGED <<generations, toldVars>> => ToldTypeOK'
  /\ RunningTypeOK /\ UNCHANGED <<generations, runningVars>> => RunningTypeOK'
BY DEF CominTypeOK, cominVars, WindowTypeOK, windowVars, ToldTypeOK, toldVars, RunningTypeOK,
       runningVars, Generations

LEMMA TypeStep == ASSUME DeployTypeOK, [DeployNext]_deployVars PROVE DeployTypeOK'
<1> USE DeployAssumption DEF DeployTypeOK
<1>1. CASE BuildStarts
  <2>1. PICK system \in Systems : generations' = Append(generations, system)
    BY <1>1 DEF BuildStarts
  <2>2. /\ generations' \in Seq(Systems) /\ Generations' = Generations \cup {Len(generations) + 1}
        /\ Len(generations') = Len(generations) + 1
        /\ Generations = 1..Len(generations) /\ Len(generations) \in Nat
    BY <2>1, Appended DEF CominTypeOK, Generations
  <2>3. ended \in Seq(Nat) /\ Len(ended) = Len(generations)
    BY <2>2 DEF ToldTypeOK
  <2>4. ended' = Append(ended, 0) /\ DOMAIN ended = 1..Len(ended)
    BY <1>1, <2>3 DEF BuildStarts
  <2>5. ended' \in [Generations' -> Nat]
    <3>1. ended' \in Seq(Nat) /\ Len(ended') = Len(ended) + 1
      BY <2>3, <2>4
    <3> QED BY <2>2, <2>3, <3>1
  <2>6. builder' = [at |-> "build", gen |-> Len(generations')]
    BY <1>1, <2>2 DEF BuildStarts
  <2>7. CominTypeOK'
    BY <1>1, <2>2, <2>6 DEF BuildStarts, CominTypeOK
  <2>8. ToldTypeOK' /\ RunningTypeOK' /\ WindowTypeOK'
    BY <1>1, <2>2, <2>5 DEF BuildStarts, ToldTypeOK, RunningTypeOK, WindowTypeOK, runningVars, windowVars
  <2> QED BY <1>1, <2>7, <2>8 DEF BuildStarts
<1>2. CASE BuildEnds
  <2>1. CominTypeOK'
    BY <1>2 DEF BuildEnds, NoBuild, CominTypeOK, Generations
  <2> QED BY <1>2, <2>1, TypesKept DEF BuildEnds
<1>3. CASE BuildHook
  <2>1. CominTypeOK'
    BY <1>3 DEF BuildHook, NoBuild, CominTypeOK, Generations
  <2>2. ToldTypeOK'
    BY <1>3 DEF BuildHook, CominTypeOK, ToldTypeOK, Generations
  <2>3. RunningTypeOK'
    BY <1>3 DEF BuildHook, CominTypeOK, RunningTypeOK, Generations
  <2> QED BY <1>3, <2>1, <2>2, <2>3, TypesKept DEF BuildHook
<1>4. CASE BuildAnnounce
  <2>1. CominTypeOK'
    BY <1>4 DEF BuildAnnounce, NoBuild, CominTypeOK, Generations
  <2>2. ToldTypeOK'
    BY <1>4 DEF BuildAnnounce, CominTypeOK, ToldTypeOK, Generations
  <2> QED BY <1>4, <2>1, <2>2, TypesKept DEF BuildAnnounce
<1>5. CASE DeployStarts
  <2>1. CominTypeOK' /\ WindowTypeOK'
    BY <1>5 DEF DeployStarts, Deploy, CominTypeOK, WindowTypeOK, Generations
  <2> QED BY <1>5, <2>1, TypesKept DEF DeployStarts
<1>6. CASE DeploySkips
  <2>1. CominTypeOK'
    BY <1>6 DEF DeploySkips, CominTypeOK, Generations
  <2> QED BY <1>6, <2>1, TypesKept DEF DeploySkips
<1>7. CASE Install
  <2>1. CominTypeOK' /\ RunningTypeOK'
    BY <1>7 DEF Install, CominTypeOK, RunningTypeOK, Generations
  <2> QED BY <1>7, <2>1, TypesKept DEF Install
<1>8. CASE Activate
  <2>1. CominTypeOK'
    BY <1>8 DEF Activate, CominTypeOK, Generations
  <2>2. generations[deployer.gen] \in Systems
    BY <1>8 DEF Activate, CominTypeOK, Generations
  <2>3. RunningTypeOK'
    BY <1>8, <2>2 DEF Activate, Runs, RunningTypeOK, Generations
  <2> QED BY <1>8, <2>1, <2>3, TypesKept DEF Activate
<1>9. CASE DeployHook
  <2>1. deployer' = NoDeploy \/ deployer' = [deployer EXCEPT !.at = "post"]
    BY <1>9 DEF DeployHook
  <2>3. deployer.at # "idle"
    BY <1>9 DEF DeployHook
  <2>4. deployer' \in [at : {"idle", "install", "activate", "hook", "post"}, gen : Nat, done : BOOLEAN]
        /\ (deployer'.at # "idle" => deployer'.gen = deployer.gen)
    <3>1. CASE deployer' = NoDeploy
      BY <3>1 DEF NoDeploy
    <3>2. CASE deployer' = [deployer EXCEPT !.at = "post"]
      BY <3>2 DEF CominTypeOK
    <3> QED BY <2>1, <3>1, <3>2
  <2>5. CominTypeOK'
    BY <1>9, <2>3, <2>4 DEF DeployHook, CominTypeOK, Generations
  <2>2. ToldTypeOK'
    BY <1>9 DEF DeployHook, CominTypeOK, ToldTypeOK, Generations
  <2> QED BY <1>9, <2>2, <2>5, TypesKept DEF DeployHook
<1>10. CASE DeployPost
  <2>1. CominTypeOK'
    BY <1>10 DEF DeployPost, NoDeploy, CominTypeOK, Generations
  <2>2. ToldTypeOK'
    BY <1>10 DEF DeployPost, CominTypeOK, ToldTypeOK, Generations
  <2> QED BY <1>10, <2>1, <2>2, TypesKept DEF DeployPost
<1>11. CASE WindowStarts \/ WindowAsks \/ WindowWarns
  <2>1. late' = late /\ (blind' = blind \/ blind' = FALSE \/ \E answer : blind' = (answer = "none"))
    BY <1>11, Zenon DEF WindowStarts, WindowAsks, WindowWarns
  <2>2. late' \in BOOLEAN /\ blind' \in BOOLEAN
    BY <2>1, Zenon DEF WindowTypeOK
  <2>3. \/ window' = window /\ asked' = asked
        \/ window' = "ask" /\ asked' = 0
        \/ window' = "ask" /\ asked + 1 < Tries /\ asked' = asked + 1
        \/ window' \in {"warn", "reboot"} /\ asked' = asked
        \/ window' = "warn" /\ asked' = Tries
    <3>1. CASE WindowStarts
      BY <3>1, Zenon DEF WindowStarts
    <3>2. CASE WindowAsks
      <4>1. PICK answer \in {"busy", "idle", "none"} :
              IF answer = "busy"
              THEN /\ asked' = asked + 1
                   /\ window' = IF asked + 1 = Tries THEN "warn" ELSE "ask"
              ELSE window' = "warn" /\ asked' = asked
        BY <3>2, Zenon DEF WindowAsks
      <4>2. asked \in Nat /\ asked < Tries
        BY <3>2 DEF WindowAsks, WindowTypeOK
      <4> QED BY <4>1, <4>2
    <3>3. CASE WindowWarns
      BY <3>3 DEF WindowWarns
    <3> QED BY <1>11, <3>1, <3>2, <3>3
  <2>4. WindowTypeOK'
    BY <2>2, <2>3 DEF WindowTypeOK
  <2> QED BY <1>11, <2>4, TypesKept DEF WindowStarts, WindowAsks, WindowWarns, cominVars
<1>12. ASSUME NEW system \in Systems, Boots(system)
       PROVE  CominTypeOK' /\ WindowTypeOK' /\ ToldTypeOK' /\ RunningTypeOK'
  <2>1. CominTypeOK'
    BY <1>12 DEF Boots, NoBuild, NoDeploy, CominTypeOK, Generations
  <2>2. late' \in BOOLEAN /\ blind' \in BOOLEAN
    BY <1>12, Zenon DEF Boots
  <2>4. window' = "off" /\ asked' = 0
    BY <1>12, Zenon DEF Boots
  <2>5. WindowTypeOK'
    BY <2>2, <2>4 DEF WindowTypeOK
  <2>6. RunningTypeOK'
    BY <1>12 DEF Boots, RunningTypeOK, Generations
  <2>3. ToldTypeOK'
    BY <1>12 DEF Boots, ToldTypeOK, Generations
  <2> QED BY <2>1, <2>3, <2>5, <2>6
<1>13. CASE WindowReboots \/ Reboot
  BY <1>12, <1>13 DEF WindowReboots, Reboot, Incident, RunningTypeOK
<1>14. CASE CominRestarts
  <2>1. CominTypeOK'
    BY <1>14 DEF CominRestarts, NoBuild, NoDeploy, CominTypeOK, Generations
  <2>2. ToldTypeOK'
    BY <1>14 DEF CominRestarts, CominTypeOK, ToldTypeOK, Generations
  <2> QED BY <1>14, <2>1, <2>2, TypesKept DEF CominRestarts, Incident
<1>15. CASE Resubmit
  <2>1. CominTypeOK' /\ WindowTypeOK' /\ RunningTypeOK'
    BY <1>15 DEF Resubmit, Deploy, CominTypeOK, WindowTypeOK, RunningTypeOK, Generations
  <2> QED BY <1>15, <2>1, TypesKept DEF Resubmit, Incident
<1>16. CASE ByHand
  <2>1. RunningTypeOK'
    BY <1>16 DEF ByHand, Runs, RunningTypeOK, Generations, cominVars
  <2> QED BY <1>16, <2>1, TypesKept DEF ByHand, Incident, cominVars
<1>17. CASE UNCHANGED deployVars
  BY <1>17, TypesKept DEF deployVars, cominVars
<1> QED
  BY <1>1, <1>2, <1>3, <1>4, <1>5, <1>6, <1>7, <1>8, <1>9, <1>10, <1>11, <1>13, <1>14,
     <1>15, <1>16, <1>17 DEF DeployNext

\* Every variable keeps its type, whatever comin, the window and the operators do.
THEOREM DeployTypeCorrect == DeploySpec => []DeployTypeOK
BY InitialType, TypeStep, PTL DEF DeploySpec

---------------------------------------------------------------------------
\* The two hooks agree through the markers.

\* A generation that is still being built.
Fresh(g) ==
  g \notin over /\ ended[g] = 0 /\ g \notin begun /\ g \notin queued /\ g # latest
  /\ (deployer.at # "idle" => deployer.gen # g)

\* It is to be deployed, is being deployed, or may be again.
Deploying(g) == g \in queued \/ g = latest \/ (deployer.at # "idle" /\ deployer.gen = g)

FreshInv ==
  builder.at # "idle" => Fresh(builder.gen) /\ (builder.gen \in markers <=> builder.at = "announce")

MarkersInv ==
  \A g \in markers : ended[g] = 0 /\ g \notin over /\ (Deploying(g) => g \in begun)

BegunInv ==
  \A g \in begun : \/ g \in markers \/ ended[g] = 1 \/ g \in cut
                   \/ deployer.at = "post" /\ deployer.gen = g

PostInv ==
  deployer.at = "post" => /\ deployer.gen \in begun /\ deployer.gen \notin markers
                          /\ deployer.gen \notin over /\ ended[deployer.gen] = 0

HookInv == DeployTypeOK /\ OutcomesPaired /\ FreshInv /\ MarkersInv /\ BegunInv /\ PostInv

LEMMA InitialHooks == ASSUME DeployInit PROVE HookInv
<1>1. DeployTypeOK
  BY InitialType
<1> QED
  BY <1>1 DEF DeployInit, HookInv, FreshInv, MarkersInv, BegunInv, PostInv, OutcomesPaired,
              NoBuild, NoDeploy, Generations

LEMMA HookStep == ASSUME HookInv, [DeployNext]_deployVars PROVE HookInv'
<1>1. DeployTypeOK /\ DeployTypeOK'
  BY TypeStep DEF HookInv
<1>2. /\ CominTypeOK /\ ToldTypeOK /\ Generations = 1..Len(generations) /\ Len(generations) \in Nat
      /\ \A g \in Generations : ended[g] \in Nat
  BY <1>1 DEF DeployTypeOK, CominTypeOK, ToldTypeOK, Generations
<1> USE <1>2 DEF FreshInv, MarkersInv, BegunInv, PostInv, OutcomesPaired, Fresh, Deploying
<1>3. /\ OutcomesPaired /\ FreshInv /\ MarkersInv /\ BegunInv /\ PostInv
  BY DEF HookInv
<1> SUFFICES OutcomesPaired' /\ FreshInv' /\ MarkersInv' /\ BegunInv' /\ PostInv'
  BY <1>1 DEF HookInv
<1>4. CASE BuildStarts
  <2>1. PICK system \in Systems : generations' = Append(generations, system)
    BY <1>4 DEF BuildStarts
  <2>2. Generations' = Generations \cup {Len(generations) + 1}
    BY <2>1, Appended DEF CominTypeOK, Generations
  <2>3. ended \in Seq(Nat) /\ Len(ended) = Len(generations)
    BY DEF ToldTypeOK
  <2>4. /\ \A g \in Generations : ended'[g] = ended[g]
        /\ ended'[Len(generations) + 1] = 0
    BY <1>4, <2>3 DEF BuildStarts
  <2>5. builder' = [at |-> "build", gen |-> Len(generations) + 1]
    BY <1>4 DEF BuildStarts
  <2>6. /\ Len(generations) + 1 \notin Generations
        /\ Len(generations) + 1 \notin over \cup begun \cup queued \cup markers \cup {latest}
        /\ deployer.at # "idle" => deployer.gen # Len(generations) + 1 /\ deployer.gen \in Generations
    BY DEF CominTypeOK, ToldTypeOK
  <2>7. UNCHANGED <<queued, deployer, latest, markers, begun, over, cut>>
    BY <1>4 DEF BuildStarts
  <2>8. \A g \in begun \cup over \cup markers : g \in Generations
    BY DEF ToldTypeOK
  <2>9. OutcomesPaired'
    BY <1>3, <2>2, <2>4, <2>6, <2>7, <2>8
  <2>10. FreshInv'
    BY <2>4, <2>5, <2>6, <2>7
  <2>11. MarkersInv' /\ BegunInv' /\ PostInv'
    BY <1>3, <2>4, <2>6, <2>7, <2>8
  <2> QED BY <2>9, <2>10, <2>11
<1>5. CASE BuildEnds
  <2>1. UNCHANGED <<generations, queued, deployer, latest, markers, begun, ended, over, cut>>
    BY <1>5 DEF BuildEnds, toldVars
  <2>2. builder' = NoBuild \/ builder' = [at |-> "hook", gen |-> builder.gen]
    BY <1>5 DEF BuildEnds, CominTypeOK
  <2>3. FreshInv'
    BY <1>3, <1>5, <2>1, <2>2 DEF BuildEnds, NoBuild
  <2> QED BY <1>3, <2>1, <2>3 DEF Generations
<1>6. CASE BuildHook
  <2>1. UNCHANGED <<generations, deployer, latest, begun, ended, over, cut>>
    BY <1>6 DEF BuildHook
  <2>2. builder.at = "hook" /\ Fresh(builder.gen) /\ builder.gen \notin markers
    BY <1>3, <1>6 DEF BuildHook
  <2>3. CASE ~ IsNew
    <3>1. builder'.at = "idle" /\ queued' = {builder.gen} /\ markers' = markers
      BY <1>6, <2>3 DEF BuildHook, NoBuild
    <3> QED BY <1>3, <2>1, <2>2, <3>1 DEF Generations
  <2>4. CASE IsNew
    <3>1. /\ builder' = [at |-> "announce", gen |-> builder.gen]
          /\ markers' = markers \cup {builder.gen} /\ queued' = queued
      BY <1>6, <2>4 DEF BuildHook, CominTypeOK
    <3> QED BY <1>3, <2>1, <2>2, <3>1 DEF Generations
  <2> QED BY <2>3, <2>4
<1>7. CASE BuildAnnounce
  <2>1. /\ builder.at = "announce" /\ builder'.at = "idle"
        /\ begun' = begun \cup {builder.gen} /\ queued' = {builder.gen}
        /\ UNCHANGED <<generations, deployer, latest, markers, ended, over, cut>>
    BY <1>7 DEF BuildAnnounce, NoBuild
  <2>2. Fresh(builder.gen) /\ builder.gen \in markers
    BY <1>3, <2>1
  <2> QED BY <1>3, <2>1, <2>2 DEF Generations
<1>8. CASE DeployStarts
  <2>1. PICK g \in queued : deployer' = [at |-> "install", gen |-> g, done |-> FALSE]
    BY <1>8 DEF DeployStarts, Deploy
  <2>2. /\ deployer.at = "idle" /\ queued' = {}
        /\ UNCHANGED <<generations, builder, latest, markers, begun, ended, over, cut>>
    BY <1>8 DEF DeployStarts, toldVars
  <2>3. deployer'.at = "install" /\ deployer'.gen = g
    BY <2>1
  <2>4. FreshInv'
    BY <1>3, <2>1, <2>2, <2>3
  <2>7. \A h : Deploying(h)' => Deploying(h)
    BY <2>1, <2>2, <2>3
  <2>5. MarkersInv'
    BY <1>3, <2>2, <2>7
  <2>6. OutcomesPaired' /\ BegunInv' /\ PostInv'
    BY <1>3, <2>2, <2>3 DEF Generations
  <2> QED BY <2>4, <2>5, <2>6
<1>9. CASE DeploySkips
  BY <1>3, <1>9 DEF DeploySkips, toldVars, Generations
<1>10. CASE Install \/ Activate
  <2>1. /\ deployer.at \in {"install", "activate"} /\ deployer'.at \in {"activate", "hook"}
        /\ deployer'.gen = deployer.gen /\ latest' \in {latest, deployer.gen}
        /\ UNCHANGED <<generations, builder, queued, markers, begun, ended, over, cut>>
    BY <1>10 DEF Install, Activate, toldVars, CominTypeOK
  <2> QED BY <1>3, <2>1 DEF Generations
<1>11. CASE DeployHook
  <2>1. /\ deployer.at = "hook" /\ deployer.gen \in Generations
        /\ UNCHANGED <<generations, builder, queued, latest, begun, ended, cut>>
    BY <1>11 DEF DeployHook, CominTypeOK
  <2>2. CASE deployer.gen \in markers
    <3>1. /\ markers' = markers \ {deployer.gen} /\ over' = over
          /\ deployer'.at = "post" /\ deployer'.gen = deployer.gen
      BY <1>11, <2>2 DEF DeployHook, CominTypeOK
    <3> QED BY <1>3, <2>1, <2>2, <3>1 DEF Generations
  <2>3. CASE deployer.gen \notin markers
    <3>1. over' = over \cup {deployer.gen} /\ deployer'.at = "idle" /\ markers' = markers
      BY <1>11, <2>3 DEF DeployHook, NoDeploy
    <3>2. deployer.gen \in begun \ cut => ended[deployer.gen] = 1
      BY <1>3, <2>1, <2>3
    <3>3. OutcomesPaired'
      BY <1>3, <2>1, <3>1, <3>2 DEF Generations
    <3>4. FreshInv'
      BY <1>3, <2>1, <3>1
    <3>7. \A h : Deploying(h)' => Deploying(h)
      BY <2>1, <3>1
    <3>5. MarkersInv'
      BY <1>3, <2>1, <2>3, <3>1, <3>7
    <3>6. BegunInv' /\ PostInv'
      BY <1>3, <2>1, <3>1
    <3> QED BY <3>3, <3>4, <3>5, <3>6
  <2> QED BY <2>2, <2>3
<1>12. CASE DeployPost
  <2>1. /\ deployer.at = "post" /\ deployer.gen \in Generations
        /\ over' = over \cup {deployer.gen} /\ deployer'.at = "idle"
        /\ UNCHANGED <<generations, builder, queued, latest, markers, begun, cut>>
    BY <1>12 DEF DeployPost, NoDeploy, CominTypeOK
  <2>2. /\ \A g \in Generations \ {deployer.gen} : ended'[g] = ended[g]
        /\ ended'[deployer.gen] = 1
    BY <1>3, <1>12, <2>1 DEF DeployPost, ToldTypeOK
  <2>3. markers \subseteq Generations /\ begun \subseteq Generations /\ over \subseteq Generations
    BY DEF ToldTypeOK
  <2>4. builder.at # "idle" => builder.gen \in Generations /\ builder.gen # deployer.gen
    BY <1>3, <2>1 DEF CominTypeOK
  <2>9. deployer.gen \in begun /\ deployer.gen \notin markers
    BY <1>3, <2>1
  <2>10. \A h : Deploying(h)' => Deploying(h)
    BY <2>1
  <2>5. OutcomesPaired'
    <3>1. \A g \in Generations : ended'[g] <= 1 /\ (ended'[g] = 1 => g \in begun)
      BY <1>3, <2>2, <2>9
    <3>2. \A g \in (over \cap begun) \ cut : ended'[g] = 1
      BY <1>3, <2>2, <2>3
    <3> QED BY <2>1, <2>2, <3>1, <3>2 DEF Generations
  <2>6. FreshInv'
    BY <1>3, <2>1, <2>2, <2>4
  <2>7. MarkersInv'
    BY <1>3, <2>1, <2>2, <2>3, <2>9, <2>10
  <2>8. BegunInv' /\ PostInv'
    BY <1>3, <2>1, <2>2, <2>3
  <2> QED BY <2>5, <2>6, <2>7, <2>8
<1>13. CASE WindowStarts \/ WindowAsks \/ WindowWarns \/ ByHand \/ UNCHANGED deployVars
  <2>1. UNCHANGED <<cominVars, toldVars>>
    BY <1>13, Zenon DEF WindowStarts, WindowAsks, WindowWarns, ByHand, deployVars
  <2> QED BY <1>3, <2>1 DEF cominVars, toldVars, Generations
<1>14. CASE WindowReboots \/ Reboot
  <2>1. /\ builder'.at = "idle" /\ deployer'.at = "idle"
        /\ markers' = {} /\ begun' = {} /\ over' = {}
        /\ generations' = generations /\ ended' = [g \in Generations |-> 0]
    BY <1>14 DEF WindowReboots, Reboot, Boots, NoBuild, NoDeploy
  <2> QED BY <2>1 DEF Generations
<1>15. CASE CominRestarts
  <2>1. /\ builder'.at = "idle" /\ deployer'.at = "idle" /\ queued' = {} /\ latest' = latest
        /\ cut' = cut \cup (IF deployer.at = "post" THEN {deployer.gen} ELSE {})
        /\ UNCHANGED <<generations, markers, begun, ended, over>>
    BY <1>15 DEF CominRestarts, NoBuild, NoDeploy
  <2>2. cut \subseteq cut' /\ (deployer.at = "post" => deployer.gen \in cut')
    BY <2>1
  <2>3. OutcomesPaired'
    BY <1>3, <2>1, <2>2 DEF Generations
  <2>6. \A h : Deploying(h)' => Deploying(h)
    BY <2>1
  <2>4. MarkersInv' /\ FreshInv' /\ PostInv'
    BY <1>3, <2>1, <2>6
  <2>5. BegunInv'
    BY <1>3, <2>1, <2>2
  <2> QED BY <2>3, <2>4, <2>5
<1>16. CASE Resubmit
  <2>1. /\ deployer.at = "idle" /\ deployer' = [at |-> "install", gen |-> latest, done |-> FALSE]
        /\ UNCHANGED <<generations, builder, queued, latest, markers, begun, ended, over, cut>>
    BY <1>16 DEF Resubmit, Deploy, toldVars
  <2>2. deployer'.at = "install" /\ deployer'.gen = latest
    BY <2>1
  <2>3. FreshInv'
    BY <1>3, <2>1, <2>2
  <2>6. \A h : Deploying(h)' => Deploying(h)
    BY <2>1, <2>2
  <2>4. MarkersInv'
    BY <1>3, <2>1, <2>6
  <2>5. OutcomesPaired' /\ BegunInv' /\ PostInv'
    BY <1>3, <2>1, <2>2 DEF Generations
  <2> QED BY <2>3, <2>4, <2>5
<1> QED
  BY <1>4, <1>5, <1>6, <1>7, <1>8, <1>9, <1>10, <1>11, <1>12, <1>13, <1>14, <1>15, <1>16
     DEF DeployNext

\* Whatever is built and deployed meanwhile, in whatever order, with reboots and
\* restarts of comin at any time: no outcome without its announcement, none twice,
\* and none left out when the deploy hook has run to its end.
THEOREM OutcomesArePaired == DeploySpec => []OutcomesPaired
<1>1. HookInv => OutcomesPaired
  BY DEF HookInv
<1> QED BY <1>1, InitialHooks, HookStep, PTL DEF DeploySpec

---------------------------------------------------------------------------
\* The reboot window.

LEMMA WaitsStep ==
  ASSUME DeployTypeOK, RebootWaits, [DeployNext]_deployVars PROVE RebootWaits'
<1> USE DEF RebootWaits, Switching
<1>1. CASE BuildStarts \/ BuildEnds \/ BuildHook \/ BuildAnnounce \/ DeploySkips \/ ByHand
  <2>1. UNCHANGED <<windowVars, deployer>>
    BY <1>1, Zenon DEF BuildStarts, BuildEnds, BuildHook, BuildAnnounce, DeploySkips, ByHand, cominVars
  <2> QED BY <2>1 DEF windowVars
<1>2. CASE DeployStarts \/ Resubmit
  <2>1. /\ UNCHANGED <<window, asked, blind>>
        /\ late' = (window \in {"warn", "reboot"})
    BY <1>2, Zenon DEF DeployStarts, Resubmit, Deploy
  <2> QED BY <2>1
<1>3. CASE Install \/ Activate \/ DeployHook \/ DeployPost
  <2>1. UNCHANGED windowVars
    BY <1>3, Zenon DEF Install, Activate, DeployHook, DeployPost
  <2>2. deployer'.at \in {"install", "activate"} => Switching
    <3>1. CASE Install \/ Activate
      BY <3>1 DEF Install, Activate
    <3>2. CASE DeployHook
      <4>1. deployer' = NoDeploy \/ deployer' = [deployer EXCEPT !.at = "post"]
        BY <3>2 DEF DeployHook
      <4>2. [deployer EXCEPT !.at = "post"].at = "post" /\ NoDeploy.at = "idle"
        BY DEF DeployTypeOK, CominTypeOK, NoDeploy
      <4> QED BY <4>1, <4>2
    <3>3. CASE DeployPost
      BY <3>3 DEF DeployPost, NoDeploy
    <3> QED BY <1>3, <3>1, <3>2, <3>3
  <2> QED BY <2>1, <2>2 DEF windowVars
<1>4. CASE WindowStarts
  BY <1>4 DEF WindowStarts, cominVars
<1>5. CASE WindowAsks
  <2>1. PICK answer \in {"busy", "idle", "none"} :
          /\ Busy(answer)
          /\ IF answer = "busy"
             THEN /\ asked' = asked + 1
                  /\ window' = IF asked + 1 = Tries THEN "warn" ELSE "ask"
             ELSE window' = "warn" /\ blind' = (answer = "none")
    BY <1>5, Zenon DEF WindowAsks
  <2>2. deployer' = deployer
    BY <1>5, Zenon DEF WindowAsks, cominVars
  <2>3. CASE answer = "busy"
    BY <2>1, <2>3
  <2>4. CASE answer = "idle"
    BY <2>1, <2>2, <2>4 DEF Busy
  <2>5. CASE answer = "none"
    BY <2>1, <2>5
  <2> QED BY <2>3, <2>4, <2>5
<1>6. CASE WindowWarns
  BY <1>6 DEF WindowWarns, cominVars
<1>7. CASE WindowReboots \/ Reboot \/ CominRestarts
  <2>1. deployer'.at = "idle"
    BY <1>7 DEF WindowReboots, Reboot, Boots, CominRestarts, NoDeploy
  <2> QED BY <2>1
<1>8. CASE UNCHANGED deployVars
  BY <1>8 DEF deployVars, windowVars, cominVars
<1> QED
  BY <1>1, <1>2, <1>3, <1>4, <1>5, <1>6, <1>7, <1>8 DEF DeployNext

\* The window does not reboot in the middle of a switch, however deploys are
\* started, but for one that began after it had asked, one it has waited for as
\* long as it waits, and one comin said nothing of.
THEOREM RebootsWait == DeploySpec => []RebootWaits
<1>1. DeployInit => RebootWaits
  BY DEF DeployInit, RebootWaits
<1>2. DeployTypeOK /\ RebootWaits /\ [DeployNext]_deployVars => RebootWaits'
  BY WaitsStep
<1> QED BY <1>1, <1>2, DeployTypeCorrect, PTL DEF DeploySpec

---------------------------------------------------------------------------
\* What is deployed has been announced.

\* The hook reads the build it is about.
RootInv == builder.at = "hook" => gcroot = generations[builder.gen]

\* What is deployed, or may be, has been compared with what ran.
ComparedInv ==
  /\ queued \subseteq compared /\ latest \in compared \cup {0}
  /\ builder.at = "announce" => builder.gen \in compared
  /\ deployer.at # "idle" => deployer.gen \in compared

\* It was announced or has been overtaken, or what runs is what it builds to.
Told(g) == g \in begun \/ g \in overtaken \/ generations[g] = current

ToldInv == (\A g \in queued : Told(g)) /\ (Switching => Told(deployer.gen))

AnnouncedInv == DeployTypeOK /\ RootInv /\ ComparedInv /\ ToldInv

LEMMA AnnouncedStep == ASSUME AnnouncedInv, [DeployNext]_deployVars PROVE AnnouncedInv'
<1>1. /\ DeployTypeOK /\ DeployTypeOK' /\ RootInv /\ ComparedInv /\ ToldInv
      /\ CominTypeOK /\ ToldTypeOK /\ RunningTypeOK
  BY TypeStep DEF AnnouncedInv, DeployTypeOK
<1> SUFFICES RootInv' /\ ComparedInv' /\ ToldInv'
  BY <1>1 DEF AnnouncedInv
<1> USE DEF RootInv, ComparedInv, ToldInv, Told, Switching
<1>2. CASE BuildStarts
  <2>1. /\ UNCHANGED <<queued, deployer, latest, begun, current, compared, overtaken>>
        /\ builder' = [at |-> "build", gen |-> Len(generations) + 1]
    BY <1>2 DEF BuildStarts, runningVars
  <2>2. \A g \in Generations : generations'[g] = generations[g]
    BY <1>1, <1>2, Appended DEF BuildStarts, CominTypeOK, Generations
  <2>3. queued \subseteq Generations /\ (deployer.at # "idle" => deployer.gen \in Generations)
    BY <1>1 DEF CominTypeOK
  <2>4. RootInv' /\ ComparedInv'
    BY <1>1, <2>1
  <2>5. ToldInv'
    BY <1>1, <2>1, <2>2, <2>3
  <2> QED BY <2>4, <2>5
<1>3. CASE BuildEnds
  <2>1. UNCHANGED <<generations, queued, deployer, latest, begun, current, compared, overtaken>>
    BY <1>3 DEF BuildEnds, toldVars, runningVars
  <2>2. \/ builder' = [at |-> "hook", gen |-> builder.gen] /\ gcroot' = generations[builder.gen]
        \/ builder' = NoBuild
    BY <1>1, <1>3 DEF BuildEnds, CominTypeOK
  <2> QED BY <1>1, <2>1, <2>2 DEF NoBuild
<1>4. CASE BuildHook
  <2>1. /\ UNCHANGED <<generations, gcroot, deployer, latest, begun, current, overtaken>>
        /\ builder.at = "hook" /\ compared' = compared \cup {builder.gen}
    BY <1>4 DEF BuildHook
  <2>2. \/ builder'.at = "idle" /\ queued' = {builder.gen} /\ gcroot = current
        \/ builder' = [at |-> "announce", gen |-> builder.gen] /\ queued' = queued
    BY <1>1, <1>4 DEF BuildHook, IsNew, NoBuild, CominTypeOK
  <2> QED BY <1>1, <2>1, <2>2
<1>5. CASE BuildAnnounce
  <2>1. /\ UNCHANGED <<generations, deployer, latest, current, compared, overtaken>>
        /\ builder.at = "announce" /\ builder'.at = "idle"
        /\ begun' = begun \cup {builder.gen} /\ queued' = {builder.gen}
    BY <1>5 DEF BuildAnnounce, NoBuild, runningVars
  <2> QED BY <1>1, <2>1
<1>6. CASE DeployStarts
  <2>1. PICK g \in queued : deployer' = [at |-> "install", gen |-> g, done |-> FALSE]
    BY <1>6 DEF DeployStarts, Deploy
  <2>2. /\ UNCHANGED <<generations, gcroot, builder, latest, begun, current, compared, overtaken>>
        /\ queued' = {}
    BY <1>6 DEF DeployStarts, toldVars, runningVars
  <2> QED BY <1>1, <2>1, <2>2
<1>7. CASE DeploySkips \/ Install \/ DeployHook \/ DeployPost \/ CominRestarts
  <2>1. /\ UNCHANGED <<generations, gcroot, begun, current, compared, overtaken>>
        /\ builder' \in {builder, NoBuild} /\ queued' \in {queued, {}}
    BY <1>7 DEF DeploySkips, Install, DeployHook, DeployPost, CominRestarts, toldVars, runningVars
  <2>2. /\ latest' = latest \/ (deployer.at = "install" /\ latest' = deployer.gen)
        /\ \/ deployer'.at = "idle"
           \/ /\ deployer.at # "idle" /\ deployer'.gen = deployer.gen
              /\ deployer'.at \in {"install", "activate"} => Switching
           \/ deployer' = deployer
    <3>1. CASE DeploySkips \/ CominRestarts \/ DeployPost
      BY <3>1 DEF DeploySkips, CominRestarts, DeployPost, NoDeploy
    <3>2. CASE Install
      BY <1>1, <3>2 DEF Install, CominTypeOK
    <3>3. CASE DeployHook
      <4>1. /\ deployer.at = "hook" /\ latest' = latest
            /\ deployer' = NoDeploy \/ deployer' = [deployer EXCEPT !.at = "post"]
        BY <3>3 DEF DeployHook
      <4> QED BY <1>1, <4>1 DEF NoDeploy, CominTypeOK
    <3> QED BY <1>7, <3>1, <3>2, <3>3
  <2>3. RootInv'
    BY <1>1, <2>1 DEF NoBuild
  <2>4. ComparedInv'
    BY <1>1, <2>1, <2>2 DEF NoBuild
  <2>5. ToldInv'
    BY <1>1, <2>1, <2>2
  <2> QED BY <2>3, <2>4, <2>5
<1>8. CASE Activate
  <2>1. /\ UNCHANGED <<generations, gcroot, builder, queued, latest, begun, compared>>
        /\ deployer.at = "activate" /\ deployer'.at = "hook" /\ deployer'.gen = deployer.gen
    BY <1>1, <1>8 DEF Activate, toldVars, CominTypeOK
  <2>2. /\ current' = generations[deployer.gen]
        /\ current' # current => overtaken' = overtaken \cup (compared \ {deployer.gen})
        /\ current' = current => overtaken' = overtaken
    BY <1>8 DEF Activate, Runs
  <2>3. \A g \in queued : Told(g)'
    BY <1>1, <2>1, <2>2
  <2> QED BY <1>1, <2>1, <2>3
<1>9. CASE WindowStarts \/ WindowAsks \/ WindowWarns \/ UNCHANGED deployVars
  <2>1. UNCHANGED <<cominVars, toldVars, runningVars>>
    BY <1>9, Zenon DEF WindowStarts, WindowAsks, WindowWarns, deployVars
  <2> QED BY <1>1, <2>1 DEF cominVars, toldVars, runningVars
<1>10. CASE WindowReboots \/ Reboot
  <2>1. /\ builder'.at = "idle" /\ queued' = {} /\ deployer'.at = "idle"
        /\ latest' = latest /\ compared' = Generations
    BY <1>10 DEF WindowReboots, Reboot, Boots, NoBuild, NoDeploy
  <2> QED BY <1>1, <2>1 DEF CominTypeOK
<1>11. CASE Resubmit
  <2>1. /\ UNCHANGED <<generations, gcroot, builder, queued, latest, begun, current, compared>>
        /\ latest # 0 /\ overtaken' = overtaken \cup {latest}
        /\ deployer' = [at |-> "install", gen |-> latest, done |-> FALSE]
    BY <1>11 DEF Resubmit, Deploy, toldVars
  <2> QED BY <1>1, <2>1
<1>12. CASE ByHand
  <2>1. UNCHANGED <<generations, gcroot, builder, queued, deployer, latest, begun, compared>>
    BY <1>12 DEF ByHand, cominVars, toldVars
  <2>2. \/ current' = current /\ overtaken' = overtaken
        \/ overtaken' = overtaken \cup compared
    BY <1>12 DEF ByHand, Runs
  <2> QED BY <1>1, <2>1, <2>2
<1> QED
  BY <1>2, <1>3, <1>4, <1>5, <1>6, <1>7, <1>8, <1>9, <1>10, <1>11, <1>12 DEF DeployNext

\* No deploy of comin's changes what runs unannounced, but for what was compared
\* with a system that no longer runs, and for what is deployed again.
THEOREM UpdatesAreAnnounced == DeploySpec => UpdatesAnnounced
<1>1. DeployInit => AnnouncedInv
  <2> SUFFICES ASSUME DeployInit PROVE AnnouncedInv
    OBVIOUS
  <2>1. builder.at = "idle" /\ deployer.at = "idle" /\ queued = {} /\ latest = 0
    BY DEF DeployInit, NoBuild, NoDeploy
  <2>2. RootInv /\ ComparedInv /\ ToldInv
    BY <2>1 DEF RootInv, ComparedInv, ToldInv, Switching
  <2> QED BY <2>2, InitialType DEF AnnouncedInv
<1>2. AnnouncedInv /\ [DeployNext]_deployVars
        => (deployer.at = "activate" /\ deployer'.at = "hook" /\ current' # current
              => deployer.gen \in begun \cup overtaken)
  <2> SUFFICES ASSUME AnnouncedInv, [DeployNext]_deployVars,
                      deployer.at = "activate", deployer'.at = "hook", current' # current
               PROVE  deployer.gen \in begun \cup overtaken
    OBVIOUS
  <2>1. Told(deployer.gen)
    BY DEF AnnouncedInv, ToldInv, Switching
  <2>2. CASE current' = generations[deployer.gen]
    BY <2>1, <2>2 DEF Told
  <2>3. CASE Activate
    BY <2>2, <2>3 DEF Activate, Runs
  <2>4. CASE ByHand
    BY <2>4 DEF ByHand, cominVars
  <2>5. CASE WindowReboots \/ Reboot
    BY <2>5 DEF WindowReboots, Reboot, Boots, NoDeploy
  <2>6. CASE \/ BuildStarts \/ BuildEnds \/ BuildHook \/ BuildAnnounce \/ DeployStarts \/ DeploySkips
             \/ Install \/ DeployHook \/ DeployPost \/ WindowStarts \/ WindowAsks \/ WindowWarns
             \/ CominRestarts \/ Resubmit \/ UNCHANGED deployVars
    BY <2>6, Zenon DEF BuildStarts, BuildEnds, BuildHook, BuildAnnounce, DeployStarts, DeploySkips,
             Install, DeployHook, DeployPost, WindowStarts, WindowAsks, WindowWarns, CominRestarts,
             Resubmit, deployVars, runningVars
  <2> QED BY <2>3, <2>4, <2>5, <2>6 DEF DeployNext
<1>3. AnnouncedInv /\ [DeployNext]_deployVars => AnnouncedInv'
  BY AnnouncedStep
<1> QED BY <1>1, <1>2, <1>3, PTL DEF DeploySpec, UpdatesAnnounced
=============================================================================
