------------------------- MODULE TenantRunnerProofs ------------------------
(***************************************************************************)
(* Theorems about TenantRunner, for every set of commits, every limit and  *)
(* every choice of Events but where one is named.                          *)
(***************************************************************************)
EXTENDS TenantRunner, TLAPS

USE DEF github, varFiles, runFiles, deployVars, reportVars

(***************************************************************************)
(* Type correctness.  What reaches $state/notified is a commit and a stage *)
(* of the tenant's because the script writes its commit before the stage   *)
(* can be one of those, so the invariant says that too.                    *)
(***************************************************************************)
Fetched == Scripted \ {"fetch"}

CommitKnown ==
  /\ pc \in Fetched => head \in Commits /\ commit = head
  /\ stage \in TenantStages => commit \in Commits
  /\ hpc \in {"log", "post", "mark"} => key \in PostedKeys

TypeInv == TypeOK /\ CommitKnown

USE DEF TypeInv, TypeOK, DeployTypeOK, ReportTypeOK, CommitKnown, Fetched, CommitOrNone, Keys,
        PostedKeys, Stages, TenantStages, Waiting, Scripted, Recording, Outcomes

\* The initial states have the types.
LEMMA InitTypeInv == Init => TypeInv
<1> SUFFICES ASSUME Init PROVE TypeInv
    OBVIOUS
<1>1. ci \in [Commits -> {"unpushed", "success", "failure"} \cup Waiting]
      BY DEF Init, DeployInit
<1>2. DeployTypeOK BY <1>1, CommitAssumption DEF Init, DeployInit
<1>3. ReportTypeOK BY DEF Init, ReportInit
<1> QED BY <1>2, <1>3, StageAssumption DEF Init, DeployInit, ReportInit

\* The variables of TenantDeploy, which the report leaves alone.
DeployInv ==
  /\ DeployTypeOK
  /\ pc \in Fetched => head \in Commits /\ commit = head
  /\ stage \in TenantStages => commit \in Commits

\* A run that fails keeps its variables' types, whatever the step.
LEMMA RunFailsType == TypeInv /\ RunFails => DeployInv'
<1> SUFFICES ASSUME TypeInv, RunFails PROVE DeployInv'
    OBVIOUS
<1> USE DEF DeployInv, Fails, Ends, Fault, write_metrics
<1>1. CASE CredentialFails BY <1>1 DEF CredentialFails
<1>2. CASE PlatformFails BY <1>2 DEF PlatformFails
<1>3. since \in [commit : Commits, age : Nat] \/ head \notin Commits BY DEF since
<1>4. CASE AskGivesUp BY <1>3, <1>4 DEF AskGivesUp, AskPending
<1>5. CASE AskFailure BY <1>5 DEF AskFailure
<1>6. CASE ComposeFails BY <1>6 DEF ComposeFails, PartlyUp, Starts
<1>7. CASE Term BY <1>7 DEF Term, PartlyUp, Starts
<1> QED BY <1>1, <1>2, <1>4, <1>5, <1>6, <1>7 DEF RunFails

\* So does one that goes on, or ends well.
LEMMA RunGoesType == TypeInv /\ RunGoes => DeployInv'
<1> SUFFICES ASSUME TypeInv, RunGoes PROVE DeployInv'
    OBVIOUS
<1> USE DEF DeployInv, Finishes, Ends, write_metrics
<1>1. CASE ScriptStart BY <1>1 DEF ScriptStart
<1>2. CASE Fetch BY <1>2 DEF Fetch
<1>3. CASE AlreadyDeployed BY <1>3 DEF AlreadyDeployed
<1>4. CASE Deploying BY <1>4 DEF Deploying
<1>5. since \in [commit : Commits, age : Nat] \/ head \notin Commits BY DEF since
<1>6. CASE AskWaits BY <1>5, <1>6 DEF AskWaits, AskPending
<1>7. CASE AskSuccess BY <1>7 DEF AskSuccess
<1>8. CASE Decrypt BY <1>8 DEF Decrypt
<1>9. CASE Compose BY <1>9 DEF Compose, Starts
<1>10. CASE Record BY <1>10 DEF Record, current
<1>11. CASE Measure BY <1>11 DEF Measure
<1>12. CASE Close BY <1>12 DEF Close
<1> QED BY <1>1, <1>2, <1>3, <1>4, <1>6, <1>7, <1>8, <1>9, <1>10, <1>11, <1>12 DEF RunGoes

\* The report's steps keep the types, and a key is one that can be posted.
LEMMA ReportType == TypeInv /\ Report => TypeInv'
<1> SUFFICES ASSUME TypeInv, Report PROVE TypeInv'
    OBVIOUS
<1> USE DEF Report, ReportEnds, Arrives
<1>1. CASE ReportRead BY <1>1 DEF ReportRead
<1>2. CASE ReportLog BY <1>2 DEF ReportLog
<1>3. CASE ReportPost BY <1>3 DEF ReportPost
<1>4. CASE ReportPostFails
  <2>1. posted' \subseteq PostedKeys /\ repeated' \subseteq PostedKeys /\ misposted' \in BOOLEAN
        BY <1>4 DEF ReportPostFails
  <2>2. hpc' = "off" /\ key' \in Keys /\ cause' \in Outcomes /\ notified' = notified
        BY <1>4 DEF ReportPostFails
  <2> QED BY <2>1, <2>2
<1>5. CASE ReportMark BY <1>5 DEF ReportMark
<1> QED BY <1>1, <1>2, <1>3, <1>4, <1>5 DEF ReportStep

\* Every step keeps the invariant.
LEMMA NextTypeInv == TypeInv /\ [Next]_vars => TypeInv'
<1> SUFFICES ASSUME TypeInv, [Next]_vars PROVE TypeInv'
    OBVIOUS
<1>1. CASE Timer \/ Manual BY <1>1 DEF Timer, Manual, DeployStart
<1>2. CASE RunFails /\ ReportStart BY <1>2, RunFailsType DEF ReportStart, DeployInv
<1>3. CASE RunGoes /\ UNCHANGED reportVars BY <1>3, RunGoesType DEF DeployInv
<1>4. CASE Report BY <1>4, ReportType
<1>5. CASE Tick BY <1>5 DEF Tick
<1>6. CASE Reboot
  <2>1. stack' \in Commits \cup {Mixed, None} /\ unchecked' \subseteq Commits
        BY <1>6 DEF Reboot, PartlyUp, Starts
  <2>2. DeployTypeOK'
    <3>1. boot' \in Nat BY <1>6 DEF Reboot
    <3>2. pc' = "idle" /\ head' = None /\ outcome' = "none" /\ log' = None
          BY <1>6 DEF Reboot, Ends
    <3>3. stage' = None /\ commit' = None /\ webhook' = FALSE
          BY <1>6 DEF Reboot
    <3>4. UNCHANGED <<github, varFiles>> BY <1>6 DEF Reboot
    <3> QED BY <2>1, <3>1, <3>2, <3>3, <3>4
  <2>3. posted' \subseteq PostedKeys BY <1>6 DEF Reboot
  <2>4. ReportTypeOK' /\ hpc' = "off" BY <1>6, <2>3 DEF Reboot, ReportEnds
  <2>5. pc' = "idle" /\ stage' = None BY <1>6 DEF Reboot, Ends
  <2> QED BY <2>2, <2>4, <2>5, StageAssumption
<1>7. CASE Push BY <1>7 DEF Push
<1>8. CASE Reset BY <1>8 DEF Reset, Pushed
<1>9. CASE \E c \in Commits : CIStarts(c) \/ CIEnds(c) \/ CIRerun(c)
      BY <1>9 DEF CIStarts, CIEnds, CIRerun
<1>10. CASE UNCHANGED vars BY <1>10 DEF vars
<1> QED BY <1>1, <1>2, <1>3, <1>4, <1>5, <1>6, <1>7, <1>8, <1>9, <1>10 DEF Next, Run

\* Every variable always has its type, for all constants.
THEOREM TenantTypeCorrect == Spec => []TypeOK
<1>1. Spec => []TypeInv BY InitTypeInv, NextTypeInv, PTL DEF Spec
<1> QED BY <1>1, PTL DEF TypeInv

(***************************************************************************)
(* The production gate.  The runs of a commit may be started again after   *)
(* they passed, so the invariant speaks of commits that have passed, and   *)
(* the run's commit is one from its answer on.                             *)
(***************************************************************************)
GateInv ==
  /\ \A c \in Commits : ci[c] = "success" => c \in passed
  /\ pc \in {"decrypt", "compose"} => head \in passed
  /\ OnlyPassedRuns

\* No run, step of GitHub's or reboot gets a commit past the gate.
LEMMA NextGate == TypeInv /\ GateInv /\ [Next]_vars => GateInv'
<1> SUFFICES ASSUME TypeInv, GateInv, [Next]_vars PROVE GateInv'
    OBVIOUS
<1> USE DEF GateInv, OnlyPassedRuns
<1>1. CASE RunFails
  <2>1. UNCHANGED github /\ pc' = "idle"
        BY <1>1 DEF RunFails, CredentialFails, PlatformFails, AskGivesUp, AskPending, AskFailure,
                    ComposeFails, Term, Fails, Ends
  <2>2. unchecked' = {}
        BY <1>1 DEF RunFails, CredentialFails, PlatformFails, AskGivesUp, AskPending, AskFailure,
                    ComposeFails, Term, PartlyUp, Starts
  <2> QED BY <2>1, <2>2
<1>2. CASE RunGoes
  <2>1. CASE AskSuccess BY <2>1 DEF AskSuccess
  <2>2. CASE Decrypt BY <2>2 DEF Decrypt
  <2>3. CASE Compose BY <2>3 DEF Compose, Starts
  <2>4. CASE ScriptStart \/ Fetch \/ AlreadyDeployed \/ Deploying \/ AskWaits
        BY <2>4 DEF ScriptStart, Fetch, AlreadyDeployed, Deploying, AskWaits, AskPending,
                    Finishes, Ends
  <2>5. CASE Record \/ Measure \/ Close BY <2>5 DEF Record, Measure, Close, Ends
  <2> QED BY <1>2, <2>1, <2>2, <2>3, <2>4, <2>5 DEF RunGoes
<1>3. CASE Timer \/ Manual BY <1>3 DEF Timer, Manual, DeployStart
<1>4. CASE Report \/ Tick BY <1>4 DEF Report, Tick
<1>5. CASE Reboot BY <1>5 DEF Reboot, PartlyUp, Starts, Ends
<1>6. CASE Push BY <1>6 DEF Push
<1>7. CASE Reset BY <1>7 DEF Reset
<1>8. CASE \E c \in Commits : CIStarts(c) \/ CIEnds(c) \/ CIRerun(c)
      BY <1>8 DEF CIStarts, CIEnds, CIRerun
<1>9. CASE UNCHANGED vars BY <1>9 DEF vars
<1> QED BY <1>1, <1>2, <1>3, <1>4, <1>5, <1>6, <1>7, <1>8, <1>9 DEF Next, Run

\* No container is ever started from a commit whose CI has not passed: for all
\* constants, with every event allowed.
THEOREM ProductionGate == Spec => []OnlyPassedRuns
<1>1. Init => GateInv BY DEF Init, DeployInit, GateInv, OnlyPassedRuns
<1>2. Spec => [](TypeInv /\ GateInv)
      BY <1>1, InitTypeInv, NextTypeInv, NextGate, PTL DEF Spec
<1> QED BY <1>2, PTL DEF GateInv

(***************************************************************************)
(* What is posted to the tenant, when no TERM ends a run and none is       *)
(* started by hand while the last one's report is running (README,         *)
(* Findings).  The report then runs between two runs, so what it reads in  *)
(* /run and in the log is of the run it reports, or of one before it.      *)
(***************************************************************************)
PostInv ==
  /\ pc = "start" \/ outcome = "unstarted" => log = None
  /\ outcome = "platform" => stage \notin TenantStages
  /\ outcome = "running" <=> pc # "idle"
  /\ hpc # "off" => pc = "idle" /\ cause = outcome
                    /\ outcome \in {"tenant", "platform", "unstarted"}
  /\ hpc = "log" => key[1] \in Commits /\ key[2] = stage
  /\ hpc \in {"post", "mark"} => cause = "tenant"
  /\ OnlyTenantFailuresPosted

\* A run that fails leaves a stage of the tenant's, or of this run, or no log.
LEMMA RunFailsPost ==
  ASSUME TypeInv, PostInv, "term" \notin Events, RunFails, ReportStart
  PROVE  PostInv'
<1> USE DEF PostInv, OnlyTenantFailuresPosted, ReportStart, Ends, Fails, Fault
<1>1. CASE CredentialFails BY <1>1 DEF CredentialFails
<1>2. CASE PlatformFails
  <2> USE <1>2 DEF PlatformFails
  <2> QED OBVIOUS
<1>3. CASE AskGivesUp BY <1>3 DEF AskGivesUp, AskPending
<1>4. CASE AskFailure BY <1>4 DEF AskFailure
<1>5. CASE ComposeFails BY <1>5 DEF ComposeFails
<1> QED BY <1>1, <1>2, <1>3, <1>4, <1>5 DEF RunFails, Term

\* Without runs started by hand, every other step keeps it too.
LEMMA NextPost ==
  ASSUME TypeInv, PostInv, Events \cap {"term", "manual"} = {}, [Next]_vars
  PROVE  PostInv'
<1> USE DEF PostInv, OnlyTenantFailuresPosted
<1>1. CASE RunFails /\ ReportStart BY <1>1, RunFailsPost
<1>2. CASE RunGoes /\ UNCHANGED reportVars
  <2> USE DEF Finishes, Ends
  <2>1. CASE ScriptStart \/ Fetch \/ Deploying BY <1>2, <2>1 DEF ScriptStart, Fetch, Deploying
  <2>2. CASE AlreadyDeployed \/ AskWaits
        BY <1>2, <2>2 DEF AlreadyDeployed, AskWaits, AskPending
  <2>3. CASE AskSuccess \/ Decrypt \/ Compose
        BY <1>2, <2>3 DEF AskSuccess, Decrypt, Compose
  <2>4. CASE Record \/ Measure \/ Close BY <1>2, <2>4 DEF Record, Measure, Close
  <2> QED BY <1>2, <2>1, <2>2, <2>3, <2>4 DEF RunGoes
<1>3. CASE Timer BY <1>3 DEF Timer, DeployStart
<1>4. CASE Manual BY <1>4 DEF Manual
<1>5. CASE Report
  <2> USE DEF Report, ReportEnds, Arrives
  <2>1. CASE ReportRead BY <1>5, <2>1 DEF ReportRead
  <2>2. CASE ReportLog
    <3>1. CASE hpc' = "post"
      <4>1. log = key[1] /\ stage \in TenantStages BY <1>5, <2>2, <3>1 DEF ReportLog
      <4>2. outcome = "tenant" BY <2>2, <4>1, CommitAssumption DEF ReportLog
      <4> QED BY <1>5, <2>2, <3>1, <4>2 DEF ReportLog
    <3>2. CASE hpc' # "post" BY <1>5, <2>2, <3>2 DEF ReportLog
    <3> QED BY <3>1, <3>2
  <2>3. CASE ReportPost BY <1>5, <2>3 DEF ReportPost
  <2>4. CASE ReportPostFails BY <1>5, <2>4 DEF ReportPostFails
  <2>5. CASE ReportMark BY <1>5, <2>5 DEF ReportMark
  <2> QED BY <1>5, <2>1, <2>2, <2>3, <2>4, <2>5 DEF ReportStep
<1>6. CASE Tick BY <1>6 DEF Tick
<1>7. CASE Reboot BY <1>7 DEF Reboot, Ends, ReportEnds
<1>8. CASE Push \/ Reset BY <1>8 DEF Push, Reset
<1>9. CASE \E c \in Commits : CIStarts(c) \/ CIEnds(c) \/ CIRerun(c)
      BY <1>9 DEF CIStarts, CIEnds, CIRerun
<1>10. CASE UNCHANGED vars BY <1>10 DEF vars
<1> QED BY <1>1, <1>2, <1>3, <1>4, <1>5, <1>6, <1>7, <1>8, <1>9, <1>10 DEF Next, Run

\* Nothing but a failure of the tenant's is posted to them, unless a TERM ends
\* a run that is up, or a run is started by hand during a report.
THEOREM PostsAreTheTenants ==
  Events \cap {"term", "manual"} = {} => (Spec => []OnlyTenantFailuresPosted)
<1> SUFFICES ASSUME Events \cap {"term", "manual"} = {}
             PROVE  Spec => []OnlyTenantFailuresPosted
    OBVIOUS
<1>1. Init => PostInv
      BY DEF Init, DeployInit, ReportInit, PostInv, OnlyTenantFailuresPosted
<1>2. TypeInv /\ PostInv /\ [Next]_vars => PostInv' BY NextPost
<1>3. Spec => [](TypeInv /\ PostInv)
      BY <1>1, <1>2, InitTypeInv, NextTypeInv, PTL DEF Spec
<1> QED BY <1>3, PTL DEF PostInv

(***************************************************************************)
(* What the stack runs after a run that ended well, when main only moves   *)
(* forward (README, Findings).  A commit recorded in this boot and no      *)
(* longer what the stack runs has been overtaken: a later one was brought  *)
(* up, or tried, and main will not come back to it.                        *)
(***************************************************************************)
Forward == \A c \in Pushed, d \in Commits \ Pushed : c < d

Recorded == deployed # None /\ deployed.boot = boot

LiveInv ==
  /\ main \in Pushed /\ Forward
  /\ deployed # None => deployed.commit <= main /\ deployed.boot <= boot
  /\ pc \in Fetched => head <= main /\ (deployed # None => deployed.commit <= head)
  /\ pc \in {"ask", "decrypt", "compose"} => deployed # current
  /\ pc \in Recording => stack = head
  /\ pc \in {"measure", "close"} => deployed = current
  /\ pc = "close" => metrics.info = head
  /\ Recorded /\ stack # deployed.commit =>
       deployed.commit < main /\ (pc \in Fetched => deployed.commit < head)
  /\ outcome = "ok" => pc = "idle"
  /\ DeployedIsLive

\* A run that deploys in the boot of the record deploys a later commit.
LEMMA Overtakes ==
  ASSUME TypeInv, LiveInv, Recorded, pc \in {"ask", "decrypt", "compose"}
  PROVE  deployed.commit < head
<1>1. deployed \in [commit : Commits, boot : Nat] /\ deployed # current
      BY DEF LiveInv, Recorded
<1>2. deployed.commit # head BY <1>1 DEF Recorded, current
<1>3. deployed.commit <= head BY DEF LiveInv, Recorded
<1>4. deployed.commit \in Nat /\ head \in Nat BY <1>1, CommitAssumption
<1> QED BY <1>2, <1>3, <1>4

\* A run that fails may leave the stack between two commits, the record not
\* being the later.
LEMMA RunFailsLive == ASSUME TypeInv, LiveInv, RunFails PROVE LiveInv'
<1>1. pc' = "idle" /\ outcome' # "ok" /\ UNCHANGED <<github, deployed, boot>>
      BY DEF RunFails, CredentialFails, PlatformFails, AskGivesUp, AskPending, AskFailure,
             ComposeFails, Term, Fails, Fault, Ends
<1>2. stack' = stack \/ pc = "compose"
      BY DEF RunFails, CredentialFails, PlatformFails, AskGivesUp, AskPending, AskFailure,
             ComposeFails, Term
<1>3. Recorded /\ stack' # deployed.commit => deployed.commit < main
  <2>1. CASE stack' = stack BY <2>1 DEF LiveInv
  <2>2. CASE pc = "compose"
    <3> SUFFICES ASSUME Recorded PROVE deployed.commit < main
        OBVIOUS
    <3>1. deployed.commit < head /\ head <= main BY <2>2, Overtakes DEF LiveInv
    <3>2. deployed \in [commit : Commits, boot : Nat] BY DEF Recorded
    <3>3. deployed.commit \in Nat /\ head \in Nat /\ main \in Nat
          BY <2>2, <3>2, CommitAssumption
    <3> QED BY <3>1, <3>3
  <2> QED BY <1>2, <2>1, <2>2
<1> QED BY <1>1, <1>3 DEF LiveInv, Recorded, DeployedIsLive, Pushed, Forward

\* A run that goes on, or ends well.
LEMMA RunGoesLive == ASSUME TypeInv, LiveInv, RunGoes PROVE LiveInv'
<1> USE DEF Pushed, Forward, Finishes, Ends, write_metrics
<1>1. CASE ScriptStart BY <1>1 DEF ScriptStart, LiveInv, Recorded, DeployedIsLive, current
<1>2. CASE Fetch
      BY <1>2, CommitAssumption DEF Fetch, LiveInv, Recorded, DeployedIsLive, current
<1>3. CASE AlreadyDeployed
  <2>1. deployed = current /\ pc \in Fetched /\ UNCHANGED <<github, deployed, stack, boot>>
        BY <1>3 DEF AlreadyDeployed
  <2>2. current.commit = head /\ current.boot = boot BY DEF current
  <2>3. deployed # None
        BY <2>1, CommitAssumption DEF current
  <2>4. stack = deployed.commit
    <3>1. head \in Nat BY <2>1, CommitAssumption
    <3> QED BY <2>1, <2>2, <2>3, <3>1 DEF LiveInv, Recorded
  <2>5. metrics'.info = deployed.commit BY <1>3, <2>3 DEF AlreadyDeployed
  <2> QED BY <1>3, <2>1, <2>3, <2>4, <2>5 DEF AlreadyDeployed, LiveInv, Recorded, DeployedIsLive
<1>4. CASE Deploying BY <1>4 DEF Deploying, LiveInv, Recorded, DeployedIsLive, current
<1>5. CASE AskWaits
      BY <1>5 DEF AskWaits, AskPending, LiveInv, Recorded, DeployedIsLive
<1>6. CASE AskSuccess BY <1>6 DEF AskSuccess, LiveInv, Recorded, DeployedIsLive, current
<1>7. CASE Decrypt BY <1>7 DEF Decrypt, LiveInv, Recorded, DeployedIsLive, current
<1>8. CASE Compose
  <2>1. Recorded => deployed.commit < head BY <1>8, Overtakes DEF Compose
  <2>2. Recorded => deployed.commit < main
    <3> SUFFICES ASSUME Recorded PROVE deployed.commit < main
        OBVIOUS
    <3>1. deployed \in [commit : Commits, boot : Nat] BY DEF Recorded
    <3> QED BY <1>8, <2>1, <3>1, CommitAssumption DEF Compose, LiveInv
  <2> QED BY <1>8, <2>1, <2>2 DEF Compose, LiveInv, Recorded, DeployedIsLive
<1>9. CASE Record
  <2>1. deployed' = current /\ current.commit = head /\ current.boot = boot /\ stack = head
        BY <1>9 DEF Record, LiveInv, current
  <2> QED BY <1>9, <2>1, CommitAssumption DEF Record, LiveInv, Recorded, DeployedIsLive, current
<1>10. CASE Measure
  <2>1. deployed = current /\ deployed # None
        BY <1>10, CommitAssumption DEF Measure, LiveInv, current
  <2>2. metrics'.info = head BY <1>10, <2>1 DEF Measure, current
  <2> QED BY <1>10, <2>1, <2>2 DEF Measure, LiveInv, Recorded, DeployedIsLive, current
<1>11. CASE Close
  <2>1. deployed = current /\ deployed # None /\ metrics.info = head /\ stack = head
        BY <1>11, CommitAssumption DEF Close, LiveInv, current
  <2> QED BY <1>11, <2>1 DEF Close, LiveInv, Recorded, DeployedIsLive, current
<1> QED BY <1>1, <1>2, <1>3, <1>4, <1>5, <1>6, <1>7, <1>8, <1>9, <1>10, <1>11 DEF RunGoes

\* Every other step, when main is never moved back.
LEMMA NextLive ==
  ASSUME TypeInv, LiveInv, "reset" \notin Events, [Next]_vars
  PROVE  LiveInv'
<1> USE DEF Recorded, DeployedIsLive, Pushed, Forward
<1>1. CASE RunFails BY <1>1, RunFailsLive
<1>2. CASE RunGoes BY <1>2, RunGoesLive
<1>3. CASE Timer \/ Manual BY <1>3 DEF Timer, Manual, DeployStart, LiveInv, current
<1>4. CASE Report \/ Tick BY <1>4 DEF Report, Tick, LiveInv, current
<1>5. CASE Reboot
  <2>1. boot' = boot + 1 /\ pc' = "idle" /\ outcome' = "none" /\ UNCHANGED <<github, deployed>>
        BY <1>5 DEF Reboot, Ends
  <2>2. deployed # None => deployed.boot \in Nat /\ deployed.boot < boot'
        BY <2>1 DEF LiveInv
  <2> QED BY <2>1, <2>2 DEF LiveInv
<1>6. CASE Push
  <2>1. PICK c \in Commits \ Pushed :
          /\ \A d \in Commits \ Pushed : c <= d
          /\ main' = c /\ ci' = [ci EXCEPT ![c] = "none"]
        BY <1>6 DEF Push
  <2>2. Pushed' = Pushed \cup {c} BY <2>1
  <2>3. main < c /\ main \in Nat /\ c \in Nat BY <2>1, CommitAssumption DEF LiveInv
  <2>4. Forward'
    <3> SUFFICES ASSUME NEW x \in Pushed \cup {c}, NEW y \in Commits \ (Pushed \cup {c})
                 PROVE  x < y
        BY <2>2 DEF Forward
    <3>1. x \in Nat /\ y \in Nat BY <2>1, CommitAssumption
    <3> QED BY <2>1, <3>1 DEF LiveInv
  <2>5. UNCHANGED <<deployed, stack, boot, pc, head, outcome, metrics>> BY <1>6 DEF Push
  <2>6. deployed # None => deployed.commit \in Nat BY CommitAssumption
  <2>7. pc \in Fetched => head \in Nat BY CommitAssumption
  <2> QED BY <2>1, <2>2, <2>3, <2>4, <2>5, <2>6, <2>7 DEF LiveInv, current
<1>7. CASE Reset BY <1>7 DEF Reset
<1>8. CASE \E c \in Commits : CIStarts(c) \/ CIEnds(c) \/ CIRerun(c)
  <2>1. Pushed' = Pushed BY <1>8 DEF CIStarts, CIEnds, CIRerun
  <2>2. UNCHANGED <<main, deployed, stack, boot, pc, head, outcome, metrics>>
        BY <1>8 DEF CIStarts, CIEnds, CIRerun
  <2> QED BY <2>1, <2>2 DEF LiveInv, current
<1>9. CASE UNCHANGED vars BY <1>9 DEF vars, LiveInv, current
<1> QED BY <1>1, <1>2, <1>3, <1>4, <1>5, <1>6, <1>7, <1>8, <1>9 DEF Next, Run

\* Nothing has run yet, and main is at the first commit.
LEMMA InitLive == Init => LiveInv
<1> SUFFICES ASSUME Init PROVE LiveInv
    OBVIOUS
<1>1. main \in Pushed /\ Pushed = {1}
      BY CommitAssumption DEF Init, DeployInit, Pushed
<1>2. Forward BY <1>1, CommitAssumption DEF Forward
<1> QED BY <1>1, <1>2 DEF Init, DeployInit, LiveInv, Recorded, DeployedIsLive

\* While main is never moved back, a run that ended well leaves the commit that
\* is recorded and shown running.
THEOREM WhatIsShownRuns == "reset" \notin Events => (Spec => []DeployedIsLive)
<1> SUFFICES ASSUME "reset" \notin Events PROVE Spec => []DeployedIsLive
    OBVIOUS
<1>1. Init => LiveInv BY InitLive
<1>2. TypeInv /\ LiveInv /\ [Next]_vars => LiveInv' BY NextLive
<1>3. Spec => [](TypeInv /\ LiveInv)
      BY <1>1, <1>2, InitTypeInv, NextTypeInv, PTL DEF Spec
<1> QED BY <1>3, PTL DEF LiveInv

(***************************************************************************)
(* Posted once, when main only moves forward and no CI is run again        *)
(* (README, Findings).  A commit fails its CI before it fails to come up,  *)
(* and a later commit fails after an earlier one: what may still be posted *)
(* is never before what was, and $state/notified is the last of those.     *)
(***************************************************************************)
Upto(k, l) == k[1] < l[1] \/ (k[1] = l[1] /\ (k[2] = "ci" \/ l[2] = "compose"))

\* Nothing that fails from here on is before k.
Behind(k) ==
  /\ k[1] <= main
  /\ pc \in Fetched => k[1] <= head
  /\ stage \in TenantStages => Upto(k, <<commit, stage>>)
  /\ k[2] = "compose" => ci[k[1]] = "success"

\* The run's own files: what they show has happened, and is the latest.
FilesInv ==
  /\ commit # None => commit <= main
  /\ pc \in {"fetch", "compare"} => stage = "fetch"
  /\ pc \in {"decrypt", "compose"} => ci[head] = "success"
  /\ stage = "compose" => ci[commit] = "success"

Reading == hpc \in {"log", "post", "mark"}

OnceInv ==
  /\ FilesInv
  /\ \A k \in posted : Behind(k)
  /\ notified # None => Behind(notified)
  /\ Reading =>
       /\ Behind(key)
       /\ \A k \in posted : Upto(k, key)
       /\ notified # None => Upto(notified, key)
  /\ hpc = "post" => notified # key
  /\ \A k \in posted : (hpc = "mark" /\ k = key) \/ (notified # None /\ Upto(k, notified))
  /\ PostedOnce

\* The order is one: of two keys that are each up to the other, both are the same.
LEMMA UptoOrder ==
  ASSUME NEW k \in PostedKeys, NEW l \in PostedKeys
  PROVE  /\ Upto(k, k)
         /\ Upto(k, l) /\ Upto(l, k) => k = l
<1>1. k[1] \in Nat /\ l[1] \in Nat /\ k[2] \in TenantStages /\ l[2] \in TenantStages
      BY CommitAssumption
<1>2. Upto(k, k) BY <1>1 DEF Upto
<1>3. ASSUME Upto(k, l), Upto(l, k) PROVE k[1] = l[1] /\ k[2] = l[2]
      BY <1>1, <1>3 DEF Upto
<1>4. k[1] = l[1] /\ k[2] = l[2] => k = l
      OBVIOUS
<1> QED BY <1>2, <1>3, <1>4

\* What is behind stays behind: on GitHub main and the finished runs only go
\* forward, and a run fails where nothing later has failed.
LEMMA StaysBehind ==
  ASSUME TypeInv, LiveInv, OnceInv, Events \cap {"reset", "rerun"} = {}, [Next]_vars,
         NEW k \in PostedKeys, Behind(k)
  PROVE  Behind(k)'
<1>1. k[1] \in Commits /\ k[1] \in Nat /\ k[2] \in TenantStages /\ main \in Nat
      /\ (pc \in Fetched => head \in Nat) /\ (stage \in TenantStages => commit \in Nat)
      BY CommitAssumption
<1> USE <1>1 DEF Behind, Upto
\* Steps that change no file the report reads.
<1>2. ASSUME UNCHANGED <<main, ci, stage, commit, head>>, pc' \in Fetched => pc \in Fetched
      PROVE  Behind(k)'
      BY <1>2
\* Steps that end a run, at a stage of the platform's or where they were.
<1>3. ASSUME UNCHANGED <<main, ci, commit>>, pc' = "idle", stage' \in TenantStages => stage' = stage
      PROVE  Behind(k)'
      BY <1>3
<1>4. CASE RunFails
  <2> USE DEF Fails, Ends
  <2>1. CASE CredentialFails BY <1>3, <2>1 DEF CredentialFails
  <2>2. CASE PlatformFails BY <1>3, <2>2 DEF PlatformFails
  <2>3. CASE AskGivesUp BY <2>3 DEF AskGivesUp, AskPending
  <2>4. CASE AskFailure BY <2>4 DEF AskFailure
  <2>5. CASE ComposeFails BY <2>5 DEF ComposeFails
  <2>6. CASE Term BY <1>3, <2>6 DEF Term
  <2> QED BY <1>4, <2>1, <2>2, <2>3, <2>4, <2>5, <2>6 DEF RunFails
<1>5. CASE RunGoes
  <2> USE DEF Finishes, Ends
  <2>1. CASE ScriptStart BY <2>1 DEF ScriptStart
  <2>2. CASE Fetch BY <2>2 DEF Fetch, OnceInv, FilesInv
  <2>3. CASE AlreadyDeployed \/ AskWaits BY <1>3, <2>3 DEF AlreadyDeployed, AskWaits, AskPending
  <2>4. CASE Deploying BY <2>4 DEF Deploying
  <2>5. CASE AskSuccess BY <2>5 DEF AskSuccess
  <2>6. CASE Decrypt BY <2>6 DEF Decrypt
  <2>7. CASE Compose \/ Record \/ Measure BY <1>2, <2>7 DEF Compose, Record, Measure
  <2>8. CASE Close BY <1>3, <2>8 DEF Close
  <2> QED BY <1>5, <2>1, <2>2, <2>3, <2>4, <2>5, <2>6, <2>7, <2>8 DEF RunGoes
<1>6. CASE Timer \/ Manual BY <1>2, <1>6 DEF Timer, Manual, DeployStart
<1>7. CASE Report \/ Tick \/ UNCHANGED vars BY <1>2, <1>7 DEF Report, Tick, vars
<1>8. CASE Reboot BY <1>8, StageAssumption DEF Reboot, Ends
<1>9. CASE Push
  <2>1. PICK c \in Commits \ Pushed : main' = c /\ ci' = [ci EXCEPT ![c] = "none"]
        BY <1>9 DEF Push
  <2>2. main < c /\ c \in Nat BY <2>1, CommitAssumption DEF LiveInv, Forward
  <2>3. k[2] = "compose" => ci'[k[1]] = "success"
        BY <2>1 DEF Pushed
  <2>4. UNCHANGED <<pc, head, stage, commit>> BY <1>9 DEF Push
  <2> QED BY <2>1, <2>2, <2>3, <2>4
<1>10. CASE Reset BY <1>10 DEF Reset
<1>11. CASE \E c \in Commits : CIStarts(c) \/ CIEnds(c) \/ CIRerun(c)
       BY <1>11 DEF CIStarts, CIEnds, CIRerun
<1> QED BY <1>4, <1>5, <1>6, <1>7, <1>8, <1>9, <1>10, <1>11 DEF Next, Run

\* Every step keeps them so.
LEMMA NextFiles ==
  ASSUME TypeInv, LiveInv, FilesInv, Events \cap {"reset", "rerun"} = {}, [Next]_vars
  PROVE  FilesInv'
<1>1. main \in Nat /\ (commit # None => commit \in Nat) BY CommitAssumption
<1> USE <1>1 DEF FilesInv
<1>4. CASE RunFails
  BY <1>4 DEF RunFails, CredentialFails, PlatformFails, AskGivesUp, AskPending, AskFailure,
              ComposeFails, Term, Fails, Ends
<1>5. CASE RunGoes
  <2> USE DEF Finishes, Ends
  <2>1. CASE ScriptStart BY <2>1 DEF ScriptStart
  <2>2. CASE Fetch BY <2>2 DEF Fetch
  <2>3. CASE AlreadyDeployed \/ AskWaits BY <2>3 DEF AlreadyDeployed, AskWaits, AskPending
  <2>4. CASE Deploying BY <2>4 DEF Deploying
  <2>5. CASE AskSuccess BY <2>5 DEF AskSuccess
  <2>6. CASE Decrypt BY <2>6 DEF Decrypt
  <2>7. CASE Compose \/ Record \/ Measure \/ Close BY <2>7 DEF Compose, Record, Measure, Close
  <2> QED BY <1>5, <2>1, <2>2, <2>3, <2>4, <2>5, <2>6, <2>7 DEF RunGoes
<1>6. CASE Timer \/ Manual BY <1>6 DEF Timer, Manual, DeployStart
<1>7. CASE Report \/ Tick \/ UNCHANGED vars BY <1>7 DEF Report, Tick, vars
<1>8. CASE Reboot BY <1>8, StageAssumption DEF Reboot, Ends
<1>9. CASE Push
  <2>1. PICK c \in Commits \ Pushed : main' = c /\ ci' = [ci EXCEPT ![c] = "none"]
        BY <1>9 DEF Push
  <2>2. main < c /\ c \in Nat BY <2>1, CommitAssumption DEF LiveInv, Forward
  <2>3. UNCHANGED <<pc, head, stage, commit>> BY <1>9 DEF Push
  <2> QED BY <2>1, <2>2, <2>3 DEF Pushed
<1>10. CASE Reset BY <1>10 DEF Reset
<1>11. CASE \E c \in Commits : CIStarts(c) \/ CIEnds(c) \/ CIRerun(c)
       BY <1>11 DEF CIStarts, CIEnds, CIRerun
<1> QED BY <1>4, <1>5, <1>6, <1>7, <1>8, <1>9, <1>10, <1>11 DEF Next, Run

\* What the report reads in /run is not before what has been told.
LEMMA ReadsBehind == ASSUME TypeInv, FilesInv, hpc = "read", ReportRead, hpc' = "log"
                     PROVE  Behind(key')
<1>1. key' = <<commit, stage>> /\ stage \in TenantStages /\ commit \in Commits
      BY DEF ReportRead, ReportEnds
<1>2. key'[1] = commit /\ key'[2] = stage /\ commit # None BY <1>1, CommitAssumption
<1>3. Upto(key', <<commit, stage>>) BY <1>1 DEF Upto
<1>4. commit <= main BY <1>2 DEF FilesInv
<1>5. pc \in Fetched => commit <= head BY <1>1, CommitAssumption
<1>6. stage = "compose" => ci[commit] = "success" BY DEF FilesInv
<1> QED BY <1>2, <1>3, <1>4, <1>5, <1>6 DEF Behind

\* The report posts what is after all that it posted before, marks it, or lets
\* go of it.
LEMMA ReportOnce ==
  ASSUME TypeInv, TypeInv', OnceInv, Report,
         \A k \in PostedKeys : Behind(k) => Behind(k)'
  PROVE  OnceInv'
<1> USE DEF Report, ReportEnds, Arrives, Reading
<1>1. FilesInv' BY DEF OnceInv, FilesInv
<1>2. \A k \in PostedKeys :
        k \in posted \/ k = notified \/ (Reading /\ k = key) => Behind(k)'
  <2> TAKE k \in PostedKeys
  <2>1. k = notified => notified # None BY KeyAssumption
  <2> QED BY <2>1 DEF OnceInv
<1>3. CASE ReportRead
  <2>1. ASSUME hpc' = "log"
        PROVE  /\ Behind(key)' /\ key' \in PostedKeys
               /\ \A k \in PostedKeys : Behind(k) => Upto(k, key')
        BY <1>3, <2>1, ReadsBehind DEF ReportRead, OnceInv, FilesInv, Behind, Upto
  <2> QED BY <1>1, <1>2, <1>3, <2>1 DEF ReportRead, OnceInv, PostedOnce
<1>4. CASE ReportLog BY <1>1, <1>2, <1>4 DEF ReportLog, OnceInv, PostedOnce
<1>5. CASE ReportPost
  <2>1. key \in PostedKeys /\ hpc = "post" /\ notified # key BY <1>5 DEF ReportPost, OnceInv
  <2>2. key \notin posted
    <3> SUFFICES ASSUME key \in posted PROVE FALSE
        OBVIOUS
    <3>1. notified # None /\ Upto(key, notified) /\ Upto(notified, key)
          BY <2>1 DEF OnceInv
    <3> QED BY <2>1, <3>1, UptoOrder
  <2>3. Upto(key, key) BY <2>1, UptoOrder
  <2> QED BY <1>1, <1>2, <1>5, <2>1, <2>2, <2>3 DEF ReportPost, OnceInv, PostedOnce
<1>6. CASE ReportPostFails
  <2>1. key \in PostedKeys /\ hpc = "post" /\ notified # key BY <1>6 DEF ReportPostFails, OnceInv
  <2>2. key \notin posted
    <3> SUFFICES ASSUME key \in posted PROVE FALSE
        OBVIOUS
    <3>1. notified # None /\ Upto(key, notified) /\ Upto(notified, key)
          BY <2>1 DEF OnceInv
    <3> QED BY <2>1, <3>1, UptoOrder
  <2>3. posted' \subseteq posted /\ repeated' = {} /\ hpc' = "off" /\ notified' = notified
        BY <1>6, <2>2 DEF ReportPostFails, OnceInv, PostedOnce
  <2> QED BY <1>1, <1>2, <2>1, <2>3 DEF OnceInv, PostedOnce
<1>7. CASE ReportMark
  <2>1. /\ key \in PostedKeys /\ hpc = "mark" /\ hpc' = "off" /\ notified' = key
        /\ UNCHANGED <<posted, repeated>>
        BY <1>7 DEF ReportMark
  <2>2. Behind(notified)' BY <1>2, <2>1
  <2>3. \A k \in posted' : notified' # None /\ Upto(k, notified')
        BY <2>1, KeyAssumption DEF OnceInv
  <2> QED BY <1>1, <1>2, <2>1, <2>2, <2>3 DEF OnceInv, PostedOnce
<1> QED BY <1>3, <1>4, <1>5, <1>6, <1>7 DEF ReportStep

\* Every step keeps the order of what is told.
LEMMA NextOnce ==
  ASSUME TypeInv, LiveInv, OnceInv, Events \cap {"reset", "rerun"} = {}, [Next]_vars
  PROVE  OnceInv'
<1>1. TypeInv' /\ FilesInv' BY NextTypeInv, NextFiles DEF OnceInv
<1>2. \A k \in PostedKeys : Behind(k) => Behind(k)' BY StaysBehind
<1>3. CASE Report BY <1>1, <1>2, <1>3, ReportOnce
<1>4. CASE Reboot
  <2>1. /\ hpc' = "off" /\ UNCHANGED <<notified, repeated>> /\ posted' \subseteq posted
        /\ \A k \in posted' : ~(hpc = "mark" /\ k = key)
        BY <1>4 DEF Reboot, ReportEnds
  <2> QED BY <1>1, <1>2, <2>1 DEF OnceInv, Reading, PostedOnce
<1>5. CASE RunFails /\ ReportStart
  BY <1>1, <1>2, <1>5 DEF ReportStart, OnceInv, Reading, PostedOnce
<1>6. CASE UNCHANGED reportVars BY <1>1, <1>2, <1>6 DEF OnceInv, Reading, PostedOnce
<1> QED BY <1>3, <1>4, <1>5, <1>6
        DEF Next, Run, Timer, Manual, Tick, Push, Reset, CIStarts, CIEnds, CIRerun, vars

\* While main is never moved back and no CI is run again, a failure reaches the
\* tenant once per commit and stage, unless the mark of its post was lost:
\* with runs started by hand, TERMs, reboots and posts whose answer is lost.
THEOREM FailuresArePostedOnce ==
  Events \cap {"reset", "rerun"} = {} => (Spec => []PostedOnce)
<1> SUFFICES ASSUME Events \cap {"reset", "rerun"} = {} PROVE Spec => []PostedOnce
    OBVIOUS
<1>1. Init => LiveInv BY InitLive
<1>2. Init => OnceInv
      BY StageAssumption DEF Init, DeployInit, ReportInit, OnceInv, FilesInv, Reading, PostedOnce
<1>3. TypeInv /\ LiveInv /\ [Next]_vars => LiveInv' BY NextLive
<1>4. TypeInv /\ LiveInv /\ OnceInv /\ [Next]_vars => OnceInv' BY NextOnce
<1>5. Spec => [](TypeInv /\ LiveInv /\ OnceInv)
      BY <1>1, <1>2, <1>3, <1>4, InitTypeInv, NextTypeInv, PTL DEF Spec
<1> QED BY <1>5, PTL DEF OnceInv
=============================================================================
