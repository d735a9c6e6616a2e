---------------------------- MODULE TenantDeploy ---------------------------
(***************************************************************************)
(* tenant-deploy.service: every 5 minutes, fetch the tenant's `main`, check *)
(* on GitHub that the commit's CI passed, decrypt its secrets and bring its *)
(* Compose stack up.                                                       *)
(***************************************************************************)
EXTENDS Naturals, FiniteSets

CONSTANTS
  Commits,       \* the tenant's commits, in the order they are pushed: 1..n
  None,          \* no commit, no file
  Mixed,         \* the stack when `up` failed half-way
  PendingLimit,  \* how long a commit may wait for its CI (21600 s), in ticks
  MaxBoots,      \* bound: reboots
  Events         \* which of AllEvents may happen

AllEvents == {"push",          \* a new commit on main
              "reset",         \* main is moved to an earlier commit
              "manual",        \* a run started by hand, the report still running
              "rerun",         \* a finished CI run is started again
              "reboot",        \* the VM reboots
              "term",          \* systemd's TERM: the timeout, a stop
              "credential",    \* the unit fails before the script runs
              "platformFails", \* fetch, GitHub's API, checkout or decrypt fail
              "composeFails",  \* `docker compose up` fails
              "postFails",     \* the post does not arrive
              "postLost"}      \* the post arrives, its answer does not

ASSUME CommitAssumption ==
  /\ Commits \subseteq Nat \ {0} /\ 1 \in Commits
  /\ None \notin Commits /\ Mixed \notin Commits
  /\ None \notin [commit : Commits, boot : Nat]
ASSUME BoundAssumption ==
  PendingLimit \in Nat /\ MaxBoots \in Nat /\ Events \subseteq AllEvents

VARIABLES
  main, ci,                   \* GitHub: the branch, and each commit's CI
  deployed, pending, metrics, \* files in /var
  stage, commit, webhook,     \* files in /run/tenant-runner, lost at a reboot
  stack,                      \* what the stack runs: a commit, Mixed or None
  boot,                       \* boot_id
  pc, head, log,              \* the run: where it is, its $commit, and the
                              \* commit its log says it is deploying
  outcome,                    \* history: how the last run ended
  passed, unchecked           \* history: commits whose CI has passed, and those
                              \* that were started though it had not

github == <<main, ci, passed>>
varFiles == <<deployed, pending, metrics>>
runFiles == <<stage, commit, webhook>>
deployVars == <<varFiles, runFiles, stack, boot, pc, head, log, outcome, unchecked>>

Waiting == {"none", "running"}    \* no runs yet, or some not completed
TenantStages == {"ci", "compose"}
Stages == {"fetch", "checks", "decrypt", "done"} \cup TenantStages
ASSUME StageAssumption == None \notin Stages
\* After `finished=1`.
Recording == {"record", "measure", "close"}
Scripted == {"fetch", "compare", "ask", "decrypt", "compose"} \cup Recording
\* "tenant" and "platform": failed, and whose fault it is; "up": ended by a
\* TERM with the stack up; "unstarted": failed before the script.
Outcomes == {"none", "running", "ok", "waiting", "tenant", "platform", "up", "unstarted"}

CommitOrNone == Commits \cup {None}

DeployTypeOK ==
  /\ main \in Commits
  /\ ci \in [Commits -> {"unpushed", "success", "failure"} \cup Waiting]
  /\ deployed \in [commit : Commits, boot : Nat] \cup {None}
  /\ pending \in [commit : Commits, age : Nat] \cup {None}
  /\ metrics \in [success : {0, 1}, platform_ok : {0, 1}, info : CommitOrNone] \cup {None}
  /\ stage \in Stages \cup {None}
  /\ commit \in CommitOrNone /\ webhook \in BOOLEAN
  /\ stack \in Commits \cup {Mixed, None}
  /\ boot \in Nat
  /\ pc \in {"idle", "start"} \cup Scripted
  /\ head \in CommitOrNone /\ log \in CommitOrNone
  /\ outcome \in Outcomes
  /\ passed \subseteq Commits /\ unchecked \subseteq Commits

DeployInit ==
  /\ main = 1
  /\ ci = [c \in Commits |-> IF c = 1 THEN "none" ELSE "unpushed"]
  /\ deployed = None /\ pending = None /\ metrics = None
  /\ stage = None /\ commit = None /\ webhook = FALSE
  /\ stack = None /\ boot = 0
  /\ pc = "idle" /\ head = None /\ log = None
  /\ outcome = "none" /\ passed = {} /\ unchecked = {}

write_metrics(success, ok) ==
  metrics' = [success |-> success, platform_ok |-> ok,
              info |-> IF deployed = None THEN None ELSE deployed.commit]

\* The tenant's failures leave platform_ok at 1.
Fault(s) == IF s \in TenantStages THEN "tenant" ELSE "platform"

\* The process, and its $commit, are gone.
Ends(how) == pc' = "idle" /\ head' = None /\ outcome' = how

\* on_exit, of a run that is not `finished` and ends at stage s.
Fails(s) ==
  /\ stage' = s
  /\ write_metrics(0, IF s \in TenantStages THEN 1 ELSE 0)
  /\ Ends(Fault(s))

\* The two ways out that write their own metrics.
Finishes(success, how) ==
  /\ stage' = "done"
  /\ write_metrics(success, 1)
  /\ Ends(how)

\* The timer, 5 minutes after the last run.
DeployStart ==
  /\ pc = "idle" /\ pc' = "start"
  /\ log' = None /\ outcome' = "running"
  /\ UNCHANGED <<github, varFiles, runFiles, stack, boot, head, unchecked>>

\* LoadCredential= or tenant-runner-keys fails: no script, no trap.
CredentialFails ==
  /\ "credential" \in Events
  /\ pc = "start" /\ Ends("unstarted")
  /\ UNCHANGED <<github, varFiles, runFiles, stack, boot, log, unchecked>>

ScriptStart ==
  /\ pc = "start" /\ pc' = "fetch"
  /\ stage' = "fetch" /\ commit' = None
  /\ UNCHANGED <<github, varFiles, webhook, stack, boot, head, log, outcome, unchecked>>

Fetch ==
  /\ pc = "fetch" /\ pc' = "compare"
  /\ head' = main /\ commit' = main
  /\ UNCHANGED <<github, varFiles, stage, webhook, stack, boot, log, outcome, unchecked>>

\* Any failing command of the platform's part, `set -e`; the checkout fails
\* with $state/pending gone.
PlatformFails ==
  /\ "platformFails" \in Events
  /\ pc \in {"fetch", "ask", "decrypt"}
  /\ Fails(stage)
  /\ \/ UNCHANGED pending
     \/ pc = "ask" /\ ci[head] = "success" /\ pending' = None
  /\ UNCHANGED <<github, deployed, commit, webhook, stack, boot, log, unchecked>>

\* (Mutant) A reboot does not deploy again.
current_commit == [commit |-> head, boot |-> 0]

current == [commit |-> head, boot |-> boot]

AlreadyDeployed ==
  /\ pc = "compare" /\ deployed = current
  /\ Finishes(1, "ok")
  /\ UNCHANGED <<github, deployed, pending, commit, webhook, stack, boot, log, unchecked>>

Deploying ==
  /\ pc = "compare" /\ deployed # current
  /\ pc' = "ask" /\ log' = head /\ stage' = "checks"
  /\ UNCHANGED <<github, varFiles, commit, webhook, stack, boot, head, outcome, unchecked>>

\* $state/pending: since when this commit has been waiting.
since == IF pending # None /\ pending.commit = head THEN pending
         ELSE [commit |-> head, age |-> 0]

\* The commit's runs are not all completed.
AskPending ==
  /\ pc = "ask" /\ ci[head] \in Waiting
  /\ pending' = since
  /\ UNCHANGED <<github, deployed, commit, webhook, stack, boot, log, unchecked>>

\* The metrics keep the last run's verdict.
AskWaits ==
  /\ AskPending /\ since.age <= PendingLimit
  /\ Finishes(IF metrics = None THEN 1 ELSE metrics.success, "waiting")

AskGivesUp == AskPending /\ since.age > PendingLimit /\ Fails("ci")

AskFailure ==
  /\ pc = "ask" /\ ci[head] = "failure"
  /\ Fails("ci")
  /\ UNCHANGED <<github, deployed, pending, commit, webhook, stack, boot, log, unchecked>>

\* (Mutant) Runs that have not finished pass.
AskAnything ==
  /\ pc = "ask" /\ ci[head] # "failure"
  /\ pc' = "decrypt" /\ stage' = "decrypt"
  /\ pending' = None
  /\ UNCHANGED <<github, deployed, metrics, commit, webhook, stack, boot, head, log,
                 outcome, unchecked>>

\* The commit passed: it is checked out.
AskSuccess ==
  /\ pc = "ask" /\ ci[head] = "success"
  /\ pc' = "decrypt" /\ stage' = "decrypt"
  /\ pending' = None
  /\ UNCHANGED <<github, deployed, metrics, commit, webhook, stack, boot, head, log,
                 outcome, unchecked>>

\* (Mutant) The deployed commit is written before `up`.
DecryptRecords ==
  /\ pc = "decrypt" /\ pc' = "compose"
  /\ stage' = "compose" /\ webhook' = TRUE
  /\ deployed' = current
  /\ UNCHANGED <<github, pending, metrics, commit, stack, boot, head, log, outcome, unchecked>>

\* Every commit's secrets have a FAILURE_WEBHOOK here.
Decrypt ==
  /\ pc = "decrypt" /\ pc' = "compose"
  /\ stage' = "compose" /\ webhook' = TRUE
  /\ UNCHANGED <<github, varFiles, commit, stack, boot, head, log, outcome, unchecked>>

Starts == unchecked' = unchecked \cup ({head} \ passed)

\* docker compose up --wait
Compose ==
  /\ pc = "compose" /\ pc' = "record"
  /\ stack' = head /\ Starts
  /\ UNCHANGED <<github, varFiles, runFiles, boot, head, log, outcome>>

\* Nothing of it may be up, half of it, or all of it.
PartlyUp ==
  /\ stack' \in {stack, Mixed, head}
  /\ IF stack' = stack THEN UNCHANGED unchecked ELSE Starts

ComposeFails ==
  /\ "composeFails" \in Events
  /\ pc = "compose" /\ PartlyUp /\ Fails("compose")
  /\ UNCHANGED <<github, deployed, pending, commit, webhook, boot, log>>

Record ==
  /\ pc = "record" /\ pc' = "measure"
  /\ deployed' = current
  /\ UNCHANGED <<github, pending, metrics, runFiles, stack, boot, head, log, outcome, unchecked>>

Measure ==
  /\ pc = "measure" /\ pc' = "close"
  /\ write_metrics(1, 1)
  /\ UNCHANGED <<github, deployed, pending, runFiles, stack, boot, head, log, outcome, unchecked>>

Close ==
  /\ pc = "close"
  /\ stage' = "done" /\ Ends("ok")
  /\ UNCHANGED <<github, varFiles, commit, webhook, stack, boot, log, unchecked>>

\* The TERM trap exits with 143, a failure of the unit; once `finished`, the
\* EXIT trap writes nothing.
Term ==
  /\ "term" \in Events
  /\ \/ /\ pc \in Scripted \ (Recording \cup {"compose"})
        /\ Fails(stage)
        /\ UNCHANGED <<stack, unchecked>>
     \/ pc = "compose" /\ PartlyUp /\ Fails(stage)
     \/ /\ pc \in Recording
        /\ Ends("up")
        /\ UNCHANGED <<stage, metrics, stack, unchecked>>
  /\ UNCHANGED <<github, deployed, pending, commit, webhook, boot, log>>

\* The steps that fail the unit, and the others.
RunFails ==
  CredentialFails \/ PlatformFails \/ AskGivesUp \/ AskFailure \/ ComposeFails \/ Term
RunGoes ==
  \/ ScriptStart \/ Fetch \/ AlreadyDeployed \/ Deploying \/ AskWaits \/ AskSuccess
  \/ Decrypt \/ Compose \/ Record \/ Measure \/ Close
=============================================================================
