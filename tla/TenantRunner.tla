---------------------------- MODULE TenantRunner ---------------------------
(***************************************************************************)
(* tenant-run: the deploy, its failure report, the timer, reboots, and the *)
(* tenant's repository on GitHub.                                          *)
(***************************************************************************)
EXTENDS TenantReport

vars == <<github, deployVars, reportVars>>

Init == DeployInit /\ ReportInit

(***************************************************************************)
(* GitHub.                                                                 *)
(***************************************************************************)
Pushed == {c \in Commits : ci[c] # "unpushed"}

Push ==
  /\ "push" \in Events
  /\ \E c \in Commits \ Pushed :
       /\ \A d \in Commits \ Pushed : c <= d
       /\ main' = c
       /\ ci' = [ci EXCEPT ![c] = "none"]
  /\ UNCHANGED <<passed, deployVars, reportVars>>

\* A force-push back to an earlier commit.
Reset ==
  /\ "reset" \in Events
  /\ main' \in {c \in Pushed : c < main}
  /\ UNCHANGED <<ci, passed, deployVars, reportVars>>

CIStarts(c) ==
  /\ ci[c] = "none" /\ ci' = [ci EXCEPT ![c] = "running"]
  /\ UNCHANGED <<main, passed, deployVars, reportVars>>

CIEnds(c) ==
  /\ ci[c] = "running"
  /\ \/ ci' = [ci EXCEPT ![c] = "success"] /\ passed' = passed \cup {c}
     \/ ci' = [ci EXCEPT ![c] = "failure"] /\ UNCHANGED passed
  /\ UNCHANGED <<main, deployVars, reportVars>>

CIRerun(c) ==
  /\ "rerun" \in Events
  /\ ci[c] \in {"success", "failure"} /\ ci' = [ci EXCEPT ![c] = "running"]
  /\ UNCHANGED <<main, passed, deployVars, reportVars>>

(***************************************************************************)
(* The VM.                                                                 *)
(***************************************************************************)
\* Every 5 minutes after the last run; the report takes less.
Timer == hpc = "off" /\ DeployStart /\ UNCHANGED reportVars

\* `systemctl start tenant-deploy`.
Manual == "manual" \in Events /\ hpc # "off" /\ DeployStart /\ UNCHANGED reportVars

\* A tick of the clock that $state/pending's time is compared with.
Tick ==
  /\ pending # None /\ pending.age <= PendingLimit
  /\ pending' = [pending EXCEPT !.age = @ + 1]
  /\ UNCHANGED <<github, deployed, metrics, runFiles, stack, boot, pc, head, log,
                 outcome, unchecked, reportVars>>

\* /run is lost, /var stays; a container without a restart policy stays down;
\* an `up` is cut short.
Reboot ==
  /\ "reboot" \in Events /\ boot < MaxBoots
  /\ boot' = boot + 1
  /\ stage' = None /\ commit' = None /\ webhook' = FALSE
  /\ \/ stack' \in {stack, None} /\ UNCHANGED unchecked
     \/ pc = "compose" /\ PartlyUp
  /\ Ends("none") /\ log' = None /\ ReportEnds
  /\ posted' = IF hpc = "mark" THEN posted \ {key} ELSE posted
  /\ UNCHANGED <<github, varFiles, notified, repeated, misposted>>

Run == (RunFails /\ ReportStart) \/ (RunGoes /\ UNCHANGED reportVars)
Report == ReportStep /\ UNCHANGED <<github, deployVars>>

Next ==
  \/ Timer \/ Manual \/ Run \/ Report \/ Tick \/ Reboot
  \/ Push \/ Reset
  \/ \E c \in Commits : CIStarts(c) \/ CIEnds(c) \/ CIRerun(c)

Spec == Init /\ [][Next]_vars

\* systemd runs the timer's unit and the report; the clock goes on; a webhook
\* that is posted to again and again answers in the end.  Nothing makes the
\* tenant push, GitHub finish a run, or a run succeed.
FairSpec ==
  /\ Spec
  /\ WF_vars(Timer) /\ WF_vars(Run) /\ WF_vars(Report) /\ WF_vars(Tick)
  /\ \A k \in PostedKeys :
       SF_vars(key = k /\ ReportPost /\ UNCHANGED <<github, deployVars>>)

---------------------------------------------------------------------------

\* Each variable of the runner, the report and GitHub keeps its type.
TypeOK == DeployTypeOK /\ ReportTypeOK

\* The production gate (ADR 0013): no container is ever started from a commit
\* whose CI has not passed on GitHub, whatever is pushed, moved or run again.
OnlyPassedRuns == unchecked = {}

\* What reaches the tenant is a failure of theirs: a CI failure or a stack that
\* would not come up, in the run that is reported; never a stage that an
\* earlier run left in /run.
OnlyTenantFailuresPosted == ~misposted

\* Once per commit and stage, unless the mark of a post was lost.
PostedOnce == repeated = {}

\* After a run that ended well, the stack runs the commit that is recorded as
\* deployed and shown in the metrics.
DeployedIsLive ==
  outcome = "ok" => deployed # None /\ stack = deployed.commit /\ metrics.info = stack

\* A failure of the tenant's that comes again and again, once their webhook is
\* known, is posted: a post that fails is tried again by the next failed run.
FailureIsPosted ==
  \A k \in PostedKeys :
    []<>(outcome = "tenant" /\ <<commit, stage>> = k /\ webhook) => <>(k \in posted)

\* A commit that stays on main and whose CI never finishes is not waited for
\* for ever: its runs fail in the end, across reboots.
PendingEnds ==
  \A c \in Commits :
    <>[](main = c /\ ci[c] \in Waiting) => <>[](commit = c => outcome # "waiting")

\* A commit that stays on main with its CI passed ends up as what the stack
\* runs, after a reboot too, if runs keep ending well.
PassedIsDeployed ==
  \A c \in Commits :
    <>[](main = c /\ ci[c] = "success") /\ []<>(outcome = "ok") => <>[](stack = c)

\* A commit that stays on main settles, across reboots: it is deployed, or given up.
CommitsSettle == PendingEnds /\ PassedIsDeployed
=============================================================================
