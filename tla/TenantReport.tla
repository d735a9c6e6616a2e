---------------------------- MODULE TenantReport ---------------------------
(***************************************************************************)
(* tenant-deploy-failed.service, tenant-deploy's OnFailure: posts a failed *)
(* run's log to the tenant, unless the failure is the platform's or this   *)
(* commit and stage are already posted.                                    *)
(***************************************************************************)
EXTENDS TenantDeploy

VARIABLES
  hpc,       \* where the report is
  key,       \* the commit and the stage it read
  cause,     \* history: the outcome of the run it reports
  notified,  \* $state/notified
  posted,    \* history: the keys that reached the tenant and whose mark was not lost
  repeated,  \* history: those of them that reached the tenant again
  misposted  \* history: a post was of a failure that was not the tenant's

reportVars == <<hpc, key, cause, notified, posted, repeated, misposted>>

Keys == CommitOrNone \X (Stages \cup {None})
PostedKeys == Commits \X TenantStages
ASSUME KeyAssumption == None \notin PostedKeys

ReportTypeOK ==
  /\ hpc \in {"off", "read", "log", "post", "mark"}
  /\ key \in Keys
  /\ cause \in Outcomes
  /\ notified \in PostedKeys \cup {None}
  /\ posted \subseteq PostedKeys /\ repeated \subseteq PostedKeys
  /\ misposted \in BOOLEAN

ReportInit ==
  /\ hpc = "off" /\ key = <<None, None>> /\ cause = "none"
  /\ notified = None
  /\ posted = {} /\ repeated = {} /\ misposted = FALSE

\* OnFailure=; a start of a report that is still running does nothing.
ReportStart ==
  \/ /\ hpc = "off" /\ hpc' = "read"
     /\ cause' = outcome'
     /\ UNCHANGED <<key, notified, posted, repeated, misposted>>
  \/ hpc # "off" /\ UNCHANGED reportVars

ReportEnds == hpc' = "off" /\ key' = <<None, None>> /\ cause' = "none"

\* $run/stage and $run/commit; a stage of the platform's ends it.
ReportRead ==
  /\ hpc = "read"
  /\ IF stage \in TenantStages
     THEN hpc' = "log" /\ key' = <<commit, stage>> /\ UNCHANGED cause
     ELSE ReportEnds
  /\ UNCHANGED <<notified, posted, repeated, misposted>>

\* (Mutant) The log is not read: the stage may be an earlier run's.
ReportStale ==
  /\ hpc = "log"
  /\ IF notified # key /\ webhook
     THEN hpc' = "post" /\ UNCHANGED <<key, cause>>
     ELSE ReportEnds
  /\ UNCHANGED <<notified, posted, repeated, misposted>>

\* This run's log says it was deploying the commit; the key is not the last
\* one posted; there is a webhook.
ReportLog ==
  /\ hpc = "log"
  /\ IF log = key[1] /\ notified # key /\ webhook
     THEN hpc' = "post" /\ UNCHANGED <<key, cause>>
     ELSE ReportEnds
  /\ UNCHANGED <<notified, posted, repeated, misposted>>

Arrives ==
  /\ repeated' = repeated \cup ({key} \cap posted)
  /\ misposted' = (misposted \/ cause # "tenant")

ReportPost ==
  /\ hpc = "post" /\ hpc' = "mark"
  /\ Arrives /\ posted' = posted \cup {key}
  /\ UNCHANGED <<key, cause, notified>>

\* (Mutant) A failed post is marked as one that arrived.
ReportPostFailsMarked ==
  /\ "postFails" \in Events
  /\ hpc = "post" /\ hpc' = "mark"
  /\ UNCHANGED <<key, cause, notified, posted, repeated, misposted>>

\* curl fails: nothing is marked, and the next failed run tries again.
ReportPostFails ==
  /\ hpc = "post" /\ ReportEnds
  /\ \/ "postFails" \in Events /\ UNCHANGED <<posted, repeated, misposted>>
     \/ "postLost" \in Events /\ Arrives /\ posted' = posted \ {key}
  /\ UNCHANGED notified

\* (Mutant) The mark is forgotten.
ReportNoMark ==
  /\ hpc = "mark" /\ ReportEnds
  /\ UNCHANGED <<notified, posted, repeated, misposted>>

ReportMark ==
  /\ hpc = "mark" /\ ReportEnds
  /\ notified' = key
  /\ UNCHANGED <<posted, repeated, misposted>>

ReportStep == ReportRead \/ ReportLog \/ ReportPost \/ ReportPostFails \/ ReportMark
=============================================================================
