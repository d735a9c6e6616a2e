---------------------------- MODULE UpdateReport ----------------------------
(***************************************************************************)
(* The report of scripts/flake_update.py, `update`: the builds before and  *)
(* after, vulnix's scans of both with their attempts, and what of them is  *)
(* reported, within the job's time.  Time is in half minutes.              *)
(***************************************************************************)
EXTENDS Integers, FiniteSets

CONSTANTS
  Systems,     \* what the systems may have: CVE ids by package
  Attempts,    \* attempts of the first scan
  BuildLimit,  \* bound: the time a build takes
  ScanLimit,   \* vulnix's timeout=600
  JobLimit     \* the job's timeout-minutes

ASSUME ReportAssumption ==
  /\ Attempts = 3
  /\ BuildLimit \in Nat /\ ScanLimit \in Nat /\ JobLimit \in Nat
  /\ 2 * BuildLimit + 4 * ScanLimit + 3 <= JobLimit

VARIABLES
  reportAt,   \* where `update` is: "stopped" by the job's limit, "failed" by an error
  attempt, \* of the scan that is under way
  spent,   \* the job's time
  system,  \* the old and the new system, as built
  cves,    \* old_cves and new_cves; empty without a result
  written  \* the CVE part of report.md

reportVars == <<reportAt, attempt, spent, system, cves, written>>

NotWritten == [compared |-> FALSE, fixed |-> {}, added |-> {}]

ReportInit ==
  /\ reportAt = "before" /\ attempt = 1 /\ spent = 0
  /\ system \in [{"old", "new"} -> Systems]
  /\ cves = [which \in {"old", "new"} |-> {}]
  /\ written = NotWritten

\* The next stage, unless the job's time ends before it.
Takes(time, next) ==
  /\ spent' = spent + time
  /\ reportAt' = IF spent + time > JobLimit THEN "stopped" ELSE next

\* build_toplevel, before the lock moves and after; it fails the job.
Build(from, next) ==
  /\ reportAt = from
  /\ \E time \in {0, BuildLimit} : Takes(time, next) \/ Takes(time, "failed")
  /\ UNCHANGED <<attempt, system, cves, written>>

\* A lock that did not change ends the report without scans.
BuildOld == Build("before", "update")

Unchanged ==
  /\ reportAt = "update" /\ reportAt' = "done"
  /\ UNCHANGED <<attempt, spent, system, cves, written>>

BuildNew == Build("update", "old")

\* What vulnix may end with: exit code and JSON list, if it printed one.  It
\* lists a package once, and only packages that have CVEs; it exits 2 if there
\* are any, but also on an error of its own.
Results(found) ==
  LET hit == {p \in DOMAIN found : found[p] # {}}
  IN  {[code |-> IF hit = {} THEN 0 ELSE 2, lists |-> {[p \in hit |-> found[p]]}],
       [code |-> 2, lists |-> {[p \in {} |-> {}]}],
       [code |-> 2, lists |-> {}],
       [code |-> 1, lists |-> {[p \in hit |-> found[p]]}]}

\* (Mutant) Any list is a result.
ReadResultAny(result) == IF result.code \in {0, 2} THEN result.lists ELSE {}

\* vulnix_once: the result, if it counts as one.
ReadResult(result) ==
  {list \in result.lists : result.code = 0 \/ (result.code = 2 /\ DOMAIN list # {})}

AttemptsOf(which) == IF which = "old" THEN Attempts ELSE 1

\* The scan of the new system, only after one of the old system.
ScannedNext(which) == IF which = "old" THEN "new" ELSE "write"

\* vulnix: an attempt that has a result, or the last one without.
Scanned(which, list, time) ==
  /\ cves' = [cves EXCEPT ![which] = list]
  /\ Takes(time, IF list = {} THEN "write" ELSE ScannedNext(which)) /\ attempt' = 1
  /\ UNCHANGED <<system, written>>

ScanEnds(which) ==
  /\ reportAt = which
  /\ \E time \in {0, ScanLimit} : \E result \in Results(system[which]) :
       /\ ReadResult(result) # {} \/ attempt = AttemptsOf(which)
       /\ Scanned(which, ReadResult(result), time)

\* Stopped after ten minutes, the last time.
ScanTimesOut(which) ==
  reportAt = which /\ attempt = AttemptsOf(which) /\ Scanned(which, {}, ScanLimit)

\* Without a result, and after a pause again.
ScanAgain(which) ==
  /\ reportAt = which /\ attempt < AttemptsOf(which)
  /\ \E time \in {0, ScanLimit} :
       /\ time = ScanLimit \/ \E result \in Results(system[which]) : ReadResult(result) = {}
       /\ Takes(time + attempt, which)
  /\ attempt' = attempt + 1 /\ UNCHANGED <<system, cves, written>>

CvesOf(list) == UNION {list[p] : p \in DOMAIN list}

\* cve_diff.
CveDiff ==
  IF cves.old = {} \/ cves.new = {} THEN NotWritten
  ELSE LET old == UNION {CvesOf(list) : list \in cves.old}
           new == UNION {CvesOf(list) : list \in cves.new}
       IN  [compared |-> TRUE, fixed |-> old \ new, added |-> new \ old]

Write ==
  /\ reportAt = "write" /\ reportAt' = "done"
  /\ written' = CveDiff
  /\ UNCHANGED <<attempt, spent, system, cves>>

Scan(which) == ScanEnds(which) \/ ScanTimesOut(which) \/ ScanAgain(which)

ReportNext ==
  \/ BuildOld \/ Unchanged \/ BuildNew
  \/ \E which \in {"old", "new"} : Scan(which)
  \/ Write

ReportSpec == ReportInit /\ [][ReportNext]_reportVars

---------------------------------------------------------------------------

ReportTypeOK ==
  /\ reportAt \in {"before", "update", "old", "new", "write", "done", "failed", "stopped"}
  /\ attempt \in 1..Attempts /\ spent \in Nat
  /\ written.compared \in BOOLEAN

\* Builds that are no slower than the bound and an outage of whatever length
\* leave the job the time to write its report.
InTime == reportAt # "stopped"

\* A report compares only what was found in both systems: no error of vulnix,
\* whatever it prints and exits with, passes for a system without CVEs.
ComparesWhatIs ==
  written.compared =>
    /\ written.fixed = CvesOf(system.old) \ CvesOf(system.new)
    /\ written.added = CvesOf(system.new) \ CvesOf(system.old)

\* The job ends with its report, and the report says what is.
ReportIsRight == InTime /\ ComparesWhatIs
=============================================================================
