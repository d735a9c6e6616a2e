------------------------------ MODULE QueryLog ------------------------------
(***************************************************************************)
(* dns/querylog-cap.sql and its unit in dns/querylog.nix: the job that     *)
(* trims the table of DNS queries to its cap, one statement after another, *)
(* while Blocky writes to the table and deletes what is old, and           *)
(* PostgreSQL counts and vacuums it.  A row is its instant, and the table  *)
(* is its rows, the newest first.                                          *)
(***************************************************************************)
EXTENDS Integers, Sequences, FiniteSets

CONSTANTS
  Caps,       \* what the cap may be, in bytes
  Widths,     \* what a row and its share of the indexes may be estimated at
  RowBytes,   \* what they take
  MinKeep,    \* 1000
  None,       \* no cutoff
  MaxTime,    \* bound: instants
  MaxRows,    \* bound: rows in the table
  MaxWritten, \* bound: rows written
  MaxKills    \* bound: runs that are cut short

ASSUME LogAssumption ==
  /\ Caps \subseteq Nat /\ Widths \subseteq Nat /\ MinKeep \in Nat
  /\ MaxTime \in Nat \ {0} /\ MaxRows \in Nat /\ MaxWritten \in Nat /\ MaxKills \in Nat

VARIABLES
  cap, width,  \* the configuration, and the estimate
  rows,        \* the instants of log_entries
  latest,      \* the instant of the last query
  written,     \* how many rows were written
  dead,        \* rows deleted and not vacuumed
  fileRows,    \* the rows that the file has room for
  reltuples,   \* PostgreSQL's estimate of the rows; -1 before the first
  capAt,       \* where the job is
  estimate,    \* `n`
  live, cutoff,
  kills,       \* history: the runs cut short
  asked,       \* history: the rows written when the last cutoff was read
  trimmed      \* history: the same for the last trim, -1 before it

tableVars == <<rows, latest, written, dead, fileRows, reltuples>>
jobVars == <<capAt, estimate, live, cutoff>>
historyVars == <<asked, trimmed>>
logVars == <<cap, width, tableVars, jobVars, kills, historyVars>>

Larger(a, b) == IF a > b THEN a ELSE b

\* The rows after t, which are the first of them.
Newer(t) == SubSeq(rows, 1, Cardinality({i \in DOMAIN rows : rows[i] > t}))

LogInit ==
  /\ cap \in Caps /\ width \in Widths
  /\ rows = <<>> /\ latest = 1 /\ written = 0 /\ dead = 0 /\ fileRows = 0 /\ reltuples = -1
  /\ capAt = "-" /\ estimate = 0 /\ live = 0 /\ cutoff = None
  /\ kills = 0 /\ asked = 0 /\ trimmed = -1

---------------------------------------------------------------------------
\* The job: each statement is a transaction of its own.

CapEnds == capAt' = "-" /\ estimate' = 0 /\ live' = 0 /\ cutoff' = None

CapStarts ==
  /\ capAt = "-" /\ capAt' = "gate"
  /\ UNCHANGED <<cap, width, tableVars, estimate, live, cutoff, kills, historyVars>>

\* pg_total_relation_size: what was deleted stays in the file.
Gate ==
  /\ capAt = "gate"
  /\ IF fileRows * RowBytes > cap THEN capAt' = "count" /\ UNCHANGED <<estimate, live, cutoff>> ELSE CapEnds
  /\ UNCHANGED <<cap, width, tableVars, kills, historyVars>>

Count ==
  /\ capAt = "count" /\ capAt' = "estimate"
  /\ estimate' = (IF reltuples >= 0 THEN reltuples ELSE Len(rows))
  /\ UNCHANGED <<cap, width, tableVars, live, cutoff, kills, historyVars>>

\* (Mutant) The file's size, as the measure.
LiveFile == fileRows * RowBytes

\* An empty table has no average.
Live == IF rows = <<>> THEN 0 ELSE width * estimate

EstimateLive ==
  /\ capAt = "estimate"
  /\ IF Live > cap THEN capAt' = "cutoff" /\ live' = Live /\ UNCHANGED <<estimate, cutoff>> ELSE CapEnds
  /\ UNCHANGED <<cap, width, tableVars, kills, historyVars>>

\* (Mutant) The margin upside down.
KeepOver == Larger((estimate * 10 * cap) \div (8 * live), MinKeep)

\* The rows that fit in four fifths of the cap, but never fewer than MinKeep.
Keep == Larger((estimate * 8 * cap) \div (10 * live), MinKeep)

\* The newest row that is not kept, if there is one.
ReadCutoff ==
  /\ capAt = "cutoff"
  /\ IF Len(rows) > Keep
     THEN /\ cutoff' = rows[Keep + 1] /\ capAt' = "delete" /\ asked' = written
          /\ UNCHANGED <<estimate, live>>
     ELSE CapEnds /\ UNCHANGED asked
  /\ UNCHANGED <<cap, width, tableVars, kills, trimmed>>

DeleteOld ==
  /\ capAt = "delete" /\ capAt' = "vacuum"
  /\ rows' = Newer(cutoff) /\ dead' = dead + Len(rows) - Len(Newer(cutoff))
  /\ trimmed' = asked
  /\ UNCHANGED <<cap, width, latest, written, fileRows, reltuples, estimate, live, cutoff, kills, asked>>

Vacuum ==
  /\ capAt = "vacuum" /\ CapEnds
  /\ dead' = 0 /\ reltuples' = Len(rows)
  /\ UNCHANGED <<cap, width, rows, latest, written, fileRows, kills, historyVars>>

\* TimeoutStartSec, or a reboot.
Killed ==
  /\ capAt # "-" /\ kills < MaxKills /\ kills' = kills + 1 /\ CapEnds
  /\ UNCHANGED <<cap, width, tableVars, historyVars>>

CapStep == Gate \/ Count \/ EstimateLive \/ ReadCutoff \/ DeleteOld \/ Vacuum

---------------------------------------------------------------------------
\* Blocky and PostgreSQL.

\* A query, at the instant of the last one or later.  A vacuumed row's place is
\* used again.
WriteRow(t) ==
  /\ written < MaxWritten /\ Len(rows) < MaxRows /\ t >= latest
  /\ latest' = t /\ rows' = <<t>> \o rows /\ written' = written + 1
  /\ fileRows' = Larger(fileRows, Len(rows) + 1 + dead)
  /\ UNCHANGED <<cap, width, dead, reltuples, jobVars, kills, historyVars>>

\* logRetentionDays: the rows of the oldest instant, which is days ago.
Retention ==
  /\ rows # <<>> /\ rows[Len(rows)] < latest /\ rows' = Newer(rows[Len(rows)])
  /\ dead' = dead + Len(rows) - Len(rows')
  /\ UNCHANGED <<cap, width, latest, written, fileRows, reltuples, jobVars, kills, historyVars>>

Autovacuum ==
  /\ reltuples # Len(rows) \/ dead # 0
  /\ dead' = 0 /\ reltuples' = Len(rows)
  /\ UNCHANGED <<cap, width, rows, latest, written, fileRows, jobVars, kills, historyVars>>

LogNext ==
  \/ CapStarts \/ CapStep \/ Killed
  \/ \E t \in 1..MaxTime : WriteRow(t)
  \/ Retention \/ Autovacuum

LogSpec == LogInit /\ [][LogNext]_logVars

\* The timer, the job once it runs, and PostgreSQL's upkeep of its estimate.
LogFair == WF_logVars(CapStarts) /\ WF_logVars(CapStep) /\ WF_logVars(Autovacuum)

---------------------------------------------------------------------------

LogTypeOK ==
  /\ cap \in Caps /\ width \in Widths /\ rows \in Seq(1..MaxTime) /\ Len(rows) <= MaxRows /\ latest \in 1..MaxTime
  /\ written \in 0..MaxWritten /\ dead \in 0..MaxWritten /\ fileRows \in 0..MaxWritten
  /\ reltuples \in -1..MaxRows /\ estimate \in 0..MaxRows /\ live \in Nat
  /\ cutoff \in {None} \cup (1..MaxTime)
  /\ capAt \in {"-", "gate", "count", "estimate", "cutoff", "delete", "vacuum"}
  /\ kills \in 0..MaxKills /\ asked \in 0..MaxWritten /\ trimmed \in -1..MaxWritten
  /\ \A i, j \in DOMAIN rows : i <= j => rows[i] >= rows[j] /\ latest >= rows[i]

\* A trim that deletes something.
Trims == capAt = "delete" /\ capAt' = "vacuum" /\ Len(rows') < Len(rows)

\* A trim leaves the minimum, but for the rows of the cutoff's own instant, with
\* whatever Blocky wrote or deleted since the cutoff was read, however wrong the
\* estimate.
Spares == Len(rows') + Cardinality({i \in DOMAIN rows : rows[i] = cutoff}) > MinKeep

\* The trims do not eat the log: each leaves the minimum, and follows rows written
\* since the last, though the file stays over the cap, runs are killed between the
\* delete and the vacuum, and the count of the rows is old.
NoCreep == [][Trims => Spares /\ asked > trimmed]_logVars

\* The log comes back under its cap, by the estimate, or to its minimum.
EndsUnderCap ==
  []<>(Len(rows) * width <= cap \/ Len(rows) * RowBytes <= cap \/ Len(rows) <= MinKeep)
=============================================================================
