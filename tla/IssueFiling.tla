---------------------------- MODULE IssueFiling -----------------------------
(***************************************************************************)
(* scripts/file_issues.py: a run files the tickets of scripts/tickets.py   *)
(* as GitHub issues, one request after another, and may end at any of      *)
(* them; the operator runs it again, and edits and closes issues at any    *)
(* time.  A body is its version and the tickets it names, by their plan    *)
(* number or by their issue's.                                             *)
(***************************************************************************)
EXTENDS Naturals, Sequences, FiniteSets, SequencesExt

CONSTANTS
  Plans,       \* what tickets.py may hold
  Titles,      \* the titles of MILESTONES, in order
  Labels,      \* LABELS
  Other,       \* a title that no ticket, milestone or label has
  PageSize,    \* per_page
  MaxIssues,   \* bound: issues and pull requests
  MaxEdits,    \* bound: edits of bodies
  MaxRuns      \* bound: runs

\* tickets.py holds tuples of an id `phase.n`, a title, labels and the tickets
\* that the body names.
ASSUME IssueAssumption ==
  /\ PageSize \in Nat \ {0} /\ MaxIssues \in Nat /\ MaxEdits \in Nat /\ MaxRuns \in Nat
  /\ DOMAIN Titles = 1..Len(Titles) /\ Len(Titles) \in Nat /\ Other \notin Range(Titles)
  /\ \A tickets \in Plans :
       /\ DOMAIN tickets = 1..Len(tickets) /\ Len(tickets) \in Nat
       /\ \A k \in DOMAIN tickets :
            /\ tickets[k].id \in Nat \X Nat
            /\ tickets[k].id # Other /\ tickets[k].title # Other

VARIABLES
  plan,        \* TICKETS, as records [id, title, labels, refs]
  issues,      \* GitHub: its issues and pull requests, by number
  milestones,  \* its milestones, by number
  labels,      \* its labels
  edits, runs, \* histories: how many there were
  stage,        \* where the run is; "idle" without one, "done" after one that ended well
  at,          \* the ticket, milestone or page it is at
  haveLabels,  \* have_labels
  existing,    \* `existing`: the number and body of the issue of each title
  num,         \* id_to_num, by the ticket's place in the plan
  created,     \* `created`, likewise
  edited       \* history: the issues edited since this run listed them

githubVars == <<issues, milestones, labels>>
fileVars == <<stage, at, haveLabels, existing, num, created>>
issueVars == <<plan, githubVars, edits, runs, fileVars, edited>>

Ids == {plan[k].id : k \in DOMAIN plan}
Body(version, raw, links) == [version |-> version, raw |-> raw, links |-> links]

\* Issue bodies that name nobody: of what is no ticket.
OtherIssue(title, pull) ==
  [title |-> title, pull |-> pull, open |-> TRUE, milestone |-> 0, body |-> Body(0, {}, {}), ticket |-> Other]

\* `check`: the ticket data is in order.
Check(tickets) ==
  LET ids == [k \in DOMAIN tickets |-> tickets[k].id]
      NoLater(a, b) == a[1] < b[1] \/ (a[1] = b[1] /\ a[2] <= b[2])
  IN  /\ IsInjective(ids)
      /\ IsInjective([k \in DOMAIN tickets |-> tickets[k].title])
      /\ \A j, k \in DOMAIN tickets : j <= k => NoLater(ids[j], ids[k])
      /\ \A k \in DOMAIN tickets :
           /\ tickets[k].id[1] < Len(Titles) /\ tickets[k].labels \subseteq Labels
           /\ tickets[k].refs \subseteq {ids[j] : j \in DOMAIN tickets}

IssueInit ==
  /\ plan \in Plans
  /\ issues = <<>> /\ milestones \in {<<>>, <<Other>>} /\ labels = {} /\ edits = 0 /\ runs = 0
  /\ stage = "idle" /\ at = 1 /\ haveLabels = {} /\ existing = <<>> /\ num = <<>> /\ created = {}
  /\ edited = {}

To(where, k) == stage' = where /\ at' = k

FilingEnds ==
  /\ To("idle", 1)
  /\ haveLabels' = {} /\ existing' = <<>> /\ num' = <<>> /\ created' = {}

---------------------------------------------------------------------------
\* The run.  A request is answered, or it fails and ends the run: also after
\* GitHub did what it asked.

StartFiling ==
  /\ stage \in {"idle", "done"} /\ runs < MaxRuns /\ Check(plan)
  /\ runs' = runs + 1 /\ To("milestones", 1)
  /\ haveLabels' = {} /\ existing' = <<>> /\ num' = <<>> /\ created' = {} /\ edited' = {}
  /\ UNCHANGED <<plan, githubVars, edits>>

\* Each milestone that is missing.
Milestone ==
  /\ stage = "milestones"
  /\ IF at > Len(Titles)
     THEN To("labels", 1) /\ haveLabels' = labels /\ UNCHANGED <<milestones, existing, num, created>>
     ELSE IF Titles[at] \in Range(milestones)
     THEN To("milestones", at + 1) /\ UNCHANGED <<milestones, haveLabels, existing, num, created>>
     ELSE /\ milestones' = Append(milestones, Titles[at])
          /\ \/ To("milestones", at + 1) /\ UNCHANGED <<haveLabels, existing, num, created>>
             \/ FilingEnds
  /\ UNCHANGED <<plan, issues, labels, edits, runs, edited>>

\* Each label that was missing: 422 says that somebody made it meanwhile.
Label ==
  /\ stage = "labels"
  /\ IF Labels \subseteq haveLabels
     THEN To("list", 1) /\ UNCHANGED <<labels, haveLabels, existing, num, created>>
     ELSE \E label \in Labels \ haveLabels :
            /\ labels' = labels \cup {label}
            /\ \/ haveLabels' = haveLabels \cup {label} /\ UNCHANGED <<stage, at, existing, num, created>>
               \/ FilingEnds
  /\ UNCHANGED <<plan, issues, milestones, edits, runs, edited>>

\* state=all.
Listed(n) == TRUE

\* Its place in the list, newest first.
Rank(n) == Cardinality({k \in DOMAIN issues : Listed(k) /\ n <= k})

\* A page of the list, as it is when the page is asked for.
Page(p) == {n \in DOMAIN issues : Listed(n) /\ Rank(n) \in ((p - 1) * PageSize + 1)..(p * PageSize)}

IsIssue(n) == ~ issues[n].pull

\* The last of a page's issues of a title, which stays.
LastOf(page, title) ==
  LET ofTitle == {n \in page : IsIssue(n) /\ issues[n].title = title}
  IN  CHOOSE n \in ofTitle : \A k \in ofTitle : n <= k

List ==
  /\ stage = "list"
  /\ LET page == Page(at)
         found == {issues[n].title : n \in {k \in page : IsIssue(k)}}
     IN  /\ existing' = [title \in DOMAIN existing \cup found |->
              IF title \in found
              THEN LET last == LastOf(page, title) IN [number |-> last, body |-> issues[last].body]
              ELSE existing[title]]
         /\ edited' = edited \ page
         /\ IF Cardinality(page) < PageSize THEN To("create", 1) ELSE To("list", at + 1)
  /\ UNCHANGED <<plan, githubVars, edits, runs, haveLabels, num, created>>

\* The milestone of that title, whatever its number.
MilestoneOf(k) == CHOOSE n \in DOMAIN milestones : milestones[n] = Titles[plan[k].id[1] + 1]

Create ==
  /\ stage = "create"
  /\ IF at > Len(plan)
     THEN To("rewrite", 1) /\ UNCHANGED <<issues, haveLabels, existing, num, created>>
     ELSE IF plan[at].title \in DOMAIN existing
     THEN /\ num' = Append(num, existing[plan[at].title].number)
          /\ To("create", at + 1) /\ UNCHANGED <<issues, haveLabels, existing, created>>
     ELSE /\ Len(issues) < MaxIssues
          /\ issues' = Append(issues,
               [title |-> plan[at].title, pull |-> FALSE, open |-> TRUE, milestone |-> MilestoneOf(at),
                body |-> Body(0, plan[at].refs, {}), ticket |-> plan[at].id])
          /\ \/ /\ num' = Append(num, Len(issues) + 1) /\ created' = created \cup {at}
                /\ To("create", at + 1) /\ UNCHANGED <<haveLabels, existing>>
             \/ FilingEnds
  /\ UNCHANGED <<plan, milestones, labels, edits, runs, edited>>

NumberOf(id) == num[CHOOSE k \in DOMAIN plan : plan[k].id = id]

\* (Mutant) From tickets.py, as it was filed.
SourcePlan(k) == Body(0, plan[k].refs, {})

\* (Mutant) Only those that this run created, as the file's head says.
SourceCreated(k) ==
  IF k \in created THEN Body(0, plan[k].refs, {}) ELSE [existing[plan[k].title].body EXCEPT !.raw = {}]

\* The remote body, of an issue that was there: as the list had it.
Source(k) == IF k \in created THEN Body(0, plan[k].refs, {}) ELSE existing[plan[k].title].body

\* References to tickets become links.
Rewritten(body) ==
  Body(body.version, body.raw \ Ids, body.links \cup {<<id, NumberOf(id)>> : id \in body.raw \cap Ids})

Rewrite ==
  /\ stage = "rewrite"
  /\ IF at > Len(plan)
     THEN To("done", 1) /\ UNCHANGED <<issues, haveLabels, existing, num, created>>
     ELSE IF Rewritten(Source(at)) = Source(at)
     THEN To("rewrite", at + 1) /\ UNCHANGED <<issues, haveLabels, existing, num, created>>
     ELSE /\ issues' = [issues EXCEPT ![num[at]].body = Rewritten(Source(at))]
          /\ \/ To("rewrite", at + 1) /\ UNCHANGED <<haveLabels, existing, num, created>>
             \/ FilingEnds
  /\ UNCHANGED <<plan, milestones, labels, edits, runs, edited>>

\* A request fails with nothing done, or the run is killed.
Fails ==
  /\ stage \notin {"idle", "done"} /\ FilingEnds
  /\ UNCHANGED <<plan, githubVars, edits, runs, edited>>

---------------------------------------------------------------------------
\* On GitHub.

Opens(title, pull) ==
  /\ Len(issues) < MaxIssues /\ issues' = Append(issues, OtherIssue(title, pull))
  /\ UNCHANGED <<plan, milestones, labels, edits, runs, fileVars, edited>>

\* Another text, that may name a ticket by its plan number.
Edit(n) ==
  /\ edits < MaxEdits /\ edits' = edits + 1
  /\ \E raw \in {{}} \cup {{id} : id \in Ids} :
       issues' = [issues EXCEPT ![n].body = Body(edits + 1, @.raw \cup raw, @.links)]
  /\ edited' = edited \cup {n}
  /\ UNCHANGED <<plan, milestones, labels, runs, fileVars>>

CloseIssue(n) ==
  /\ issues[n].open /\ issues' = [issues EXCEPT ![n].open = FALSE]
  /\ UNCHANGED <<plan, milestones, labels, edits, runs, fileVars, edited>>

\* (At any other time it is the same as before or after the run.)
AddLabel(label) ==
  /\ stage = "labels" /\ labels' = labels \cup {label}
  /\ UNCHANGED <<plan, issues, milestones, edits, runs, fileVars, edited>>

IssueNext ==
  \/ StartFiling \/ Milestone \/ Label \/ List \/ Create \/ Rewrite \/ Fails
  \/ Opens(Other, FALSE) \/ \E k \in DOMAIN plan : Opens(plan[k].title, TRUE)
  \/ \E n \in {m \in DOMAIN issues : issues[m].ticket # Other} : Edit(n) \/ CloseIssue(n)
  \/ \E label \in Labels : AddLabel(label)

IssueSpec == IssueInit /\ [][IssueNext]_issueVars

---------------------------------------------------------------------------

IssueTypeOK ==
  /\ Len(issues) <= MaxIssues /\ edits \in 0..MaxEdits /\ runs \in 0..MaxRuns
  /\ stage \in {"idle", "milestones", "labels", "list", "create", "rewrite", "done"}
  /\ at \in Nat \ {0} /\ labels \subseteq Labels /\ haveLabels \subseteq labels
  /\ Range(num) \subseteq DOMAIN issues /\ created \subseteq DOMAIN num
  /\ edited \subseteq DOMAIN issues
  /\ \A title \in DOMAIN existing : existing[title].number \in DOMAIN issues

\* However many runs end at whatever request, and whatever is opened between
\* two pages of the list, no ticket is filed twice.
NoDuplicates ==
  \A m, n \in DOMAIN issues :
    ~ issues[m].pull /\ ~ issues[n].pull /\ issues[m].title = issues[n].title /\ issues[m].title # Other
      => m = n

\* Every number that a run writes in an issue is of what it is meant to be: the
\* milestone of its phase, and the issue filed for the ticket that a link is of.
NumbersRight ==
  \A n \in DOMAIN issues :
    /\ issues[n].ticket # Other => milestones[issues[n].milestone] = Titles[issues[n].ticket[1] + 1]
    /\ \A link \in issues[n].body.links : issues[link[2]].ticket = link[1]

\* After a run that ended well every ticket has its issue, and no body names a
\* ticket by its plan number, but those edited since the run listed them: also
\* when the run that filed them died before it rewrote them.
DoneMeansFiled ==
  stage = "done" =>
    /\ \A k \in DOMAIN plan : \E n \in DOMAIN issues : issues[n].ticket = plan[k].id
    /\ \A n \in DOMAIN issues \ edited : issues[n].ticket # Other => issues[n].body.raw \cap Ids = {}

\* Every ticket is filed once, and what names it means it.
IssuesFiled == NoDuplicates /\ NumbersRight /\ DoneMeansFiled

\* A body edited on GitHub keeps its text, unless it was edited while a run was
\* between its list and its last request.
EditsKept ==
  [][\A i \in DOMAIN issues : issues'[i].body.version < issues[i].body.version => i \in edited]_issueVars
=============================================================================
