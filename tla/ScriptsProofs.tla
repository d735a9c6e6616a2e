---------------------------- MODULE ScriptsProofs ----------------------------
(***************************************************************************)
(* Proofs about the filing of the issues, for any plan, page size and any  *)
(* numbers of issues, edits and runs, and about the types of all scripts.  *)
(***************************************************************************)
EXTENDS MCScripts, FlakeUpdateProofs, FiniteSetTheorems, TLAPS

(***************************************************************************)
(* The filing of the issues.                                               *)
(***************************************************************************)

IssueBody == [version : Nat, raw : SUBSET Ids, links : SUBSET (Ids \X Nat)]

Issue ==
  [title : {plan[k].title : k \in DOMAIN plan} \cup {Other}, pull : BOOLEAN, open : BOOLEAN,
   milestone : Nat, body : IssueBody, ticket : Ids \cup {Other}]

\* Types, and that only a plan that was checked is filed.
FilingTypes ==
  /\ plan \in Plans
  /\ issues \in Seq(Issue) /\ Len(issues) <= MaxIssues
  /\ milestones \in Seq(Range(Titles) \cup {Other})
  /\ edits \in 0..MaxEdits /\ runs \in 0..MaxRuns /\ labels \subseteq Labels /\ haveLabels \subseteq labels
  /\ stage \in {"idle", "milestones", "labels", "list", "create", "rewrite", "done"}
  /\ at \in Nat \ {0}
  /\ stage # "idle" => Check(plan)
  /\ edited \subseteq DOMAIN issues

\* A link is to the issue of the ticket that it names.
LinksRight(body) ==
  \A link \in body.links : link[2] \in DOMAIN issues /\ issues[link[2]].ticket = link[1]

\* Every issue is somebody's, or filed for a ticket of the plan as it says.
IssueRight(i) ==
  /\ issues[i].ticket = Other => issues[i].pull \/ issues[i].title = Other
  /\ issues[i].ticket # Other =>
       /\ Check(plan) /\ ~ issues[i].pull
       /\ \E k \in DOMAIN plan : issues[i].ticket = plan[k].id /\ issues[i].title = plan[k].title
       /\ issues[i].milestone \in DOMAIN milestones
       /\ milestones[issues[i].milestone] = Titles[issues[i].ticket[1] + 1]
  /\ LinksRight(issues[i].body)
  /\ issues[i].body.version <= edits

\* What the run knows of the issues there are, and of those it has filed.
Known(title) ==
  /\ existing[title].number \in DOMAIN issues
  /\ issues[existing[title].number].title = title /\ ~ issues[existing[title].number].pull
  /\ existing[title].body \in IssueBody /\ LinksRight(existing[title].body)
  /\ existing[title].body.version <= edits

Numbered(k) ==
  /\ k \in DOMAIN plan /\ num[k] \in DOMAIN issues /\ issues[num[k]].ticket = plan[k].id
  /\ k \notin created => plan[k].title \in DOMAIN existing /\ existing[plan[k].title].number = num[k]

RunInv ==
  /\ \A title \in DOMAIN existing : Known(title)
  /\ num \in Seq(Nat) /\ created \subseteq DOMAIN num
  /\ \A k \in DOMAIN num : Numbered(k)
  /\ stage \in {"idle", "milestones", "labels"} => existing = <<>>
  /\ stage \in {"idle", "milestones", "labels", "list"} => num = <<>>
  /\ stage = "create" => at = Len(num) + 1 /\ Len(num) <= Len(plan)
  /\ stage \in {"rewrite", "done"} => Len(num) = Len(plan)
  /\ stage = "rewrite" => at <= Len(plan) + 1

\* The milestones that the run has passed.
MilestonesInv ==
  /\ stage = "milestones" => at <= Len(Titles) + 1 /\ \A k \in 1..(at - 1) : Titles[k] \in Range(milestones)
  /\ stage \in {"labels", "list", "create"} => Range(Titles) \subseteq Range(milestones)

\* The tickets on the pages that were read, whatever came since, and those that
\* the run has created since: all that have an issue.
ListInv ==
  \A i \in DOMAIN issues :
    issues[i].ticket # Other =>
      /\ stage = "list" /\ Rank(i) <= (at - 1) * PageSize => issues[i].title \in DOMAIN existing
      /\ stage = "create" =>
           issues[i].title \in DOMAIN existing
           \/ \E k \in DOMAIN plan : issues[i].ticket = plan[k].id /\ k < at

\* The bodies that the run has read, and still has to rewrite, and those it has
\* rewritten.
BodiesInv ==
  /\ stage \in {"list", "create"} =>
       \A title \in DOMAIN existing :
         existing[title].number \notin edited =>
           issues[existing[title].number].body = existing[title].body
  /\ \A k \in DOMAIN num :
       num[k] \notin edited /\ (stage = "create" \/ (stage = "rewrite" /\ at <= k)) =>
         issues[num[k]].body = Source(k)
  /\ \A k \in DOMAIN num :
       num[k] \notin edited /\ (stage = "done" \/ (stage = "rewrite" /\ k < at)) =>
         issues[num[k]].body.raw = {}

IssuesInv == (\A i \in DOMAIN issues : IssueRight(i)) /\ NoDuplicates

FilingInv == FilingTypes /\ IssuesInv /\ RunInv /\ MilestonesInv /\ ListInv /\ BodiesInv

---------------------------------------------------------------------------
\* The plan.
LEMMA PlanRight ==
  ASSUME plan \in Plans
  PROVE  /\ DOMAIN plan = 1..Len(plan) /\ Len(plan) \in Nat
         /\ \A k \in DOMAIN plan : plan[k].id \in Nat \X Nat /\ plan[k].id \in Ids
         /\ \A k \in DOMAIN plan : plan[k].id # Other /\ plan[k].title # Other
         /\ Other \notin Ids
BY IssueAssumption DEF Ids

\* What the check says of it.
LEMMA CheckRight ==
  ASSUME plan \in Plans, Check(plan)
  PROVE  /\ \A j, k \in DOMAIN plan : plan[j].id = plan[k].id => j = k
         /\ \A j, k \in DOMAIN plan : plan[j].title = plan[k].title => j = k
         /\ \A k \in DOMAIN plan : plan[k].refs \subseteq Ids /\ plan[k].id[1] + 1 \in DOMAIN Titles
<1> DEFINE ids == [k \in DOMAIN plan |-> plan[k].id]
           titles == [k \in DOMAIN plan |-> plan[k].title]
<1>1. IsInjective(ids) /\ IsInjective(titles)
  BY DEF Check
<1>2. \A k \in DOMAIN plan : plan[k].id[1] < Len(Titles) /\ plan[k].refs \subseteq Ids
  BY DEF Check, Ids
<1>3. \A k \in DOMAIN plan : plan[k].id[1] + 1 \in DOMAIN Titles
  BY <1>2, PlanRight, IssueAssumption
<1>4. \A j, k \in DOMAIN plan : ids[j] = ids[k] => j = k
  BY <1>1 DEF IsInjective
<1>5. \A j, k \in DOMAIN plan : titles[j] = titles[k] => j = k
  BY <1>1 DEF IsInjective
<1> QED BY <1>2, <1>3, <1>4, <1>5

---------------------------------------------------------------------------
\* Sequences that grow, and issues whose bodies change.

\* What Append leaves and adds.
LEMMA Grown ==
  ASSUME NEW S, NEW s \in Seq(S), NEW x \in S, NEW t, t = Append(s, x)
  PROVE  /\ t \in Seq(S) /\ Len(t) = Len(s) + 1
         /\ DOMAIN t = DOMAIN s \cup {Len(s) + 1} /\ Len(s) + 1 \notin DOMAIN s
         /\ t[Len(s) + 1] = x /\ \A k \in DOMAIN s : t[k] = s[k]
OBVIOUS

\* What no step changes of an issue.
Keeps ==
  /\ plan' = plan /\ DOMAIN issues \subseteq DOMAIN issues'
  /\ \A i \in DOMAIN issues :
       /\ issues'[i].title = issues[i].title /\ issues'[i].pull = issues[i].pull
       /\ issues'[i].ticket = issues[i].ticket

\* A step that writes one body changes nothing else of any issue.
LEMMA Changed ==
  ASSUME issues \in Seq(Issue), NEW i \in DOMAIN issues, NEW body \in IssueBody, plan' = plan,
         issues' = [issues EXCEPT ![i].body = body]
  PROVE  /\ issues' \in Seq(Issue') /\ Len(issues') = Len(issues) /\ DOMAIN issues' = DOMAIN issues /\ Keeps
         /\ issues'[i].body = body
         /\ \A k \in DOMAIN issues : issues'[k].milestone = issues[k].milestone
         /\ \A k \in DOMAIN issues \ {i} : issues'[k].body = issues[k].body
<1>1. Issue' = Issue
  BY DEF Issue, IssueBody, Ids
<1>2. PICK S : S = Issue
  OBVIOUS
<1>3. issues[i] \in Issue
  OBVIOUS
<1>4. [issues[i] EXCEPT !.body = body] \in Issue
  BY <1>3 DEF Issue
<1>5. issues' = [issues EXCEPT ![i] = [issues[i] EXCEPT !.body = body]]
  OBVIOUS
<1>6. PICK x : x = [issues[i] EXCEPT !.body = body]
  OBVIOUS
<1>7. /\ x.title = issues[i].title /\ x.pull = issues[i].pull /\ x.ticket = issues[i].ticket
      /\ x.milestone = issues[i].milestone /\ x.body = body
  BY <1>3, <1>6 DEF Issue
<1>8. /\ issues' \in Seq(S) /\ Len(issues') = Len(issues) /\ DOMAIN issues' = DOMAIN issues
      /\ issues'[i] = x /\ \A k \in DOMAIN issues \ {i} : issues'[k] = issues[k]
  BY <1>2, <1>4, <1>5, <1>6
<1> QED BY <1>1, <1>2, <1>7, <1>8 DEF Keeps

---------------------------------------------------------------------------
\* The issues there are, whatever happens to them.

\* A link that is right stays so.
LEMMA LinksStay ==
  ASSUME Keeps, NEW body, LinksRight(body)
  PROVE  LinksRight(body)'
BY DEF LinksRight, Keeps

\* Milestones are only added.
LEMMA IssuesStay ==
  ASSUME FilingTypes, IssuesInv, UNCHANGED <<plan, issues, edits>>,
         milestones' = milestones \/ \E title \in Range(Titles) : milestones' = Append(milestones, title)
  PROVE  IssuesInv'
<1>1. DOMAIN milestones \subseteq DOMAIN milestones' /\ \A k \in DOMAIN milestones : milestones'[k] = milestones[k]
  <2>1. CASE milestones' = milestones
    BY <2>1
  <2>2. ASSUME NEW title \in Range(Titles), milestones' = Append(milestones, title)
        PROVE  DOMAIN milestones \subseteq DOMAIN milestones'
               /\ \A k \in DOMAIN milestones : milestones'[k] = milestones[k]
    <3>1. PICK S : S = Range(Titles) \cup {Other}
      OBVIOUS
    <3>2. milestones \in Seq(S) /\ title \in S
      BY <3>1 DEF FilingTypes
    <3> QED BY <2>2, <3>2, Grown
  <2> QED BY <2>1, <2>2
<1>2. \A i \in DOMAIN issues : IssueRight(i)'
  BY <1>1 DEF IssuesInv, IssueRight, LinksRight
<1> QED BY <1>2 DEF IssuesInv, NoDuplicates

\* A new issue, somebody's or of a ticket that has none.
LEMMA IssuesGrow ==
  ASSUME FilingTypes, IssuesInv, UNCHANGED <<plan, milestones, edits>>,
         NEW x \in Issue, issues' = Append(issues, x), x.body.links = {}, x.body.version = 0,
         x.ticket = Other => x.pull \/ x.title = Other,
         x.ticket # Other =>
           /\ Check(plan) /\ ~ x.pull
           /\ \E k \in DOMAIN plan : x.ticket = plan[k].id /\ x.title = plan[k].title
           /\ x.milestone \in DOMAIN milestones /\ milestones[x.milestone] = Titles[x.ticket[1] + 1],
         ~ x.pull /\ x.title # Other => \A i \in DOMAIN issues : issues[i].pull \/ issues[i].title # x.title
  PROVE  IssuesInv' /\ Keeps /\ issues' \in Seq(Issue')
<1>1. Issue' = Issue
  BY DEF Issue, IssueBody, Ids
<1>2. PICK last : last = Len(issues) + 1
  OBVIOUS
<1>3. /\ issues' \in Seq(Issue) /\ DOMAIN issues' = DOMAIN issues \cup {last}
      /\ issues'[last] = x /\ \A i \in DOMAIN issues : issues'[i] = issues[i]
  BY <1>2, Grown DEF FilingTypes
<1>4. Keeps
  BY <1>3 DEF Keeps
<1>5. ASSUME NEW i \in DOMAIN issues PROVE IssueRight(i)'
  <2>1. PICK body : body = issues[i].body
    OBVIOUS
  <2>2. LinksRight(body)
    BY <2>1 DEF IssuesInv, IssueRight
  <2>3. LinksRight(body)'
    BY <1>4, <2>2, LinksStay
  <2> QED BY <1>3, <2>1, <2>3 DEF IssuesInv, IssueRight
<1>6. IssueRight(last)'
  <2>1. LinksRight(x.body)' /\ x.body.version <= edits
    BY DEF LinksRight, FilingTypes
  <2> QED BY <1>3, <2>1 DEF IssueRight
<1>7. NoDuplicates'
  BY <1>3 DEF IssuesInv, NoDuplicates
<1> QED BY <1>1, <1>3, <1>4, <1>5, <1>6, <1>7 DEF IssuesInv

\* A body that is written, with right links.
LEMMA IssuesChange ==
  ASSUME FilingTypes, IssuesInv, UNCHANGED <<plan, milestones>>, edits <= edits',
         NEW i \in DOMAIN issues, NEW body \in IssueBody, issues' = [issues EXCEPT ![i].body = body],
         LinksRight(body), body.version <= edits', edits' \in Nat
  PROVE  IssuesInv'
<1>1. /\ DOMAIN issues' = DOMAIN issues /\ Keeps /\ issues'[i].body = body
      /\ \A k \in DOMAIN issues : issues'[k].milestone = issues[k].milestone
      /\ \A k \in DOMAIN issues \ {i} : issues'[k].body = issues[k].body
  BY Changed DEF FilingTypes
<1>2. ASSUME NEW k \in DOMAIN issues PROVE IssueRight(k)'
  <2>1. LinksRight(issues[k].body) /\ issues[k].body.version <= edits
    BY DEF IssuesInv, IssueRight
  <2>2. issues[k].body.version \in Nat
    <3>1. issues[k] \in Issue
      BY DEF FilingTypes
    <3>2. issues[k].body \in IssueBody
      BY <3>1 DEF Issue
    <3> QED BY <3>2 DEF IssueBody
  <2>3. LinksRight(body)' /\ LinksRight(issues[k].body)'
    BY <1>1, <2>1, LinksStay
  <2>4. LinksRight(issues[k].body)' /\ issues'[k].body.version <= edits'
    BY <1>1, <2>1, <2>2, <2>3 DEF FilingTypes, LinksRight
  <2> QED BY <1>1, <2>4 DEF IssuesInv, IssueRight, Keeps
<1>3. NoDuplicates'
  BY <1>1 DEF IssuesInv, NoDuplicates, Keeps
<1> QED BY <1>1, <1>2, <1>3 DEF IssuesInv

---------------------------------------------------------------------------
\* The pages of the list.

\* The newest issue comes first.
LEMMA RankIs ==
  ASSUME issues \in Seq(Issue), NEW i \in DOMAIN issues
  PROVE  Rank(i) = Len(issues) - i + 1
<1>1. PICK length \in Nat : length = Len(issues) /\ DOMAIN issues = 1..length
  OBVIOUS
<1>2. {k \in DOMAIN issues : Listed(k) /\ i <= k} = i..length
  BY <1>1 DEF Listed
<1>3. i \in Int /\ i <= length /\ length \in Int
  BY <1>1
<1>4. Cardinality(i..length) = length - i + 1
  BY <1>3, FS_Interval
<1> QED BY <1>1, <1>2, <1>4 DEF Rank

\* A page has what the pages before it lack, and a short page is the last.
LEMMA PagesOf ==
  ASSUME issues \in Seq(Issue), NEW p \in Nat \ {0}
  PROVE  /\ p * PageSize \in Nat /\ (p - 1) * PageSize \in Nat
         /\ \A i \in DOMAIN issues :
              Rank(i) <= p * PageSize => Rank(i) <= (p - 1) * PageSize \/ i \in Page(p)
         /\ IsFiniteSet(Page(p))
         /\ Cardinality(Page(p)) < PageSize => \A i \in DOMAIN issues : Rank(i) <= p * PageSize
<1>1. PICK length \in Nat : length = Len(issues) /\ DOMAIN issues = 1..length
  OBVIOUS
<1>2. PageSize \in Nat \ {0}
  BY IssueAssumption
<1>3. PICK last : last = p * PageSize
  OBVIOUS
<1>4. PICK first : first = (p - 1) * PageSize
  OBVIOUS
<1>5. last \in Nat /\ first \in Nat /\ last = first + PageSize
  BY <1>2, <1>3, <1>4
<1>6. \A i \in DOMAIN issues : Rank(i) = length - i + 1
  BY <1>1, RankIs
<1>7. Page(p) = {i \in DOMAIN issues : Rank(i) \in (first + 1)..last}
  BY <1>3, <1>4 DEF Page, Listed
<1>8. \A i \in DOMAIN issues : Rank(i) \in Nat /\ (Rank(i) <= last => Rank(i) <= first \/ i \in Page(p))
  BY <1>1, <1>5, <1>6, <1>7
<1>9. IsFiniteSet(Page(p))
  <2>1. IsFiniteSet(1..length)
    BY FS_Interval
  <2>2. Page(p) \in SUBSET (1..length)
    BY <1>1, <1>7
  <2> QED BY <2>1, <2>2, FS_Subset
<1>10. ASSUME NEW i \in DOMAIN issues, Rank(i) > last PROVE Cardinality(Page(p)) = PageSize
  <2>1. last < length
    BY <1>1, <1>5, <1>6, <1>10
  <2>2. Page(p) = (length - last + 1)..(length - first)
    BY <1>1, <1>5, <1>6, <1>7, <2>1
  <2>3. Cardinality((length - last + 1)..(length - first)) = PageSize
    BY <1>2, <1>5, <2>1, FS_Interval
  <2> QED BY <2>2, <2>3
<1>11. \A i \in DOMAIN issues : Rank(i) <= last \/ Rank(i) > last
  BY <1>5, <1>8
<1> QED BY <1>2, <1>3, <1>4, <1>5, <1>8, <1>9, <1>10, <1>11

\* New issues push the others down the list.
LEMMA RanksGrow ==
  ASSUME issues \in Seq(Issue), issues' \in Seq(Issue'), DOMAIN issues \subseteq DOMAIN issues',
         NEW i \in DOMAIN issues
  PROVE  Rank(i) \in Nat /\ Rank(i)' \in Nat /\ Rank(i) <= Rank(i)'
<1>1. PICK length \in Nat : length = Len(issues) /\ DOMAIN issues = 1..length
  OBVIOUS
<1>2. PICK next \in Nat : next = Len(issues') /\ DOMAIN issues' = 1..next
  OBVIOUS
<1>3. Rank(i) = length - i + 1
  BY <1>1, RankIs
<1>4. Rank(i)' = next - i + 1
  <2>1. {k \in DOMAIN issues' : Listed(k)' /\ i <= k} = i..next
    BY <1>1, <1>2 DEF Listed
  <2>2. i \in Int /\ i <= next
    BY <1>1, <1>2
  <2>3. Rank(i)' = Cardinality(i..next)
    BY <2>1 DEF Rank
  <2> QED BY <2>2, <2>3, FS_Interval
<1>5. length <= next
  BY <1>1, <1>2
<1> QED BY <1>1, <1>2, <1>3, <1>4, <1>5

---------------------------------------------------------------------------
\* A run that ends, and one that stands still while GitHub moves.

\* A run that ends forgets what it knows.
LEMMA EndedInv ==
  ASSUME FilingTypes', IssuesInv', FilingEnds
  PROVE  FilingInv'
<1>1. stage' = "idle" /\ existing' = <<>> /\ num' = <<>> /\ created' = {} /\ at' = 1
  BY DEF FilingEnds, To
<1>2. DOMAIN existing' = {} /\ DOMAIN num' = {} /\ num' \in Seq(Nat)
  BY <1>1
<1>3. RunInv'
  BY <1>1, <1>2 DEF RunInv
<1>4. MilestonesInv' /\ ListInv'
  BY <1>1 DEF MilestonesInv, ListInv
<1>5. BodiesInv'
  BY <1>1, <1>2 DEF BodiesInv
<1> QED BY <1>3, <1>4, <1>5 DEF FilingInv

\* What the list said of an issue stays true of it, but its body.
LEMMA KnownStays ==
  ASSUME Keeps, existing' = existing, edits \in Nat, edits' \in Nat, edits <= edits',
         NEW title \in DOMAIN existing, Known(title)
  PROVE  Known(title)'
<1>1. PICK body : body = existing[title].body
  OBVIOUS
<1>2. LinksRight(body) /\ body \in IssueBody
  BY <1>1 DEF Known
<1>3. LinksRight(body)'
  BY <1>2, LinksStay
<1>4. IssueBody' = IssueBody
  BY DEF Keeps, IssueBody, Ids
<1>5. body.version <= edits'
  <2>1. body.version \in Nat /\ body.version <= edits
    BY <1>1, <1>2 DEF IssueBody, Known
  <2> QED BY <2>1
<1> QED BY <1>1, <1>2, <1>3, <1>4, <1>5 DEF Known, Keeps

\* A ticket's number stays that of its issue.
LEMMA NumberedStays ==
  ASSUME Keeps, UNCHANGED <<existing, num, created>>, NEW k, Numbered(k)
  PROVE  Numbered(k)'
BY DEF Numbered, Keeps

\* Issues that are added are not of tickets, bodies that change are edited.
LEMMA RunStays ==
  ASSUME FilingInv, issues' \in Seq(Issue'), Keeps, UNCHANGED <<fileVars, milestones>>,
         edits' \in Nat, edits <= edits', edited \subseteq edited',
         \A i \in DOMAIN issues : i \in edited' \/ issues'[i].body = issues[i].body,
         \A i \in DOMAIN issues' \ DOMAIN issues : issues'[i].ticket = Other
  PROVE  RunInv' /\ MilestonesInv' /\ ListInv' /\ BodiesInv'
<1> USE DEF fileVars, FilingInv
<1>1. RunInv'
  <2>1. \A title \in DOMAIN existing : Known(title)'
    BY IssueAssumption, KnownStays DEF RunInv, FilingTypes
  <2>2. \A k \in DOMAIN num : Numbered(k)'
    BY NumberedStays DEF RunInv
  <2>3. plan' = plan
    BY DEF Keeps
  <2> QED BY <2>1, <2>2, <2>3 DEF RunInv
<1>2. MilestonesInv'
  BY DEF MilestonesInv
<1>3. ListInv'
  <2> SUFFICES ASSUME NEW i \in DOMAIN issues', issues'[i].ticket # Other
               PROVE  /\ stage = "list" /\ Rank(i)' <= (at - 1) * PageSize => issues'[i].title \in DOMAIN existing
                      /\ stage = "create" =>
                           issues'[i].title \in DOMAIN existing
                           \/ \E k \in DOMAIN plan : issues'[i].ticket = plan[k].id /\ k < at
    BY DEF ListInv, Keeps
  <2>1. i \in DOMAIN issues /\ issues[i].ticket = issues'[i].ticket /\ issues[i].title = issues'[i].title
    BY DEF Keeps
  <2>2. issues \in Seq(Issue) /\ DOMAIN issues \subseteq DOMAIN issues'
    BY DEF Keeps, FilingTypes
  <2>3. Rank(i) \in Nat /\ Rank(i)' \in Nat /\ Rank(i) <= Rank(i)'
    BY <2>1, <2>2, RanksGrow
  <2>4. (at - 1) * PageSize \in Nat
    BY <2>2, PagesOf DEF FilingTypes
  <2>5. Rank(i)' <= (at - 1) * PageSize => Rank(i) <= (at - 1) * PageSize
    BY <2>3, <2>4
  <2> QED BY <2>1, <2>5 DEF ListInv
<1>4. BodiesInv'
  <2>1. \A title \in DOMAIN existing : existing[title].number \in DOMAIN issues
    BY DEF RunInv, Known
  <2>2. \A k \in DOMAIN num : num[k] \in DOMAIN issues
    BY DEF RunInv, Numbered
  <2>3. \A k : Source(k)' = Source(k)
    BY DEF Source, Keeps
  <2> QED BY <2>1, <2>2, <2>3 DEF BodiesInv
<1> QED BY <1>1, <1>2, <1>3, <1>4

---------------------------------------------------------------------------
\* One lemma for each action.

\* At first there is nothing.
LEMMA InitFiling == IssueInit => FilingInv
<1> SUFFICES ASSUME IssueInit PROVE FilingInv
  OBVIOUS
<1> USE DEF IssueInit
<1>1. DOMAIN issues = {} /\ DOMAIN num = {} /\ DOMAIN existing = {} /\ Len(issues) = 0
  OBVIOUS
<1>2. issues \in Seq(Issue) /\ num \in Seq(Nat) /\ milestones \in Seq(Range(Titles) \cup {Other})
  <2>1. \A S : <<>> \in Seq(S) /\ \A x \in S : <<x>> \in Seq(S)
    OBVIOUS
  <2>2. milestones = <<>> \/ milestones = <<Other>>
    OBVIOUS
  <2>3. milestones \in Seq(Range(Titles) \cup {Other})
    BY <2>1, <2>2
  <2>4. issues \in Seq(Issue)
    BY <2>1
  <2> QED BY <2>1, <2>3, <2>4
<1>3. FilingTypes
  BY <1>1, <1>2, IssueAssumption DEF FilingTypes
<1>4. IssuesInv
  BY <1>1 DEF IssuesInv, NoDuplicates
<1>5. RunInv
  BY <1>1, <1>2 DEF RunInv
<1> QED BY <1>1, <1>3, <1>4, <1>5 DEF FilingInv, MilestonesInv, ListInv, BodiesInv

\* The types of a step of the run that changes only where it is.
LEMMA MovedTypes ==
  ASSUME FilingTypes, UNCHANGED <<plan, issues, edits>>, runs' \in 0..MaxRuns,
         milestones' \in Seq(Range(Titles) \cup {Other}),
         labels' \subseteq Labels, haveLabels' \subseteq labels', edited' \subseteq edited,
         stage' \in {"idle", "milestones", "labels", "list", "create", "rewrite", "done"}, at' \in Nat \ {0},
         stage' # "idle" => Check(plan)
  PROVE  FilingTypes'
<1>1. Issue' = Issue
  BY DEF Issue, IssueBody, Ids
<1>2. Check(plan)' = Check(plan)
  BY DEF Check
<1> QED BY <1>1, <1>2 DEF FilingTypes

\* A step that does not touch the issues.
LEMMA SameKeeps == ASSUME UNCHANGED <<plan, issues>> PROVE Keeps
BY DEF Keeps

\* A run starts with nothing known.
LEMMA StartFilingInv == ASSUME FilingInv, StartFiling PROVE FilingInv'
<1> USE DEF StartFiling, To, githubVars
<1>1. FilingTypes'
  <2>1. runs' \in 0..MaxRuns
    BY IssueAssumption DEF FilingInv, FilingTypes
  <2>2. milestones' \in Seq(Range(Titles) \cup {Other}) /\ edited' \subseteq edited
    BY DEF FilingInv, FilingTypes
  <2>3. labels' \subseteq Labels /\ haveLabels' \subseteq labels'
    BY DEF FilingInv, FilingTypes
  <2> QED BY <2>1, <2>2, <2>3, MovedTypes DEF FilingInv
<1>2. IssuesInv'
  BY IssuesStay DEF FilingInv
<1>3. DOMAIN num' = {} /\ DOMAIN existing' = {} /\ num' \in Seq(Nat)
  OBVIOUS
<1>4. RunInv'
  BY <1>3 DEF RunInv
<1>5. MilestonesInv'
  BY IssueAssumption DEF MilestonesInv
<1> QED BY <1>1, <1>2, <1>3, <1>4, <1>5 DEF FilingInv, ListInv, BodiesInv

\* A request that fails.
LEMMA FailsInv == ASSUME FilingInv, Fails PROVE FilingInv'
<1> USE DEF Fails, FilingEnds, To, githubVars
<1>1. FilingTypes'
  BY MovedTypes DEF FilingInv, FilingTypes
<1>2. IssuesInv'
  BY IssuesStay DEF FilingInv
<1> QED BY <1>1, <1>2, EndedInv

\* Where nothing is listed yet.
LEMMA NothingYet ==
  ASSUME FilingInv, stage \in {"milestones", "labels"}, stage' \in {"milestones", "labels", "list"},
         UNCHANGED <<plan, issues, existing, num, created, edited>>, at' = 1 \/ stage' # "list"
  PROVE  RunInv' /\ ListInv' /\ BodiesInv'
<1>1. existing' = <<>> /\ num' = <<>> /\ created' = created /\ created \subseteq DOMAIN num
  BY DEF FilingInv, RunInv
<1>2. DOMAIN existing' = {} /\ DOMAIN num' = {} /\ num' \in Seq(Nat) /\ created' = {}
  BY <1>1
<1>3. RunInv'
  BY <1>1, <1>2 DEF RunInv
<1>4. BodiesInv'
  BY <1>2 DEF BodiesInv
<1>5. issues \in Seq(Issue) /\ PageSize \in Nat
  BY IssueAssumption DEF FilingInv, FilingTypes
<1>6. ASSUME NEW i \in DOMAIN issues, at' = 1 PROVE ~ (Rank(i)' <= (at' - 1) * PageSize)
  <2>1. Rank(i)' = Len(issues) - i + 1
    BY <1>5, RankIs DEF Rank, Listed
  <2>2. Rank(i)' \in Nat \ {0}
    BY <1>5, <2>1
  <2>3. (at' - 1) * PageSize = 0
    BY <1>5, <1>6
  <2> QED BY <2>2, <2>3
<1>7. ListInv'
  BY <1>6 DEF ListInv
<1> QED BY <1>3, <1>4, <1>7

\* The next milestone is there, or is made, or is the last.
LEMMA MilestoneInv == ASSUME FilingInv, Milestone PROVE FilingInv'
<1> USE DEF Milestone, To, githubVars
<1>0. FilingTypes /\ IssuesInv /\ at \in Nat /\ Check(plan) /\ Len(Titles) \in Nat /\ DOMAIN Titles = 1..Len(Titles)
  BY IssueAssumption DEF FilingInv, FilingTypes
<1>1. ASSUME NEW title \in Range(Titles), milestones' = Append(milestones, title)
      PROVE  milestones' \in Seq(Range(Titles) \cup {Other}) /\ Range(milestones') = Range(milestones) \cup {title}
  <2>1. PICK S : S = Range(Titles) \cup {Other}
    OBVIOUS
  <2>2. milestones \in Seq(S) /\ title \in S
    BY <2>1 DEF FilingInv, FilingTypes
  <2>3. /\ milestones' \in Seq(S) /\ DOMAIN milestones' = DOMAIN milestones \cup {Len(milestones) + 1}
        /\ milestones'[Len(milestones) + 1] = title /\ Len(milestones) + 1 \notin DOMAIN milestones
        /\ \A k \in DOMAIN milestones : milestones'[k] = milestones[k]
    BY <1>1, <2>2, Grown
  <2> QED BY <2>1, <2>3 DEF Range
<1>2. CASE at > Len(Titles)
  <2>1. /\ milestones' = milestones /\ stage' = "labels" /\ at' = 1 /\ haveLabels' = labels
        /\ UNCHANGED <<plan, issues, labels, edits, runs, edited, existing, num, created>>
    BY <1>2
  <2>2. FilingTypes'
    BY <1>0, <2>1, MovedTypes DEF FilingTypes
  <2>3. IssuesInv'
    BY <1>0, <2>1, IssuesStay
  <2>4. MilestonesInv'
    <3>1. at = Len(Titles) + 1 /\ \A k \in 1..(at - 1) : Titles[k] \in Range(milestones)
      BY <1>0, <1>2 DEF FilingInv, MilestonesInv
    <3>2. Range(Titles) \subseteq Range(milestones)
      BY <1>0, <3>1 DEF Range
    <3> QED BY <2>1, <3>2 DEF MilestonesInv
  <2> QED BY <2>1, <2>2, <2>3, <2>4, NothingYet, SameKeeps DEF FilingInv
<1>3. CASE at <= Len(Titles) /\ Titles[at] \in Range(milestones)
  <2>1. /\ milestones' = milestones /\ stage' = "milestones" /\ at' = at + 1 /\ stage = "milestones"
        /\ UNCHANGED <<plan, issues, labels, edits, runs, edited, haveLabels, existing, num, created>>
    BY <1>0, <1>3
  <2>2. FilingTypes'
    BY <1>0, <2>1, MovedTypes DEF FilingTypes
  <2>3. IssuesInv'
    BY <1>0, <2>1, IssuesStay
  <2>4. MilestonesInv'
    BY <1>0, <1>3, <2>1 DEF FilingInv, MilestonesInv
  <2> QED BY <2>1, <2>2, <2>3, <2>4, NothingYet, SameKeeps DEF FilingInv
<1>4. CASE at <= Len(Titles) /\ Titles[at] \notin Range(milestones)
  <2>1. /\ milestones' = Append(milestones, Titles[at]) /\ Titles[at] \in Range(Titles) /\ stage = "milestones"
        /\ UNCHANGED <<plan, issues, labels, edits, runs, edited>>
    BY <1>0, <1>4 DEF FilingInv, FilingTypes, Range
  <2>2. milestones' \in Seq(Range(Titles) \cup {Other}) /\ Range(milestones') = Range(milestones) \cup {Titles[at]}
    BY <1>1, <2>1
  <2>3. IssuesInv'
    BY <1>0, <2>1, IssuesStay
  <2>4. CASE FilingEnds
    <3>1. FilingTypes'
      BY <1>0, <2>1, <2>2, <2>4, MovedTypes DEF FilingTypes, FilingEnds
    <3> QED BY <2>3, <2>4, <3>1, EndedInv
  <2>5. CASE stage' = "milestones" /\ at' = at + 1 /\ UNCHANGED <<haveLabels, existing, num, created>>
    <3>1. FilingTypes'
      BY <1>0, <2>1, <2>2, <2>5, MovedTypes DEF FilingTypes
    <3>2. MilestonesInv'
      BY <1>0, <1>4, <2>1, <2>2, <2>5 DEF FilingInv, MilestonesInv
    <3> QED BY <2>1, <2>3, <2>5, <3>1, <3>2, NothingYet, SameKeeps DEF FilingInv
  <2> QED BY <1>0, <1>4, <2>4, <2>5
<1> QED BY <1>0, <1>2, <1>3, <1>4

\* The labels.
LEMMA LabelInv == ASSUME FilingInv, Label PROVE FilingInv'
<1> USE DEF Label, To, githubVars
<1>0. FilingTypes /\ IssuesInv /\ Check(plan) /\ UNCHANGED <<plan, issues, milestones, edits, runs, edited>>
  BY DEF FilingInv, FilingTypes
<1>1. IssuesInv'
  BY <1>0, IssuesStay
<1>2. CASE Labels \subseteq haveLabels
  <2>1. stage' = "list" /\ at' = 1 /\ UNCHANGED <<labels, haveLabels, existing, num, created>>
    BY <1>2
  <2>2. FilingTypes'
    BY <1>0, <2>1, MovedTypes DEF FilingTypes
  <2>3. MilestonesInv'
    BY <1>0, <2>1 DEF FilingInv, MilestonesInv
  <2> QED BY <1>0, <1>1, <2>1, <2>2, <2>3, NothingYet, SameKeeps DEF FilingInv
<1>3. CASE ~ (Labels \subseteq haveLabels)
  <2>1. PICK label \in Labels \ haveLabels :
          /\ labels' = labels \cup {label}
          /\ \/ haveLabels' = haveLabels \cup {label} /\ UNCHANGED <<stage, at, existing, num, created>>
             \/ FilingEnds
    BY <1>3
  <2>2. CASE FilingEnds
    <3>1. FilingTypes'
      BY <1>0, <2>1, <2>2, MovedTypes DEF FilingTypes, FilingEnds
    <3> QED BY <1>1, <2>2, <3>1, EndedInv
  <2>3. CASE haveLabels' = haveLabels \cup {label} /\ UNCHANGED <<stage, at, existing, num, created>>
    <3>1. FilingTypes'
      BY <1>0, <2>1, <2>3, MovedTypes DEF FilingTypes
    <3>2. MilestonesInv'
      BY <1>0, <2>3 DEF FilingInv, MilestonesInv
    <3> QED BY <1>0, <1>1, <2>3, <3>1, <3>2, NothingYet, SameKeeps DEF FilingInv
  <2> QED BY <2>1, <2>2, <2>3
<1> QED BY <1>2, <1>3

---------------------------------------------------------------------------
\* On GitHub.

\* Somebody's issue or pull request.
LEMMA OpensInv ==
  ASSUME FilingInv, NEW title \in {plan[k].title : k \in DOMAIN plan} \cup {Other}, NEW pull \in BOOLEAN,
         pull \/ title = Other, Opens(title, pull)
  PROVE  FilingInv'
<1> DEFINE x == OtherIssue(title, pull)
<1>0. FilingTypes /\ IssuesInv
  BY DEF FilingInv
<1>1. x \in Issue /\ x.ticket = Other /\ x.title = title /\ x.pull = pull /\ x.body = Body(0, {}, {})
  BY DEF OtherIssue, Body, Issue, IssueBody
<1>2. x.body.links = {} /\ x.body.version = 0
  BY <1>1 DEF Body
<1> HIDE DEF x
<1>3. /\ issues' = Append(issues, x) /\ Len(issues) < MaxIssues
      /\ UNCHANGED <<plan, milestones, labels, edits, runs, fileVars, edited>>
  BY DEF Opens, x
<1>4. IssuesInv' /\ Keeps /\ issues' \in Seq(Issue')
  BY <1>0, <1>1, <1>2, <1>3, IssuesGrow
<1>5. /\ DOMAIN issues' = DOMAIN issues \cup {Len(issues) + 1} /\ Len(issues') = Len(issues) + 1
      /\ issues'[Len(issues) + 1] = x /\ \A i \in DOMAIN issues : issues'[i] = issues[i]
  BY <1>0, <1>1, <1>3, Grown DEF FilingTypes
<1>6. FilingTypes'
  <2>1. Check(plan)' = Check(plan) /\ Len(issues) \in Nat
    BY <1>0, <1>3 DEF Check, FilingTypes
  <2> QED BY <1>0, <1>3, <1>4, <1>5, <2>1, IssueAssumption DEF FilingTypes, fileVars
<1>7. RunInv' /\ MilestonesInv' /\ ListInv' /\ BodiesInv'
  <2>1. edits' \in Nat /\ edits <= edits'
    BY <1>0, <1>3, IssueAssumption DEF FilingTypes
  <2> QED BY <1>1, <1>3, <1>4, <1>5, <2>1, RunStays
<1> QED BY <1>4, <1>6, <1>7 DEF FilingInv

\* A body that somebody changes.
LEMMA EditInv == ASSUME FilingInv, NEW i \in DOMAIN issues, Edit(i) PROVE FilingInv'
<1>0. FilingTypes /\ IssuesInv
  BY DEF FilingInv
<1>1. PICK raw \in {{}} \cup {{id} : id \in Ids} :
        issues' = [issues EXCEPT ![i].body = Body(edits + 1, @.raw \cup raw, @.links)]
  BY DEF Edit
<1>2. PICK body : body = Body(edits + 1, issues[i].body.raw \cup raw, issues[i].body.links)
  OBVIOUS
<1>3. issues[i] \in Issue
  BY <1>0 DEF FilingTypes
<1>4. issues[i].body \in IssueBody /\ edits \in Nat
  BY <1>0, <1>3, IssueAssumption DEF Issue, FilingTypes
<1>5. body \in IssueBody /\ body.version = edits + 1 /\ body.links = issues[i].body.links
  BY <1>2, <1>4 DEF IssueBody, Body
<1>6. issues' = [issues EXCEPT ![i].body = body]
  BY <1>1, <1>2
<1>7. /\ edits' = edits + 1 /\ edits < MaxEdits /\ edited' = edited \cup {i}
      /\ UNCHANGED <<plan, milestones, labels, runs, fileVars>>
  BY DEF Edit
<1>8. LinksRight(body)
  BY <1>0, <1>5 DEF IssuesInv, IssueRight, LinksRight
<1>9. IssuesInv'
  <2>1. edits' \in Nat /\ edits <= edits' /\ body.version <= edits' /\ UNCHANGED <<plan, milestones>>
    BY <1>4, <1>5, <1>7
  <2>2. body \in IssueBody
    BY <1>5
  <2> QED BY <1>0, <1>6, <1>8, <2>1, <2>2, IssuesChange
<1>10. /\ issues' \in Seq(Issue') /\ Len(issues') = Len(issues) /\ DOMAIN issues' = DOMAIN issues /\ Keeps
       /\ \A k \in DOMAIN issues \ {i} : issues'[k].body = issues[k].body
  BY <1>0, <1>5, <1>6, <1>7, Changed DEF FilingTypes
<1>11. FilingTypes'
  <2>1. Check(plan)' = Check(plan)
    BY <1>7 DEF Check
  <2> QED BY <1>0, <1>4, <1>7, <1>10, <2>1, IssueAssumption DEF FilingTypes, fileVars
<1>12. RunInv' /\ MilestonesInv' /\ ListInv' /\ BodiesInv'
  <2>1. edits' \in Nat /\ edits <= edits' /\ edited \subseteq edited' /\ UNCHANGED <<fileVars, milestones>>
    BY <1>4, <1>7
  <2> QED BY <1>7, <1>10, <2>1, RunStays
<1> QED BY <1>9, <1>11, <1>12 DEF FilingInv

\* Somebody closes an issue.
LEMMA CloseInv == ASSUME FilingInv, NEW i \in DOMAIN issues, CloseIssue(i) PROVE FilingInv'
<1>0. FilingTypes /\ IssuesInv
  BY DEF FilingInv
<1>1. /\ issues' = [issues EXCEPT ![i].open = FALSE]
      /\ UNCHANGED <<plan, milestones, labels, edits, runs, fileVars, edited>>
  BY DEF CloseIssue
<1>2. PICK x : x = [issues[i] EXCEPT !.open = FALSE]
  OBVIOUS
<1>3. issues[i] \in Issue
  BY <1>0 DEF FilingTypes
<1>4. /\ x \in Issue /\ x.title = issues[i].title /\ x.pull = issues[i].pull /\ x.ticket = issues[i].ticket
      /\ x.milestone = issues[i].milestone /\ x.body = issues[i].body
  BY <1>2, <1>3 DEF Issue
<1>5. issues' = [issues EXCEPT ![i] = x]
  BY <1>1, <1>2
<1>6. PICK S : S = Issue
  OBVIOUS
<1>7. /\ issues' \in Seq(S) /\ Len(issues') = Len(issues) /\ DOMAIN issues' = DOMAIN issues
      /\ issues'[i] = x /\ \A k \in DOMAIN issues \ {i} : issues'[k] = issues[k]
  BY <1>0, <1>4, <1>5, <1>6 DEF FilingTypes
<1>8. Issue' = Issue
  BY <1>1 DEF Issue, IssueBody, Ids
<1>9. Keeps /\ \A k \in DOMAIN issues : issues'[k].body = issues[k].body /\ issues'[k].milestone = issues[k].milestone
  BY <1>1, <1>4, <1>7 DEF Keeps
<1>10. IssuesInv'
  <2>1. ASSUME NEW k \in DOMAIN issues PROVE IssueRight(k)'
    <3>1. LinksRight(issues[k].body)'
      BY <1>0, <1>7, <1>9 DEF IssuesInv, IssueRight, LinksRight, Keeps
    <3> QED BY <1>0, <1>1, <1>7, <1>9, <3>1 DEF IssuesInv, IssueRight, Keeps
  <2>2. NoDuplicates'
    BY <1>0, <1>7, <1>9 DEF IssuesInv, NoDuplicates, Keeps
  <2> QED BY <1>7, <2>1, <2>2 DEF IssuesInv
<1>11. FilingTypes'
  <2>1. Check(plan)' = Check(plan)
    BY <1>1 DEF Check
  <2> QED BY <1>0, <1>1, <1>6, <1>7, <1>8, <2>1 DEF FilingTypes, fileVars
<1>12. RunInv' /\ MilestonesInv' /\ ListInv' /\ BodiesInv'
  <2>1. edits' \in Nat /\ edits <= edits' /\ edited \subseteq edited'
    BY <1>0, <1>1, IssueAssumption DEF FilingTypes
  <2> QED BY <1>1, <1>6, <1>7, <1>8, <1>9, <2>1, RunStays
<1> QED BY <1>10, <1>11, <1>12 DEF FilingInv

\* Somebody adds a label.
LEMMA AddLabelInv == ASSUME FilingInv, NEW label \in Labels, AddLabel(label) PROVE FilingInv'
<1> USE DEF AddLabel, fileVars
<1>1. FilingTypes'
  BY MovedTypes DEF FilingInv, FilingTypes
<1>2. IssuesInv'
  BY IssuesStay DEF FilingInv
<1>3. issues' \in Seq(Issue')
  BY <1>1 DEF FilingTypes
<1>4. edits' \in Nat /\ edits <= edits'
  BY IssueAssumption DEF FilingInv, FilingTypes
<1> QED BY <1>1, <1>2, <1>3, <1>4, RunStays, SameKeeps DEF FilingInv

---------------------------------------------------------------------------
\* The three steps that read and write issues.

\* A set of numbers has a smallest one.
LEMMA Smallest ==
  ASSUME NEW S, S \subseteq Nat, S # {}
  PROVE  \E i \in S : \A k \in S : i <= k
<1> DEFINE less == OpToRel(<, Nat)
<1>1. IsWellFoundedOn(less, Nat)
  BY NatLessThanWellFounded
<1>2. \A i, k \in Nat : i < k => <<i, k>> \in less
  BY DEF OpToRel
<1> HIDE DEF less
<1>3. PICK i \in S : \A k \in S : ~ (<<k, i>> \in less)
  BY <1>1, WFMin
<1>4. ASSUME NEW k \in S PROVE i <= k
  <2>1. ~ (k < i) /\ k \in Nat /\ i \in Nat
    BY <1>2, <1>3
  <2> QED BY <2>1
<1> QED BY <1>4

\* A page: the tickets on it are known from now on, with the bodies they have.
LEMMA ListStep == ASSUME FilingInv, List PROVE FilingInv'
<1> DEFINE page == Page(at)
           found == {issues[i].title : i \in {k \in page : IsIssue(k)}}
<1>0. /\ FilingTypes /\ IssuesInv /\ RunInv /\ stage = "list" /\ Check(plan)
      /\ UNCHANGED <<plan, issues, milestones, labels, edits, runs, haveLabels, num, created>>
      /\ issues \in Seq(Issue) /\ DOMAIN issues \subseteq Nat /\ at \in Nat \ {0}
  <2>1. issues \in Seq(Issue)
    BY DEF FilingInv, FilingTypes
  <2>2. DOMAIN issues \subseteq Nat
    BY <2>1
  <2> QED BY <2>1, <2>2 DEF FilingInv, FilingTypes, List, githubVars
<1>1. /\ existing' = [title \in DOMAIN existing \cup found |->
              IF title \in found
              THEN LET last == LastOf(page, title) IN [number |-> last, body |-> issues[last].body]
              ELSE existing[title]]
      /\ edited' = edited \ page
      /\ \/ Cardinality(page) < PageSize /\ stage' = "create" /\ at' = 1
         \/ stage' = "list" /\ at' = at + 1
  BY DEF List, To
<1>2. page \subseteq DOMAIN issues
  BY DEF Page
<1>3. /\ at * PageSize \in Nat /\ (at - 1) * PageSize \in Nat
      /\ \A i \in DOMAIN issues : Rank(i) <= at * PageSize => Rank(i) <= (at - 1) * PageSize \/ i \in page
      /\ Cardinality(page) < PageSize => \A i \in DOMAIN issues : Rank(i) <= at * PageSize
  BY <1>0, PagesOf
<1> HIDE DEF page
<1>4. ASSUME NEW i \in page, ~ issues[i].pull PROVE issues[i].title \in found
  BY <1>4 DEF IsIssue
<1>5. ASSUME NEW title \in found
      PROVE  /\ LastOf(page, title) \in page
             /\ ~ issues[LastOf(page, title)].pull /\ issues[LastOf(page, title)].title = title
  <2> DEFINE ofTitle == {i \in page : IsIssue(i) /\ issues[i].title = title}
  <2>1. ofTitle # {} /\ ofTitle \subseteq Nat
    BY <1>0, <1>2 DEF IsIssue
  <2>2. \E i \in ofTitle : \A k \in ofTitle : i <= k
    BY <2>1, Smallest
  <2>3. LastOf(page, title) = CHOOSE i \in ofTitle : \A k \in ofTitle : i <= k
    BY DEF LastOf
  <2>4. LastOf(page, title) \in ofTitle
    BY <2>2, <2>3
  <2> QED BY <2>4 DEF IsIssue
<1> HIDE DEF found
<1>6. /\ DOMAIN existing' = DOMAIN existing \cup found
      /\ \A title \in found :
           /\ existing'[title].number = LastOf(page, title)
           /\ existing'[title].body = issues[LastOf(page, title)].body
      /\ \A title \in DOMAIN existing \ found : existing'[title] = existing[title]
  BY <1>1
<1>7. FilingTypes'
  <2>1. stage' \in {"list", "create"} /\ at' \in Nat \ {0} /\ edited' \subseteq edited
    BY <1>0, <1>1
  <2> QED BY <1>0, <2>1, MovedTypes DEF FilingTypes
<1>8. IssuesInv'
  BY <1>0, IssuesStay
<1>9. RunInv'
  <2>1. ASSUME NEW title \in found PROVE Known(title)'
    <3>1. PICK last \in page : last = LastOf(page, title)
      BY <1>5, <2>1
    <3>2. last \in DOMAIN issues /\ ~ issues[last].pull /\ issues[last].title = title
      BY <1>2, <1>5, <2>1, <3>1
    <3>3. issues[last] \in Issue
      BY <1>0, <3>2
    <3>4. issues[last].body \in IssueBody /\ LinksRight(issues[last].body) /\ issues[last].body.version <= edits
      BY <1>0, <3>2, <3>3 DEF Issue, IssuesInv, IssueRight
    <3>5. PICK body : body = issues[last].body
      OBVIOUS
    <3>6. existing'[title].number = last /\ existing'[title].body = body
      BY <1>6, <2>1, <3>1, <3>5
    <3>7. body \in IssueBody' /\ LinksRight(body)' /\ body.version <= edits'
      BY <1>0, <3>4, <3>5 DEF LinksRight, IssueBody, Ids
    <3> QED BY <1>0, <3>2, <3>6, <3>7 DEF Known, LinksRight
  <2>2. ASSUME NEW title \in DOMAIN existing \ found PROVE Known(title)'
    <3>1. Known(title) /\ existing'[title] = existing[title]
      BY <1>0, <1>6, <2>2 DEF RunInv
    <3> QED BY <1>0, <3>1 DEF Known, LinksRight, IssueBody, Ids
  <2>3. num' = <<>> /\ DOMAIN num' = {} /\ Len(num') = 0 /\ num' \in Seq(Nat) /\ created' = {}
    <3>1. num = <<>> /\ created \subseteq DOMAIN num
      BY <1>0 DEF RunInv
    <3> QED BY <1>0, <3>1
  <2>4. Len(plan) \in Nat
    BY <1>0, PlanRight DEF FilingTypes
  <2> QED BY <1>0, <1>1, <1>6, <2>1, <2>2, <2>3, <2>4 DEF RunInv
<1>10. MilestonesInv'
  BY <1>0, <1>1 DEF FilingInv, MilestonesInv
<1>11. ListInv'
  <2>1. ASSUME NEW i \in DOMAIN issues, issues[i].ticket # Other, Rank(i) <= at * PageSize
        PROVE  issues[i].title \in DOMAIN existing'
    <3>1. CASE Rank(i) <= (at - 1) * PageSize
      BY <1>0, <1>6, <2>1, <3>1 DEF FilingInv, ListInv
    <3>2. CASE i \in page
      BY <1>0, <1>4, <1>6, <2>1, <3>2 DEF IssuesInv, IssueRight
    <3> QED BY <1>3, <2>1, <3>1, <3>2
  <2>2. \A i \in DOMAIN issues : Rank(i)' = Rank(i)
    BY <1>0 DEF Rank, Listed
  <2>3. stage' = "list" => at' - 1 = at
    BY <1>0, <1>1
  <2>4. ASSUME NEW i \in DOMAIN issues, issues[i].ticket # Other
        PROVE  /\ stage' = "list" /\ Rank(i) <= (at' - 1) * PageSize => issues[i].title \in DOMAIN existing'
               /\ stage' = "create" => issues[i].title \in DOMAIN existing'
    BY <1>1, <1>3, <2>1, <2>3, <2>4
  <2> QED BY <1>0, <2>2, <2>4 DEF ListInv
<1>12. BodiesInv'
  <2>1. DOMAIN num' = {}
    BY <1>0 DEF RunInv
  <2>2. ASSUME NEW title \in DOMAIN existing', existing'[title].number \notin edited'
        PROVE  issues'[existing'[title].number].body = existing'[title].body
    <3>1. CASE title \in found
      BY <1>0, <1>6, <3>1
    <3>2. CASE title \notin found
      <4>1. title \in DOMAIN existing /\ existing'[title] = existing[title]
        BY <1>6, <2>2, <3>2
      <4>2. issues[existing[title].number].title = title /\ ~ issues[existing[title].number].pull
        BY <1>0, <4>1 DEF RunInv, Known
      <4>3. existing[title].number \notin page
        BY <1>4, <3>2, <4>2
      <4>4. existing[title].number \notin edited
        BY <1>1, <2>2, <4>1, <4>3
      <4> QED BY <1>0, <4>1, <4>4 DEF FilingInv, BodiesInv
    <3> QED BY <3>1, <3>2
  <2> QED BY <2>1, <2>2 DEF BodiesInv
<1> QED BY <1>7, <1>8, <1>9, <1>10, <1>11, <1>12 DEF FilingInv

\* A step that numbers the next ticket: an issue that was there, or the new one.
LEMMA NumberedNext ==
  ASSUME FilingInv, stage = "create", at <= Len(plan), Keeps, UNCHANGED <<existing, edits>>,
         NEW number \in DOMAIN issues', num' = Append(num, number), issues'[number].ticket = plan[at].id,
         \/ /\ created' = created /\ plan[at].title \in DOMAIN existing
            /\ existing[plan[at].title].number = number
         \/ created' = created \cup {at},
         DOMAIN issues' \subseteq Nat, stage' = "create", at' = at + 1
  PROVE  /\ RunInv'
         /\ DOMAIN num' = DOMAIN num \cup {at} /\ num'[at] = number /\ at \notin DOMAIN num
         /\ \A k \in DOMAIN num : num'[k] = num[k]
<1>0. FilingTypes /\ RunInv /\ plan' = plan /\ at \in Nat /\ at = Len(num) + 1 /\ num \in Seq(Nat)
  BY DEF FilingInv, RunInv, FilingTypes, Keeps
<1>1. /\ num' \in Seq(Nat) /\ Len(num') = Len(num) + 1
      /\ DOMAIN num' = DOMAIN num \cup {at} /\ num'[at] = number /\ at \notin DOMAIN num
      /\ \A k \in DOMAIN num : num'[k] = num[k]
  BY <1>0, Grown
<1>2. edits \in Nat
  BY <1>0, IssueAssumption DEF FilingTypes
<1>3. \A title \in DOMAIN existing : Known(title)'
  BY <1>0, <1>2, KnownStays DEF RunInv
<1>4. ASSUME NEW k \in DOMAIN num PROVE Numbered(k)'
  <2>1. Numbered(k) /\ num'[k] = num[k]
    BY <1>0, <1>1 DEF RunInv
  <2> QED BY <1>1, <2>1 DEF Numbered, Keeps
<1>5. PICK here \in DOMAIN plan : here = at
  BY <1>0, PlanRight DEF FilingTypes
<1>6. Numbered(here)'
  BY <1>0, <1>1, <1>5 DEF Numbered
<1>7. created' \subseteq DOMAIN num'
  BY <1>0, <1>1 DEF RunInv
<1>8. Len(num') <= Len(plan) /\ at' = Len(num') + 1
  BY <1>0, <1>1
<1>9. RunInv'
  BY <1>0, <1>1, <1>3, <1>4, <1>5, <1>7, <1>8, <1>6 DEF RunInv
<1> QED BY <1>1, <1>9

\* The next ticket has its issue, or gets one, or there is none left.
LEMMA CreateInv == ASSUME FilingInv, Create PROVE FilingInv'
<1>0. /\ FilingTypes /\ IssuesInv /\ RunInv /\ stage = "create" /\ Check(plan)
      /\ UNCHANGED <<plan, milestones, labels, edits, runs, edited>>
      /\ issues \in Seq(Issue) /\ DOMAIN issues \subseteq Nat /\ at \in Nat \ {0}
      /\ at = Len(num) + 1 /\ Len(num) <= Len(plan) /\ num \in Seq(Nat)
      /\ DOMAIN plan = 1..Len(plan) /\ Len(plan) \in Nat
  <2>1. issues \in Seq(Issue) /\ stage = "create"
    BY DEF FilingInv, FilingTypes, Create
  <2>2. DOMAIN issues \subseteq Nat
    BY <2>1
  <2> QED BY <2>1, <2>2, PlanRight DEF FilingInv, FilingTypes, RunInv, Create
<1>1. CASE at > Len(plan)
  <2>1. /\ stage' = "rewrite" /\ at' = 1 /\ UNCHANGED <<issues, haveLabels, existing, num, created>>
    BY <1>1 DEF Create, To
  <2>2. FilingTypes'
    BY <1>0, <2>1, MovedTypes DEF FilingTypes
  <2>3. IssuesInv'
    BY <1>0, <2>1, IssuesStay
  <2>4. RunInv'
    <3>1. \A title \in DOMAIN existing : Known(title)'
      BY <1>0, <2>1, SameKeeps, KnownStays, IssueAssumption DEF RunInv, FilingTypes
    <3>2. \A k \in DOMAIN num : Numbered(k)'
      BY <1>0, <2>1, SameKeeps, NumberedStays DEF RunInv
    <3>3. Len(num) = Len(plan)
      BY <1>0, <1>1
    <3> QED BY <1>0, <2>1, <3>1, <3>2, <3>3 DEF RunInv
  <2>5. BodiesInv'
    <3>1. \A k : Source(k)' = Source(k)
      BY <1>0, <2>1 DEF Source
    <3>2. \A k \in DOMAIN num : ~ (k < 1)
      BY <1>0
    <3> QED BY <1>0, <2>1, <3>1, <3>2 DEF FilingInv, BodiesInv
  <2> QED BY <2>1, <2>2, <2>3, <2>4, <2>5 DEF FilingInv, MilestonesInv, ListInv
<1>2. CASE at <= Len(plan) /\ plan[at].title \in DOMAIN existing
  <2> DEFINE number == existing[plan[at].title].number
  <2>1. /\ num' = Append(num, number) /\ stage' = "create" /\ at' = at + 1
        /\ UNCHANGED <<issues, haveLabels, existing, created>>
    BY <1>0, <1>2 DEF Create, To
  <2>2. FilingTypes'
    BY <1>0, <2>1, MovedTypes DEF FilingTypes
  <2>3. IssuesInv'
    BY <1>0, <2>1, IssuesStay
  <2>4. at \in DOMAIN plan
    BY <1>0, <1>2
  <2>5. number \in DOMAIN issues /\ issues[number].title = plan[at].title /\ ~ issues[number].pull
    BY <1>0, <1>2 DEF RunInv, Known
  <2>6. issues[number].ticket = plan[at].id
    <3>1. plan[at].title # Other
      BY <1>0, <2>4, PlanRight DEF FilingTypes
    <3>2. PICK k \in DOMAIN plan : issues[number].ticket = plan[k].id /\ issues[number].title = plan[k].title
      BY <1>0, <2>5, <3>1 DEF IssuesInv, IssueRight
    <3>3. k = at
      BY <1>0, <2>4, <2>5, <3>2, CheckRight DEF FilingTypes
    <3> QED BY <3>2, <3>3
  <2>7. PICK number0 \in DOMAIN issues : number0 = number
    BY <2>5
  <2>8. /\ RunInv'
        /\ DOMAIN num' = DOMAIN num \cup {at} /\ num'[at] = number /\ at \notin DOMAIN num
        /\ \A k \in DOMAIN num : num'[k] = num[k]
    BY <1>0, <1>2, <2>1, <2>6, <2>7, SameKeeps, NumberedNext
  <2>9. ListInv'
    <3>1. \A k \in Nat : k < at => k < at + 1
      BY <1>0
    <3> QED BY <1>0, <2>1, <3>1 DEF FilingInv, ListInv
  <2>10. BodiesInv'
    <3>1. at \notin created
      BY <1>0, <2>8 DEF RunInv
    <3>2. \A k : Source(k)' = Source(k)
      BY <1>0, <2>1 DEF Source
    <3>3. Source(at) = existing[plan[at].title].body
      BY <3>1 DEF Source
    <3> QED BY <1>0, <1>2, <2>1, <2>8, <3>2, <3>3 DEF FilingInv, BodiesInv
  <2> QED BY <1>0, <2>1, <2>2, <2>3, <2>8, <2>9, <2>10 DEF FilingInv, MilestonesInv
<1>3. CASE at <= Len(plan) /\ plan[at].title \notin DOMAIN existing
  <2> DEFINE x == [title |-> plan[at].title, pull |-> FALSE, open |-> TRUE, milestone |-> MilestoneOf(at),
                   body |-> Body(0, plan[at].refs, {}), ticket |-> plan[at].id]
  <2>1. /\ issues' = Append(issues, x) /\ Len(issues) < MaxIssues
        /\ \/ /\ num' = Append(num, Len(issues) + 1) /\ created' = created \cup {at}
              /\ stage' = "create" /\ at' = at + 1 /\ UNCHANGED <<haveLabels, existing>>
           \/ FilingEnds
    BY <1>0, <1>3 DEF Create, To
  <2>2. at \in DOMAIN plan /\ plan[at].id \in Ids /\ plan[at].id # Other /\ plan[at].title # Other
    BY <1>0, <1>3, PlanRight DEF FilingTypes
  <2>3. MilestoneOf(at) \in DOMAIN milestones /\ milestones[MilestoneOf(at)] = Titles[plan[at].id[1] + 1]
    <3>1. plan[at].id[1] + 1 \in DOMAIN Titles
      BY <1>0, <2>2, CheckRight DEF FilingTypes
    <3>2. Titles[plan[at].id[1] + 1] \in Range(milestones)
      BY <1>0, <3>1 DEF FilingInv, MilestonesInv, Range
    <3>3. \E k \in DOMAIN milestones : milestones[k] = Titles[plan[at].id[1] + 1]
      BY <3>2 DEF Range
    <3> QED BY <3>3 DEF MilestoneOf
  <2>4. x \in Issue
    <3>1. plan[at].refs \subseteq Ids
      BY <1>0, <2>2, CheckRight DEF FilingTypes
    <3>2. Body(0, plan[at].refs, {}) \in IssueBody
      BY <3>1 DEF Body, IssueBody
    <3>3. MilestoneOf(at) \in Nat
      BY <1>0, <2>3 DEF FilingTypes
    <3> QED BY <2>2, <3>2, <3>3 DEF Issue
  <2>5. /\ x.body = Body(0, plan[at].refs, {}) /\ x.body.links = {} /\ x.body.version = 0
        /\ x.ticket = plan[at].id /\ x.title = plan[at].title /\ ~ x.pull /\ x.milestone = MilestoneOf(at)
    BY DEF Body
  <2> HIDE DEF x
  <2>6. \A i \in DOMAIN issues : issues[i].pull \/ issues[i].title # x.title
    <3> SUFFICES ASSUME NEW i \in DOMAIN issues, ~ issues[i].pull, issues[i].title = plan[at].title
                 PROVE  FALSE
      BY <2>5
    <3>1. issues[i].ticket # Other
      BY <1>0, <2>2 DEF IssuesInv, IssueRight
    <3>2. PICK j \in DOMAIN plan : issues[i].ticket = plan[j].id /\ issues[i].title = plan[j].title
      BY <1>0, <3>1 DEF IssuesInv, IssueRight
    <3>3. j = at
      BY <1>0, <2>2, <3>2, CheckRight DEF FilingTypes
    <3>4. PICK k \in DOMAIN plan : issues[i].ticket = plan[k].id /\ k < at
      BY <1>0, <1>3, <3>1 DEF FilingInv, ListInv
    <3>5. k = at
      BY <1>0, <2>2, <3>2, <3>3, <3>4, CheckRight DEF FilingTypes
    <3> QED BY <1>0, <3>4, <3>5
  <2>7. IssuesInv' /\ Keeps /\ issues' \in Seq(Issue')
    BY <1>0, <2>1, <2>2, <2>3, <2>4, <2>5, <2>6, IssuesGrow
  <2>8. PICK last \in Nat : last = Len(issues) + 1
    BY <1>0
  <2>9. /\ DOMAIN issues' = DOMAIN issues \cup {last} /\ Len(issues') = last /\ last \notin DOMAIN issues
        /\ issues'[last] = x /\ \A i \in DOMAIN issues : issues'[i] = issues[i]
    BY <1>0, <2>1, <2>4, <2>8, Grown
  <2>10. last <= MaxIssues
    BY <1>0, <2>1, <2>8, IssueAssumption
  <2>11. Check(plan)' = Check(plan)
    BY <1>0 DEF Check
  <2>12. CASE FilingEnds
    <3>1. FilingTypes'
      BY <1>0, <2>7, <2>9, <2>10, <2>11, <2>12 DEF FilingTypes, FilingEnds, To
    <3> QED BY <2>7, <2>12, <3>1, EndedInv
  <2>13. CASE /\ num' = Append(num, Len(issues) + 1) /\ created' = created \cup {at}
              /\ stage' = "create" /\ at' = at + 1 /\ UNCHANGED <<haveLabels, existing>>
    <3>1. FilingTypes'
      BY <1>0, <2>7, <2>9, <2>10, <2>11, <2>13 DEF FilingTypes
    <3>2. last \in DOMAIN issues' /\ issues'[last].ticket = plan[at].id /\ DOMAIN issues' \subseteq Nat
      BY <1>0, <2>5, <2>9
    <3>3. /\ RunInv'
          /\ DOMAIN num' = DOMAIN num \cup {at} /\ num'[at] = last /\ at \notin DOMAIN num
          /\ \A k \in DOMAIN num : num'[k] = num[k]
      BY <1>0, <1>3, <2>7, <2>8, <2>13, <3>2, NumberedNext
    <3>4. ListInv'
      <4>1. \A k \in Nat : k < at => k < at + 1
        BY <1>0
      <4>2. at < at + 1 /\ at' = at + 1
        BY <1>0, <2>13
      <4>3. ASSUME NEW i \in DOMAIN issues, issues'[i].ticket # Other
            PROVE  issues'[i].title \in DOMAIN existing \/
                   \E k \in DOMAIN plan : issues'[i].ticket = plan[k].id /\ k < at + 1
        <5>1. issues[i].title \in DOMAIN existing \/ \E k \in DOMAIN plan : issues[i].ticket = plan[k].id /\ k < at
          BY <1>0, <2>9, <4>3 DEF FilingInv, ListInv
        <5> QED BY <1>0, <2>9, <4>1, <5>1
      <4>4. \E k \in DOMAIN plan : issues'[last].ticket = plan[k].id /\ k < at + 1
        BY <2>2, <3>2, <4>2
      <4> QED BY <1>0, <2>9, <2>13, <4>2, <4>3, <4>4 DEF ListInv
    <3>5. BodiesInv'
      <4>1. \A title \in DOMAIN existing : existing[title].number \in DOMAIN issues
        BY <1>0 DEF RunInv, Known
      <4>2. \A k \in DOMAIN num : num[k] \in DOMAIN issues /\ Source(k)' = Source(k)
        BY <1>0, <2>13, <3>3 DEF RunInv, Numbered, Source
      <4>3. PICK here : here = at
        OBVIOUS
      <4>4. Source(here)' = Body(0, plan[here].refs, {})
        BY <1>0, <2>13, <4>3 DEF Source, Body
      <4>5. \A k \in DOMAIN num : num'[k] \notin edited => issues'[num'[k]].body = Source(k)'
        BY <1>0, <2>9, <3>3, <4>2 DEF FilingInv, BodiesInv
      <4>6. issues'[num'[here]].body = Source(here)'
        BY <2>5, <2>9, <3>3, <4>4, <4>3
      <4>7. \A title \in DOMAIN existing :
              existing[title].number \notin edited => issues'[existing[title].number].body = existing[title].body
        BY <1>0, <2>9, <4>1 DEF FilingInv, BodiesInv
      <4> QED BY <1>0, <2>13, <3>3, <4>5, <4>6, <4>7, <4>3 DEF BodiesInv
    <3> QED BY <1>0, <2>7, <2>13, <3>1, <3>3, <3>4, <3>5 DEF FilingInv, MilestonesInv
  <2> QED BY <2>1, <2>12, <2>13
<1> QED BY <1>0, <1>1, <1>2, <1>3

---------------------------------------------------------------------------
\* What a run writes for a ticket.
LEMMA SourceRight ==
  ASSUME FilingInv, stage = "rewrite", NEW k \in DOMAIN num
  PROVE  Source(k) \in IssueBody /\ LinksRight(Source(k)) /\ Source(k).version <= edits
<1>0. FilingTypes /\ RunInv /\ Check(plan) /\ Numbered(k) /\ edits \in Nat
  BY IssueAssumption DEF FilingInv, FilingTypes, RunInv
<1>1. CASE k \in created
  <2>1. plan[k].refs \subseteq Ids
    BY <1>0, CheckRight DEF FilingTypes, Numbered
  <2>2. Source(k) = Body(0, plan[k].refs, {})
    BY <1>1 DEF Source
  <2> QED BY <1>0, <2>1, <2>2 DEF Body, IssueBody, LinksRight
<1>2. CASE k \notin created
  <2>1. plan[k].title \in DOMAIN existing /\ Source(k) = existing[plan[k].title].body
    BY <1>0, <1>2 DEF Numbered, Source
  <2> QED BY <1>0, <2>1 DEF RunInv, Known
<1> QED BY <1>1, <1>2

\* A body that was rewritten names no ticket by its plan number, and links right.
LEMMA RewrittenRight ==
  ASSUME FilingInv, stage = "rewrite", NEW body \in IssueBody, LinksRight(body)
  PROVE  /\ Rewritten(body) \in IssueBody /\ LinksRight(Rewritten(body))
         /\ Rewritten(body).version = body.version /\ Rewritten(body).raw = {}
         /\ Rewritten(body) = body => body.raw = {}
<1>0. FilingTypes /\ RunInv /\ num \in Seq(Nat) /\ Len(num) = Len(plan) /\ DOMAIN plan = 1..Len(plan)
  BY PlanRight DEF FilingInv, FilingTypes, RunInv
<1>1. \A id \in Ids : NumberOf(id) \in DOMAIN issues /\ issues[NumberOf(id)].ticket = id /\ NumberOf(id) \in Nat
  <2> SUFFICES ASSUME NEW id \in Ids
               PROVE  NumberOf(id) \in DOMAIN issues /\ issues[NumberOf(id)].ticket = id /\ NumberOf(id) \in Nat
    OBVIOUS
  <2> DEFINE j == CHOOSE k \in DOMAIN plan : plan[k].id = id
  <2>1. j \in DOMAIN plan /\ plan[j].id = id
    BY DEF Ids
  <2> HIDE DEF j
  <2>2. j \in DOMAIN num
    BY <1>0, <2>1
  <2>3. NumberOf(id) = num[j]
    BY DEF NumberOf, j
  <2>4. num[j] \in Nat
    BY <1>0, <2>2
  <2> QED BY <1>0, <2>1, <2>2, <2>3, <2>4 DEF RunInv, Numbered
<1> DEFINE links == body.links \cup {<<id, NumberOf(id)>> : id \in body.raw \cap Ids}
<1>2. links \subseteq Ids \X Nat
  BY <1>1 DEF IssueBody
<1>3. LinksRight(body) /\ \A link \in links : link[2] \in DOMAIN issues /\ issues[link[2]].ticket = link[1]
  BY <1>1 DEF LinksRight
<1>4. body.raw \ Ids = {} /\ body.version \in Nat
  BY DEF IssueBody
<1> HIDE DEF links
<1>5. Rewritten(body) = Body(body.version, {}, links)
  BY <1>4 DEF Rewritten, links
<1>6. Rewritten(body) \in IssueBody /\ LinksRight(Rewritten(body))
  BY <1>2, <1>3, <1>4, <1>5 DEF Body, IssueBody, LinksRight
<1> QED BY <1>5, <1>6 DEF Body

\* The next ticket's body.
LEMMA RewriteInv == ASSUME FilingInv, Rewrite PROVE FilingInv'
<1>0. /\ FilingTypes /\ IssuesInv /\ RunInv /\ stage = "rewrite" /\ Check(plan)
      /\ UNCHANGED <<plan, milestones, labels, edits, runs, edited>>
      /\ issues \in Seq(Issue) /\ at \in Nat \ {0} /\ num \in Seq(Nat) /\ Len(num) = Len(plan)
      /\ at <= Len(plan) + 1 /\ DOMAIN plan = 1..Len(plan) /\ Len(plan) \in Nat /\ edits \in Nat
  BY PlanRight, IssueAssumption DEF FilingInv, FilingTypes, RunInv, Rewrite
<1>1. DOMAIN num = DOMAIN plan /\ DOMAIN plan \subseteq Nat
  BY <1>0
<1>2. \A k \in DOMAIN num : num[k] \in DOMAIN issues
  BY <1>0 DEF RunInv, Numbered
<1>3. CASE at > Len(plan)
  <2>1. stage' = "done" /\ at' = 1 /\ UNCHANGED <<issues, haveLabels, existing, num, created>>
    BY <1>3 DEF Rewrite, To
  <2>2. FilingTypes'
    BY <1>0, <2>1, MovedTypes DEF FilingTypes
  <2>3. IssuesInv'
    BY <1>0, <2>1, IssuesStay
  <2>4. RunInv'
    <3>1. \A title \in DOMAIN existing : Known(title)'
      BY <1>0, <2>1, SameKeeps, KnownStays DEF RunInv
    <3>2. \A k \in DOMAIN num : Numbered(k)'
      BY <1>0, <2>1, SameKeeps, NumberedStays DEF RunInv
    <3> QED BY <1>0, <2>1, <3>1, <3>2 DEF RunInv
  <2>5. BodiesInv'
    <3>1. \A k \in DOMAIN num : k < at
      BY <1>0, <1>3
    <3> QED BY <1>0, <2>1, <3>1 DEF FilingInv, BodiesInv
  <2> QED BY <2>1, <2>2, <2>3, <2>4, <2>5 DEF FilingInv, MilestonesInv, ListInv
<1>4. CASE at <= Len(plan)
  <2>1. at \in DOMAIN num
    BY <1>0, <1>1, <1>4
  <2>2. Source(at) \in IssueBody /\ LinksRight(Source(at)) /\ Source(at).version <= edits
    BY <1>0, <2>1, SourceRight
  <2>3. PICK source \in IssueBody : source = Source(at)
    BY <2>2
  <2>4. PICK body : body = Rewritten(source)
    OBVIOUS
  <2>5. /\ body \in IssueBody /\ LinksRight(body) /\ body.version <= edits /\ body.raw = {}
        /\ body = source => source.raw = {}
    BY <1>0, <2>2, <2>3, <2>4, RewrittenRight
  <2>6. \/ /\ body = source /\ stage' = "rewrite" /\ at' = at + 1
           /\ UNCHANGED <<issues, haveLabels, existing, num, created>>
        \/ /\ issues' = [issues EXCEPT ![num[at]].body = body]
           /\ \/ stage' = "rewrite" /\ at' = at + 1 /\ UNCHANGED <<haveLabels, existing, num, created>>
              \/ FilingEnds
    BY <1>0, <1>4, <2>3, <2>4 DEF Rewrite, To
  <2>7. PICK number \in DOMAIN issues : number = num[at]
    BY <1>2, <2>1
  \* The other tickets have other issues.
  <2>8. \A k \in DOMAIN num : k # at => num[k] # number
    <3>1. \A k \in DOMAIN num : issues[num[k]].ticket = plan[k].id
      BY <1>0 DEF RunInv, Numbered
    <3> QED BY <1>0, <1>1, <2>1, <2>7, <3>1, CheckRight DEF FilingTypes
  <2>9. /\ \A k \in DOMAIN num : at + 1 <= k => at <= k /\ k # at
        /\ \A k \in DOMAIN num : k < at + 1 => k < at \/ k = at
    BY <1>0, <1>1
  \* What is to hold after the ticket, of whatever the body became.
  <2>10. ASSUME Keeps, UNCHANGED <<haveLabels, existing, num, created>>, stage' = "rewrite", at' = at + 1,
                \A k \in DOMAIN issues \ {number} : issues'[k].body = issues[k].body,
                number \notin edited => issues'[number].body.raw = {}
         PROVE  RunInv' /\ MilestonesInv' /\ ListInv' /\ BodiesInv'
    <3>1. RunInv'
      <4>1. \A title \in DOMAIN existing : Known(title)'
        BY <1>0, <2>10, KnownStays DEF RunInv
      <4>2. \A k \in DOMAIN num : Numbered(k)'
        BY <1>0, <2>10, NumberedStays DEF RunInv
      <4>3. at' <= Len(plan) + 1
        BY <1>0, <1>4, <2>10
      <4> QED BY <1>0, <2>10, <4>1, <4>2, <4>3 DEF RunInv
    <3>2. BodiesInv'
      <4>1. \A k : Source(k)' = Source(k)
        BY <1>0, <2>10 DEF Source
      <4>2. ASSUME NEW k \in DOMAIN num, at + 1 <= k, num[k] \notin edited
            PROVE  issues'[num[k]].body = Source(k)
        <5>1. at <= k /\ num[k] # number /\ num[k] \in DOMAIN issues
          BY <1>2, <2>8, <2>9, <4>2
        <5> QED BY <1>0, <2>10, <4>2, <5>1 DEF FilingInv, BodiesInv
      <4>3. ASSUME NEW k \in DOMAIN num, k < at + 1, num[k] \notin edited
            PROVE  issues'[num[k]].body.raw = {}
        <5>1. CASE k = at
          BY <2>7, <2>10, <4>3, <5>1
        <5>2. CASE k < at /\ k # at
          <6>1. num[k] # number /\ num[k] \in DOMAIN issues
            BY <1>2, <2>8, <5>2
          <6> QED BY <1>0, <2>10, <4>3, <5>2, <6>1 DEF FilingInv, BodiesInv
        <5> QED BY <1>0, <1>1, <2>9, <4>3, <5>1, <5>2
      <4> QED BY <1>0, <2>10, <4>1, <4>2, <4>3 DEF BodiesInv
    <3> QED BY <2>10, <3>1, <3>2 DEF MilestonesInv, ListInv
  <2>11. CASE /\ body = source /\ stage' = "rewrite" /\ at' = at + 1
              /\ UNCHANGED <<issues, haveLabels, existing, num, created>>
    <3>1. FilingTypes'
      BY <1>0, <2>11, MovedTypes DEF FilingTypes
    <3>2. IssuesInv'
      BY <1>0, <2>11, IssuesStay
    <3>3. number \notin edited => issues[number].body = source
      BY <1>0, <2>1, <2>3, <2>7 DEF FilingInv, BodiesInv
    <3>4. number \notin edited => issues[number].body.raw = {}
      BY <2>5, <2>11, <3>3
    <3> QED BY <1>0, <2>10, <2>11, <3>1, <3>2, <3>4, SameKeeps DEF FilingInv
  <2>12. CASE /\ issues' = [issues EXCEPT ![num[at]].body = body]
              /\ \/ stage' = "rewrite" /\ at' = at + 1 /\ UNCHANGED <<haveLabels, existing, num, created>>
                 \/ FilingEnds
    <3>1. issues' = [issues EXCEPT ![number].body = body]
      BY <2>7, <2>12
    <3>2. IssuesInv'
      <4>1. edits' \in Nat /\ edits <= edits' /\ body.version <= edits'
        BY <1>0, <2>5
      <4> QED BY <1>0, <2>5, <3>1, <4>1, IssuesChange
    <3>3. /\ issues' \in Seq(Issue') /\ Len(issues') = Len(issues) /\ DOMAIN issues' = DOMAIN issues /\ Keeps
          /\ issues'[number].body = body
          /\ \A k \in DOMAIN issues \ {number} : issues'[k].body = issues[k].body
      BY <1>0, <2>5, <3>1, Changed
    <3>4. Check(plan)' = Check(plan)
      BY <1>0 DEF Check
    <3>5. CASE FilingEnds
      <4>1. FilingTypes'
        BY <1>0, <3>3, <3>4, <3>5 DEF FilingTypes, FilingEnds, To
      <4> QED BY <3>2, <3>5, <4>1, EndedInv
    <3>6. CASE stage' = "rewrite" /\ at' = at + 1 /\ UNCHANGED <<haveLabels, existing, num, created>>
      <4>1. FilingTypes'
        BY <1>0, <3>3, <3>4, <3>6 DEF FilingTypes
      <4> QED BY <2>5, <2>10, <3>2, <3>3, <3>6, <4>1 DEF FilingInv
    <3> QED BY <2>12, <3>5, <3>6
  <2> QED BY <2>6, <2>11, <2>12
<1> QED BY <1>0, <1>3, <1>4

---------------------------------------------------------------------------
\* Every step.
LEMMA FilingStep == FilingInv /\ [IssueNext]_issueVars => FilingInv'
<1> SUFFICES ASSUME FilingInv, [IssueNext]_issueVars PROVE FilingInv'
  OBVIOUS
<1>1. CASE StartFiling \/ Milestone \/ Label \/ List \/ Create \/ Rewrite \/ Fails
  BY <1>1, StartFilingInv, MilestoneInv, LabelInv, ListStep, CreateInv, RewriteInv, FailsInv
<1>2. CASE Opens(Other, FALSE)
  BY <1>2, OpensInv
<1>3. ASSUME NEW k \in DOMAIN plan, Opens(plan[k].title, TRUE) PROVE FilingInv'
  BY <1>3, OpensInv
<1>4. ASSUME NEW i \in DOMAIN issues, Edit(i) \/ CloseIssue(i) PROVE FilingInv'
  BY <1>4, EditInv, CloseInv
<1>5. ASSUME NEW label \in Labels, AddLabel(label) PROVE FilingInv'
  BY <1>5, AddLabelInv
<1>6. CASE UNCHANGED issueVars
  <2>1. UNCHANGED <<plan, issues, milestones, labels, edits, runs, fileVars, edited>>
    BY <1>6 DEF issueVars, githubVars
  <2>2. FilingTypes'
    BY <2>1, MovedTypes DEF FilingInv, FilingTypes, fileVars
  <2>3. IssuesInv'
    BY <2>1, IssuesStay DEF FilingInv
  <2>4. issues' \in Seq(Issue') /\ edits' \in Nat /\ edits <= edits'
    BY <2>1, <2>2, IssueAssumption DEF FilingTypes
  <2> QED BY <2>1, <2>2, <2>3, <2>4, RunStays, SameKeeps DEF FilingInv
<1> QED BY <1>1, <1>2, <1>3, <1>4, <1>5, <1>6 DEF IssueNext

\* What a run of file_issues.py relies on holds at every request, of whatever
\* plan, whatever number of runs before it and whatever is opened and edited.
THEOREM FilingInvariant == IssueSpec => []FilingInv
BY InitFiling, FilingStep, PTL DEF IssueSpec

\* The types of file_issues.py's variables and of GitHub's issues.
LEMMA FilingTyped == ASSUME FilingInv PROVE IssueTypeOK
<1>1. Range(num) \subseteq DOMAIN issues
  BY DEF FilingInv, RunInv, Numbered, Range
<1>2. \A title \in DOMAIN existing : existing[title].number \in DOMAIN issues
  BY DEF FilingInv, RunInv, Known
<1> QED BY <1>1, <1>2 DEF FilingInv, FilingTypes, RunInv, IssueTypeOK

\* Every ticket is filed once and what names it means it, however many runs end
\* at whatever request (file_issues.py:140 to 166).
THEOREM TicketsAreFiledOnce == IssueSpec => []IssuesFiled
<1>1. ASSUME FilingInv PROVE IssuesFiled
  <2>0. FilingTypes /\ IssuesInv /\ RunInv
    BY <1>1 DEF FilingInv
  <2>1. NumbersRight
    BY <2>0 DEF IssuesInv, IssueRight, LinksRight, NumbersRight
  <2>2. ASSUME stage = "done" PROVE DoneMeansFiled
    <3>1. /\ Check(plan) /\ num \in Seq(Nat) /\ Len(num) = Len(plan) /\ DOMAIN plan = 1..Len(plan)
          /\ \A k \in DOMAIN num : num[k] \in DOMAIN issues /\ issues[num[k]].ticket = plan[k].id
      BY <2>0, <2>2, PlanRight DEF FilingTypes, RunInv, Numbered
    <3>2. DOMAIN num = DOMAIN plan
      BY <3>1
    <3>3. ASSUME NEW i \in DOMAIN issues \ edited, issues[i].ticket # Other
          PROVE  issues[i].body.raw \cap Ids = {}
      <4>1. PICK k \in DOMAIN plan :
              issues[i].ticket = plan[k].id /\ issues[i].title = plan[k].title /\ ~ issues[i].pull
        BY <2>0, <3>3 DEF IssuesInv, IssueRight
      <4>2. plan[k].id # Other /\ plan[k].title # Other
        BY <2>0, PlanRight DEF FilingTypes
      <4>3. num[k] \in DOMAIN issues /\ issues[num[k]].ticket = plan[k].id
        BY <3>1, <3>2
      <4>4. PICK j \in DOMAIN plan :
              issues[num[k]].ticket = plan[j].id /\ issues[num[k]].title = plan[j].title /\ ~ issues[num[k]].pull
        BY <2>0, <4>2, <4>3 DEF IssuesInv, IssueRight
      <4>5. j = k
        BY <2>0, <3>1, <4>3, <4>4, CheckRight DEF FilingTypes
      <4>6. num[k] = i
        BY <2>0, <3>3, <4>1, <4>2, <4>3, <4>4, <4>5 DEF IssuesInv, NoDuplicates
      <4>7. issues[num[k]].body.raw = {}
        BY <1>1, <2>2, <3>2, <3>3, <4>6 DEF FilingInv, BodiesInv
      <4> QED BY <4>6, <4>7
    <3>4. \A k \in DOMAIN plan : \E i \in DOMAIN issues : issues[i].ticket = plan[k].id
      BY <3>1, <3>2
    <3> QED BY <3>3, <3>4 DEF DoneMeansFiled
  <2>3. DoneMeansFiled
    BY <2>2 DEF DoneMeansFiled
  <2> QED BY <2>0, <2>1, <2>3 DEF IssuesInv, IssuesFiled
<1> QED BY <1>1, FilingInvariant, PTL

\* A body that somebody edited keeps its text, if the run has listed it since
\* (file_issues.py:157).
THEOREM EditedTextIsKept == IssueSpec => EditsKept
<1> DEFINE Kept == \A i \in DOMAIN issues : issues'[i].body.version < issues[i].body.version => i \in edited
<1>1. ASSUME FilingInv, [IssueNext]_issueVars PROVE Kept
  <2>0. FilingTypes /\ IssuesInv /\ issues \in Seq(Issue) /\ edits \in Nat
    BY <1>1, IssueAssumption DEF FilingInv, FilingTypes
  <2>1. \A i \in DOMAIN issues :
          issues[i] \in Issue /\ issues[i].body.version \in Nat /\ issues[i].body.version <= edits
    <3> SUFFICES ASSUME NEW i \in DOMAIN issues
                 PROVE  issues[i] \in Issue /\ issues[i].body.version \in Nat /\ issues[i].body.version <= edits
      OBVIOUS
    <3>1. issues[i] \in Issue
      BY <2>0
    <3>2. issues[i].body \in IssueBody
      BY <3>1 DEF Issue
    <3> QED BY <2>0, <3>1, <3>2 DEF IssueBody, IssuesInv, IssueRight
  <2>2. ASSUME \A i \in DOMAIN issues : issues'[i].body = issues[i].body PROVE Kept
    BY <2>1, <2>2
  <2>3. CASE StartFiling \/ Milestone \/ Label \/ List \/ Fails \/ UNCHANGED issueVars
    BY <2>2, <2>3 DEF StartFiling, Milestone, Label, List, Fails, githubVars, issueVars
  <2>4. ASSUME NEW label \in Labels, AddLabel(label) PROVE Kept
    BY <2>2, <2>4 DEF AddLabel
  <2>5. ASSUME NEW x, issues' = Append(issues, x) PROVE Kept
    <3>1. \A i \in DOMAIN issues : issues'[i] = issues[i]
      BY <2>0, <2>5
    <3> QED BY <2>2, <3>1
  <2>6. CASE Create
    <3>1. issues' = issues \/ \E x : issues' = Append(issues, x)
      BY <2>6 DEF Create
    <3> QED BY <2>2, <2>5, <3>1
  <2>7. ASSUME NEW title, NEW pull, Opens(title, pull) PROVE Kept
    BY <2>5, <2>7 DEF Opens
  <2>8. ASSUME NEW i \in DOMAIN issues, Edit(i) PROVE Kept
    <3>1. PICK raw : issues' = [issues EXCEPT ![i].body = Body(edits + 1, @.raw \cup raw, @.links)]
      BY <2>8 DEF Edit
    <3>2. PICK body : body = Body(edits + 1, issues[i].body.raw \cup raw, issues[i].body.links)
      OBVIOUS
    <3>3. body.version = edits + 1
      BY <3>2 DEF Body
    <3>4. issues' = [issues EXCEPT ![i] = [issues[i] EXCEPT !.body = body]]
      BY <3>1, <3>2
    <3>5. PICK x : x = [issues[i] EXCEPT !.body = body]
      OBVIOUS
    <3>6. x.body = body
      BY <2>1, <3>5 DEF Issue
    <3>7. issues'[i] = x /\ \A k \in DOMAIN issues \ {i} : issues'[k] = issues[k]
      BY <2>0, <3>4, <3>5
    <3>8. \A k \in DOMAIN issues : ~ (issues'[k].body.version < issues[k].body.version)
      BY <2>0, <2>1, <3>3, <3>6, <3>7
    <3> QED BY <3>8
  <2>9. ASSUME NEW i \in DOMAIN issues, CloseIssue(i) PROVE Kept
    <3>1. PICK x : x = [issues[i] EXCEPT !.open = FALSE]
      OBVIOUS
    <3>2. x.body = issues[i].body
      BY <2>1, <3>1 DEF Issue
    <3>3. issues' = [issues EXCEPT ![i] = x]
      BY <2>9, <3>1 DEF CloseIssue
    <3>4. \A k \in DOMAIN issues : issues'[k].body = issues[k].body
      BY <2>0, <3>2, <3>3
    <3> QED BY <2>2, <3>4
  <2>10. CASE Rewrite
    <3>0. /\ stage = "rewrite" /\ RunInv /\ at \in Nat \ {0} /\ num \in Seq(Nat) /\ Len(num) = Len(plan)
          /\ Len(plan) \in Nat
      BY <1>1, <2>0, <2>10, PlanRight DEF Rewrite, FilingInv, FilingTypes, RunInv
    <3>1. \/ issues' = issues
          \/ at <= Len(plan) /\ issues' = [issues EXCEPT ![num[at]].body = Rewritten(Source(at))]
      BY <2>10, <3>0 DEF Rewrite
    <3>2. CASE at <= Len(plan) /\ issues' = [issues EXCEPT ![num[at]].body = Rewritten(Source(at))]
      <4>1. at \in DOMAIN num
        BY <3>0, <3>2
      <4>2. num[at] \in DOMAIN issues
        BY <3>0, <4>1 DEF RunInv, Numbered
      <4>3. PICK i \in DOMAIN issues : i = num[at]
        BY <4>2
      <4>4. PICK source \in IssueBody : source = Source(at) /\ LinksRight(source)
        BY <1>1, <3>0, <4>1, SourceRight
      <4>5. PICK body \in IssueBody : body = Rewritten(source) /\ body.version = source.version
        BY <1>1, <3>0, <4>4, RewrittenRight
      <4>6. issues' = [issues EXCEPT ![i].body = body] /\ plan' = plan
        BY <2>10, <3>2, <4>3, <4>4, <4>5 DEF Rewrite
      <4>7. issues'[i].body = body /\ \A k \in DOMAIN issues \ {i} : issues'[k].body = issues[k].body
        BY <2>0, <4>6, Changed
      <4>8. i \notin edited => issues[i].body = source
        BY <1>1, <3>0, <4>1, <4>3, <4>4 DEF FilingInv, BodiesInv
      <4>9. i \in edited \/ ~ (issues'[i].body.version < issues[i].body.version)
        BY <2>1, <4>5, <4>7, <4>8
      <4>10. \A k \in DOMAIN issues \ {i} : ~ (issues'[k].body.version < issues[k].body.version)
        BY <2>1, <4>7
      <4> QED BY <4>9, <4>10
    <3> QED BY <2>2, <3>1, <3>2
  <2> HIDE DEF Kept
  <2> QED BY <1>1, <2>3, <2>4, <2>6, <2>7, <2>8, <2>9, <2>10 DEF IssueNext
<1>2. FilingInv /\ [IssueNext]_issueVars => [Kept]_issueVars
  BY <1>1
<1> HIDE DEF Kept
<1>3. IssueSpec => [][Kept]_issueVars
  BY <1>2, FilingInvariant, PTL DEF IssueSpec
<1> QED BY <1>3, PTL DEF Kept, EditsKept

---------------------------------------------------------------------------
(***************************************************************************)
(* All scripts, as they run beside each other.                             *)
(***************************************************************************)

ComposeInv == ComposeTypeOK /\ Len(files) \in Nat /\ DOMAIN files = 1..Len(files)

\* Every step of the check of the compose files keeps its types.
LEMMA ComposeStep == ComposeInv /\ [ComposeNext]_composeVars => ComposeInv'
<1> SUFFICES ASSUME ComposeInv, [ComposeNext]_composeVars PROVE ComposeInv'
  OBVIOUS
<1>1. CASE CheckStacks
  <2>1. nextFile' = 1 /\ Len(files) \in Nat /\ files' = files
    BY <1>1 DEF CheckStacks, ComposeInv
  <2>2. failed' \in BOOLEAN
    BY <1>1 DEF CheckStacks
  <2>3. nextFile' \in 0..(Len(files) + 1)
    BY <2>1
  <2> QED BY <2>1, <2>2, <2>3 DEF ComposeInv, ComposeTypeOK
<1>2. CASE CheckNext
  <2>1. nextFile' = nextFile + 1 /\ nextFile \in 1..Len(files) /\ Len(files) \in Nat /\ files' = files
    BY <1>2 DEF CheckNext, ComposeInv
  <2>2. failed' \in BOOLEAN
    BY <1>2 DEF CheckNext, Found
  <2>3. nextFile' \in 0..(Len(files) + 1)
    BY <2>1
  <2> QED BY <2>1, <2>2, <2>3 DEF ComposeInv, ComposeTypeOK
<1>3. CASE UNCHANGED composeVars
  BY <1>3 DEF composeVars, ComposeInv, ComposeTypeOK
<1> QED BY <1>1, <1>2, <1>3 DEF ComposeNext

ScriptsInv ==
  /\ UpdInv /\ ReportTypes /\ ComposeInv
  /\ script = "issues" => FilingInv
  /\ script # "issues" => IssueTypeOK

\* It holds at first,
LEMMA ScriptsInit == MCInit => ScriptsInv
<1> SUFFICES ASSUME MCInit PROVE ScriptsInv
  OBVIOUS
<1>1. UpdInv
  BY UpdInit DEF MCInit
<1>2. ReportTypes
  <2>1. ReportInit \/ (reportAt = "done" /\ attempt = 1 /\ spent = 0)
    BY DEF MCInit
  <2>2. SpentInv
    BY <2>1, SpentInitially DEF SpentInv
  <2>3. written.compared = FALSE
    BY DEF MCInit, ReportInit, NotWritten
  <2> QED BY <2>2, <2>3, Zenon DEF ReportTypes
<1>3. ComposeInv
  <2>1. CASE script = "compose"
    <3>1. files \in FileSets /\ nextFile = 0 /\ failed = FALSE
      BY <2>1 DEF MCInit, ComposeInit
    <3>2. /\ DOMAIN files = 1..Len(files) /\ Len(files) \in Nat
          /\ \A k \in DOMAIN files : DOMAIN files[k] = {"dir", "doc"}
      BY <3>1, ComposeAssumption
    <3>3. failed \in BOOLEAN
      BY <3>1, Zenon
    <3>4. nextFile \in 0..(Len(files) + 1)
      BY <3>1, <3>2
    <3> QED BY <3>2, <3>3, <3>4 DEF ComposeInv, ComposeTypeOK
  <2>2. CASE script # "compose"
    <3>1. files = <<>> /\ nextFile = 0 /\ failed = FALSE
      BY <2>2 DEF MCInit
    <3>2. DOMAIN files = {} /\ Len(files) = 0 /\ 1..0 = {}
      BY <3>1
    <3>3. failed \in BOOLEAN
      BY <3>1, Zenon
    <3>4. nextFile \in 0..(Len(files) + 1)
      BY <3>1, <3>2
    <3> QED BY <3>2, <3>3, <3>4 DEF ComposeInv, ComposeTypeOK
  <2> QED BY <2>1, <2>2
<1>4. script = "issues" => FilingInv
  BY InitFiling DEF MCInit
<1>5. ASSUME script # "issues" PROVE IssueTypeOK
  <2>1. /\ issues = <<>> /\ labels = {} /\ edits = 0 /\ runs = 0 /\ stage = "idle" /\ at = 1 /\ haveLabels = {}
        /\ existing = <<>> /\ num = <<>> /\ created = {} /\ edited = {}
    BY <1>5 DEF MCInit
  <2>2. Len(issues) = 0 /\ DOMAIN num = {} /\ DOMAIN existing = {}
    BY <2>1
  <2> QED BY <2>1, <2>2, IssueAssumption DEF IssueTypeOK, Range
<1> QED BY <1>1, <1>2, <1>3, <1>4, <1>5 DEF ScriptsInv

\* and at every step of the script that runs; the others stand still.
LEMMA ScriptsStep == ScriptsInv /\ [MCNext]_<<script, vars, reportVars, composeVars, issueVars>> => ScriptsInv'
<1> SUFFICES ASSUME ScriptsInv, [MCNext]_<<script, vars, reportVars, composeVars, issueVars>> PROVE ScriptsInv'
  OBVIOUS
<1>1. /\ script' = script /\ [Next]_vars /\ [ReportNext]_reportVars /\ [ComposeNext]_composeVars
      /\ \/ script = "issues" /\ [IssueNext]_issueVars
         \/ UNCHANGED issueVars
  BY DEF MCNext, Update, Report, Compose, Issues
<1>2. UpdInv'
  BY <1>1, UpdStep DEF ScriptsInv
<1>3. ReportTypes'
  BY <1>1, ReportTypesStep DEF ScriptsInv
<1>4. ComposeInv'
  BY <1>1, ComposeStep DEF ScriptsInv
<1>5. script = "issues" => FilingInv'
  BY <1>1, FilingStep DEF ScriptsInv
<1>6. ASSUME script # "issues" PROVE IssueTypeOK'
  <2>1. UNCHANGED issueVars
    BY <1>1, <1>6
  <2>2. UNCHANGED <<issues, labels, edits, runs, stage, at, haveLabels, existing, num, created, edited>>
    BY <2>1 DEF issueVars, githubVars, fileVars
  <2> QED BY <1>6, <2>2 DEF ScriptsInv, IssueTypeOK, Range
<1> QED BY <1>1, <1>2, <1>3, <1>4, <1>5, <1>6 DEF ScriptsInv

\* The types of every script's variables, for any instance of them.
THEOREM ScriptsTypeCorrect == MCSpec => []TypeOK
<1>1. UpdInv => UpdateTypeOK
  BY DEF UpdInv, BranchInv, UpdateTypeOK
<1>2. ReportTypes => ReportTypeOK
  BY ReportAssumption DEF ReportTypes, SpentInv, ReportTypeOK
<1>3. ScriptsInv => TypeOK
  BY <1>1, <1>2, FilingTyped DEF ScriptsInv, ComposeInv, TypeOK
<1> QED BY <1>3, ScriptsInit, ScriptsStep, PTL DEF MCSpec
=============================================================================
