--------------------------- MODULE GitHubBranches ---------------------------
(***************************************************************************)
(* The branches that flake inputs follow, on GitHub, and what              *)
(* scripts/flake_update.py can learn of them: the comparison of two        *)
(* commits and the activity log of pushes, with the time each arrived.     *)
(***************************************************************************)
EXTENDS Naturals, Sequences

CONSTANTS
  Inputs,     \* the nodes of the lock that follow a branch
  Commits,    \* commits
  Repo,       \* those of each input's repository, pushed to the branch or not
  Cooling,    \* the inputs whose log is read
  Before,     \* pairs of a commit and one that descends from it
  Gone,       \* the head of a deleted branch
  First,      \* what each branch held when its log begins
  Cooldown,   \* --cooldown-days
  LogPage,    \* per_page: how many pushes the log shows
  MaxDay,     \* bound: the clock, in days
  MaxPushes   \* bound: pushes to all branches

ASSUME OrderAssumption ==
  /\ Before \subseteq Commits \X Commits
  /\ \A c \in Commits : <<c, c>> \in Before
  /\ \A a, b, c \in Commits : <<a, b>> \in Before /\ <<b, c>> \in Before => <<a, c>> \in Before
  /\ \A a, b \in Commits : <<a, b>> \in Before /\ <<b, a>> \in Before => a = b
ASSUME BranchAssumption ==
  /\ Cooling \subseteq Inputs
  /\ Repo \in [Inputs -> SUBSET Commits] /\ First \in [Inputs -> Commits] /\ Gone \notin Commits
  /\ Cooldown \in Nat \ {0} /\ LogPage \in Nat /\ MaxDay \in Nat /\ MaxPushes \in Nat

VARIABLES
  today,    \* days since the logs begin
  branch,   \* each branch's head
  log,      \* its activity log, oldest first
  pushes,   \* history: how many pushes there were
  held      \* history: the head the branch had, or last had, at the end of a day

branchVars == <<today, branch, log, pushes, held>>

Days == 0..MaxDay
PushKinds == {"branch_creation", "push", "force_push", "branch_deletion"}
Pushes == [after : Commits, at : Days, kind : PushKinds]

BranchTypeOK ==
  /\ today \in Days
  /\ branch \in [Inputs -> Commits \cup {Gone}]
  /\ log \in [Inputs -> Seq(Pushes)]
  /\ pushes \in 0..MaxPushes
  /\ held \in [Inputs -> [Days -> Commits]]

BranchInit ==
  /\ today = 0
  /\ branch = First
  /\ log = [i \in Inputs |-> <<[after |-> First[i], at |-> 0, kind |-> "branch_creation"]>>]
  /\ pushes = 0
  /\ held = [i \in Inputs |-> [d \in Days |-> First[i]]]

DayPasses ==
  /\ today < MaxDay /\ today' = today + 1
  /\ held' = [i \in Inputs |-> [held[i] EXCEPT ![today + 1] = held[i][today]]]
  /\ UNCHANGED <<branch, log, pushes>>

Logged(i, after, kind) ==
  /\ i \in Cooling
  /\ pushes < MaxPushes /\ pushes' = pushes + 1
  /\ log' = [log EXCEPT ![i] = Append(@, [after |-> after, at |-> today, kind |-> kind])]
  /\ UNCHANGED today

\* The head moves to c: forward, or by force, or to a branch made again.
PushTo(i, c) ==
  /\ c # branch[i]
  /\ Logged(i, c, IF branch[i] = Gone THEN "branch_creation"
                  ELSE IF <<branch[i], c>> \in Before THEN "push" ELSE "force_push")
  /\ branch' = [branch EXCEPT ![i] = c]
  /\ held' = [held EXCEPT ![i][today] = c]

\* An input whose log nobody reads: its head is all there is to know of it.
PushUnread(i, c) ==
  /\ i \notin Cooling
  /\ branch' = [branch EXCEPT ![i] = c]
  /\ UNCHANGED <<today, log, pushes, held>>

\* (Its entry's `after` is never looked at.)
DeleteBranch(i) ==
  /\ branch[i] # Gone
  /\ Logged(i, First[i], "branch_deletion")
  /\ branch' = [branch EXCEPT ![i] = Gone]
  /\ UNCHANGED held

GitHubMoves ==
  \/ DayPasses
  \/ \E i \in Inputs : DeleteBranch(i) \/ \E c \in Repo[i] : PushTo(i, c) \/ PushUnread(i, c)

---------------------------------------------------------------------------

\* GitHub's status of /compare/BASE...HEAD.
Compare(base, head) ==
  IF base = head THEN "identical"
  ELSE IF <<base, head>> \in Before THEN "ahead"
  ELSE IF <<head, base>> \in Before THEN "behind"
  ELSE "diverged"

\* (Mutant) The new commit need not descend from the old one.
OnBranchOnly(i, old, new) == Compare(new, branch[i]) \in {"ahead", "identical"}

\* on_branch: the new commit descends from the old one, and is still on the
\* branch.
OnBranch(i, old, new) ==
  /\ Compare(old, new) = "ahead"
  /\ Compare(new, branch[i]) \in {"ahead", "identical"}

\* The pushes that cooled_head may take the head from.
OldPushes(i) ==
  {k \in DOMAIN log[i] : /\ Len(log[i]) - k < LogPage
                         /\ log[i][k].at + Cooldown <= today
                         /\ log[i][k].kind # "branch_deletion"}

\* The newest of them, if there is one.
NewestOf(ks) == {k \in ks : \A j \in ks : j <= k}

\* cooled_head: the head it finds, or none.
CooledHeads(i) == {log[i][k].after : k \in NewestOf(OldPushes(i))}
=============================================================================
