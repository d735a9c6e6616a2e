---------------------------- MODULE FlakeUpdate -----------------------------
(***************************************************************************)
(* The weekly update of flake.lock: the two jobs of update-flake-lock.yml  *)
(* with the subcommands of scripts/flake_update.py they run, the branches  *)
(* the inputs follow, the pull request and its reviewer.  The job that     *)
(* updates runs other people's code and may hand over any lock; the job    *)
(* with the write token checks it.                                         *)
(***************************************************************************)
EXTENDS FlakeLock, GitHubBranches, FiniteSets

CONSTANTS
  FirstLock,   \* main's lock at the beginning
  Handed,      \* the locks an update job that is not to be trusted may hand over
  Events       \* what may happen besides

AllEvents == {"lookupFails", "jobFails", "untrusted", "review"}

\* The direct inputs: they are called as their nodes are.
Direct == DOMAIN DirectInputs(FirstLock)

ASSUME UpdateAssumption ==
  /\ Events \subseteq AllEvents
  /\ "root" \in DOMAIN FirstLock.nodes /\ "locked" \notin DOMAIN FirstLock.nodes.root
  /\ DOMAIN FirstLock.nodes \subseteq Inputs \cup {"root"} /\ "root" \notin Inputs
  /\ Nixpkgs \in Direct /\ Cooling = Inputs \ {Nixpkgs}
  /\ \A name \in DOMAIN FirstLock.nodes.root.inputs :
       FirstLock.nodes.root.inputs[name] \in
         {name, Follows} \cap ((Inputs \cap DOMAIN FirstLock.nodes) \cup {Follows})
  /\ \A i \in DOMAIN FirstLock.nodes \ {"root"} : Rev(FirstLock, i) \in Commits
  /\ Missing \notin Commits

\* Any lock that is handed over is one that json.loads reads; the check fails
\* on any other.
ASSUME HandedAssumption == IsLock(FirstLock) /\ \A lock \in Handed : IsLock(lock)

\* What inputs bring is as nix writes it: each node below an input is pinned to a
\* commit, from GitHub or not.  nix gives no two inputs one node.
ASSUME OwnAssumption ==
  /\ \A i \in Direct : DOMAIN Own[i] = Commits
  /\ \A i \in Direct, c \in Commits : \A n \in DOMAIN Own[i][c].nodes :
       LET node == Own[i][c].nodes[n]
       IN  /\ IsDict(node) /\ "locked" \in DOMAIN node /\ IsDict(node.locked)
           /\ OfCommit(node.locked) /\ node.locked.rev \in Commits
  /\ \A i, j \in Direct : /\ Below(i) \cap (Direct \cup {"root"}) = {}
                          /\ i # j => Below(i) \cap Below(j) = {}

\* So is the first lock, and all it pins is GitHub's.
ASSUME WrittenAssumption ==
  /\ \A field \in {"rev", "narHash", "lastModified"} : Commits \subseteq WellFormed[field]
  /\ \A i \in DOMAIN FirstLock.nodes \ {"root"} :
       LET node == FirstLock.nodes[i]
       IN  /\ OfCommit(node.locked) /\ Get(node.locked, "type") = "github"
           /\ "inputs" \in DOMAIN node => node.inputs # Missing

VARIABLES
  mainLock,   \* main's flake.lock
  step,       \* where the workflow run is; "idle" between two runs
  old, new,   \* its flake.lock: as checked out, and as updated
  others,     \* --others
  todo,       \* the inputs its loop has still to look at
  excused,    \* history: the inputs this run may leave as they are
  cleared,    \* history: the day its check let an input move
  pr          \* the pull request and its branch

runVars == <<mainLock, step, old, new, others, todo, excused, cleared, pr>>
vars == <<runVars, branchVars>>

Steps == {"idle", "ask", "update", "others", "handed", "forged", "check", "publish"}
NoDays == [i \in Inputs |-> 0]
NoPr == [state |-> "none", base |-> FirstLock, lock |-> FirstLock, rows |-> {},
         ci |-> "none", cleared |-> NoDays, current |-> TRUE]

\* The table of a pull request's body: the inputs moved, from and to.
Rows(a, b) == {<<n, Rev(a, n), Rev(b, n)>> : n \in Moved(a, b)}

RunTypeOK ==
  /\ step \in Steps
  /\ others \in BOOLEAN
  /\ todo \subseteq Inputs \cup {"root"} /\ excused \subseteq Inputs
  /\ cleared \in [Inputs -> Days]
  /\ pr.state \in {"none", "open", "closed"}
  /\ pr.ci \in {"none", "green"}
  /\ pr.cleared \in [Inputs -> Days]
  /\ pr.current \in BOOLEAN
  /\ \A lock \in {mainLock, old, pr.base} : DOMAIN lock.nodes = DOMAIN FirstLock.nodes

UpdateTypeOK == BranchTypeOK /\ RunTypeOK

\* `base` is the lock of the commit that the branch's one is made on, `cleared`
\* and `current` are histories: the days of the check, and whether the body was
\* written for this lock.
Init ==
  /\ BranchInit
  /\ mainLock = FirstLock
  /\ step = "idle" /\ old = FirstLock /\ new = FirstLock /\ others = FALSE
  /\ todo = {} /\ excused = {} /\ cleared = NoDays
  /\ pr = NoPr

May(e) == e \in Events

At(from, to) == step = from /\ step' = to

\* The run is over, and its files with it.
RunEnds ==
  /\ step' = "idle"
  /\ old' = FirstLock /\ new' = FirstLock /\ others' = FALSE
  /\ todo' = {} /\ excused' = {} /\ cleared' = NoDays

---------------------------------------------------------------------------
\* The update job.

\* On Monday or by hand, with main as it is; the second job checks out the same
\* commit.  The first run of a month takes the other inputs along.
Start ==
  /\ step = "idle"
  /\ old' = mainLock /\ new' = mainLock /\ excused' = {}
  /\ others' \in BOOLEAN
  /\ step' = IF others' THEN "update" ELSE "ask"
  /\ UNCHANGED <<mainLock, todo, cleared, pr, branchVars>>

\* (Mutant) Only the first run of the month moves them.
AskNothing ==
  /\ At("ask", "update")
  /\ others' = FALSE
  /\ excused' = IF pr.state = "open" THEN {} ELSE Inputs
  /\ UNCHANGED <<mainLock, old, new, todo, cleared, pr, branchVars>>

\* Is the last run's pull request open, and did it move them?  If so this run
\* must, too.  A lookup that fails answers no.
AskCarry ==
  /\ At("ask", "update")
  /\ others' = (pr.state = "open" /\ Carry(old, pr.lock))
  /\ excused' = IF pr.state = "open" THEN {} ELSE Inputs
  /\ UNCHANGED <<mainLock, old, new, todo, cleared, pr, branchVars>>

AskFails ==
  /\ May("lookupFails") /\ At("ask", "update")
  /\ others' = FALSE /\ excused' = Inputs
  /\ UNCHANGED <<mainLock, old, new, todo, cleared, pr, branchVars>>

\* `nix flake update nixpkgs`: the head of its branch, as it is.
UpdateNixpkgs ==
  /\ branch[Nixpkgs] # Gone
  /\ At("update", "others")
  /\ new' = Pin(new, Nixpkgs, branch[Nixpkgs])
  /\ todo' = IF others THEN DOMAIN DirectInputs(old) \ {Nixpkgs} ELSE {}
  /\ others' = FALSE   \* not asked again
  /\ UNCHANGED <<mainLock, old, excused, cleared, pr, branchVars>>

\* cooled_commit: the commit an input is to move to, if there is one.
CooledCommits(i) ==
  {c \in CooledHeads(i) : /\ Compare(Rev(old, i), c) = "ahead"
                          /\ Compare(c, branch[i]) \in {"ahead", "identical"}}

UpdateInput(i) ==
  /\ step = "others" /\ i \in todo
  /\ todo' = todo \ {i}
  /\ IF DirectInputs(old)[i].locked.type = "github" /\ CooledCommits(i) # {}
     THEN /\ \E c \in CooledCommits(i) : new' = Pin(new, i, c)
          /\ UNCHANGED excused
     ELSE /\ excused' = excused \cup {i} /\ UNCHANGED new
  /\ UNCHANGED <<mainLock, step, old, others, cleared, pr, branchVars>>

\* An input whose lookup fails is left as it is.
UpdateInputFails(i) ==
  /\ May("lookupFails") /\ step = "others" /\ i \in todo
  /\ todo' = todo \ {i} /\ excused' = excused \cup {i}
  /\ UNCHANGED <<mainLock, step, old, new, others, cleared, pr, branchVars>>

\* A week with no change ends here.  Else the systems are built and compared
\* (UpdateReport), and the lock goes to the next job.
UpdateDone ==
  /\ step = "others" /\ todo = {}
  /\ \/ new = old /\ RunEnds
     \/ new # old /\ step' = "handed" /\ UNCHANGED <<old, new, others, todo, excused, cleared>>
  /\ UNCHANGED <<mainLock, pr, branchVars>>

\* The job ran the new inputs' code: what it hands over may be anything.
UpdateUntrusted ==
  /\ May("untrusted") /\ At("others", "forged")
  /\ new' \in Handed
  /\ excused' = Inputs /\ todo' = {}
  /\ UNCHANGED <<mainLock, old, others, cleared, pr, branchVars>>

---------------------------------------------------------------------------
\* The pr job.

\* `check`: what may differ between the locks.
CheckLock ==
  /\ step \in {"handed", "forged"}
  /\ IF NoLockProblems(old, new)
     THEN step' = "check" /\ todo' = Moved(old, new) /\ UNCHANGED <<old, new, others, excused, cleared>>
     ELSE RunEnds
  /\ UNCHANGED <<mainLock, pr, branchVars>>

\* (Mutant) The update job is trusted with the cooldown.
CooledTrusted(i) == TRUE

\* The cooldown, for what has one.
Cooled(i) ==
  i # Nixpkgs => \E head \in CooledHeads(i) : Compare(Rev(new, i), head) \in {"ahead", "identical"}

\* (Mutant) It is noted for the day after.
ClearTomorrow(i) ==
  /\ todo' = todo \ {i}
  /\ cleared' = [cleared EXCEPT ![i] = IF i \in Cooling THEN today + 1 ELSE 0]

Clear(i) ==
  /\ todo' = todo \ {i}
  /\ cleared' = [cleared EXCEPT ![i] = IF i \in Cooling THEN today ELSE 0]

\* `check`: an input that moved; one that may not refuses the whole lock.
CheckInput(i) ==
  /\ step = "check" /\ i \in todo
  /\ IF i \in Inputs /\ OnBranch(i, Rev(old, i), Rev(new, i)) /\ Cooled(i)
     THEN Clear(i) /\ UNCHANGED <<step, old, new, others, excused>>
     ELSE RunEnds
  /\ UNCHANGED <<mainLock, pr, branchVars>>

\* `git push --force`: a closed pull request whose branch was rewritten cannot
\* be opened again.
Push ==
  /\ step = "check" /\ todo = {}
  /\ step' = "publish"
  /\ pr' = [state |-> IF pr.state = "open" THEN "open" ELSE "none",
            base |-> old, lock |-> new, rows |-> pr.rows,
            ci |-> "none", cleared |-> cleared, current |-> FALSE]
  /\ UNCHANGED <<mainLock, old, new, others, todo, excused, cleared, branchVars>>

\* (Mutant) The body of an open pull request is left as it is.
PublishNew ==
  /\ step = "publish" /\ RunEnds
  /\ pr' = [pr EXCEPT !.state = "open", !.current = TRUE,
                      !.rows = IF pr.state = "open" THEN @ ELSE Rows(old, new)]
  /\ UNCHANGED <<mainLock, branchVars>>

\* `gh pr edit`, or `gh pr create`.
Publish ==
  /\ step = "publish" /\ RunEnds
  /\ pr' = [pr EXCEPT !.state = "open", !.rows = Rows(old, new), !.current = TRUE]
  /\ UNCHANGED <<mainLock, branchVars>>

\* A command or a lookup fails, and with it the job: also the check that could
\* not ask, and the edit after the push.
JobFails ==
  /\ May("jobFails") /\ step # "idle" /\ RunEnds
  /\ UNCHANGED <<mainLock, pr, branchVars>>

---------------------------------------------------------------------------
\* The reviewer.

Close ==
  /\ May("review") /\ pr.state = "open"
  /\ pr' = [pr EXCEPT !.state = "closed"]
  /\ UNCHANGED <<mainLock, step, old, new, others, todo, excused, cleared, branchVars>>

\* This starts CI on the branch's commit.
Reopen ==
  /\ May("review") /\ pr.state = "closed"
  /\ \E ci \in {"none", "green"} : pr' = [pr EXCEPT !.state = "open", !.ci = ci]
  /\ UNCHANGED <<mainLock, step, old, new, others, todo, excused, cleared, branchVars>>

\* git's three-way merge, node by node.
Mergeable(base, ours, theirs) ==
  \A n \in DOMAIN base.nodes :
    \/ ours.nodes[n] = base.nodes[n] \/ theirs.nodes[n] = base.nodes[n]
    \/ ours.nodes[n] = theirs.nodes[n]

Merged(base, ours, theirs) ==
  [ours EXCEPT !.nodes = [n \in DOMAIN ours.nodes |->
     IF ours.nodes[n] = base.nodes[n] THEN theirs.nodes[n] ELSE ours.nodes[n]]]

Merge ==
  /\ May("review") /\ pr.state = "open" /\ pr.ci = "green"
  /\ Mergeable(pr.base, mainLock, pr.lock)
  /\ mainLock' = Merged(pr.base, mainLock, pr.lock)
  /\ pr' = [pr EXCEPT !.state = "none", !.rows = {}, !.ci = "none"]
  /\ UNCHANGED <<step, old, new, others, todo, excused, cleared, branchVars>>

Next ==
  \/ GitHubMoves /\ UNCHANGED runVars
  \/ Start \/ AskCarry \/ AskFails \/ UpdateNixpkgs \/ UpdateDone \/ UpdateUntrusted
  \/ \E i \in todo : UpdateInput(i) \/ UpdateInputFails(i) \/ CheckInput(i)
  \/ CheckLock \/ Push \/ Publish \/ JobFails
  \/ Close \/ Reopen \/ Merge

Spec == Init /\ [][Next]_vars

---------------------------------------------------------------------------

\* May the lock move an input from one commit to another, checked on a day?  It
\* descends, and but for nixpkgs, the branch held it a cooldown before that.
MayMove(i, from, to, day) ==
  /\ <<from, to>> \in Before
  /\ i # Nixpkgs => day >= Cooldown /\ <<to, held[i][day - Cooldown]>> \in Before

\* Whatever the update job hands over, and however the branches are pushed,
\* forced, deleted and made again meanwhile, the lock on the pull request's
\* branch is its base's with some inputs pinned to commits that descend from
\* the old ones and that their branch held at least Cooldown days before.
CheckedMoves ==
  /\ OnlyPinsMoved(pr.base, pr.lock)
  /\ \A i \in Moved(pr.base, pr.lock) :
       MayMove(i, Rev(pr.base, i), Rev(pr.lock, i), pr.cleared[i])

\* The table the reviewer reads is of the lock on the branch, unless the job
\* failed between the push and the edit of the body.
TableIsOfTheLock == pr.state = "open" /\ pr.current => pr.rows = Rows(pr.base, pr.lock)

\* Of an update job that does what it should, the next job refuses the lock for
\* its form exactly when an input that it updated has, at its new commit, gained
\* or lost an input of its own, or has it wired otherwise or from another place
\* (updates.md:106): all else that nix writes for new commits, below an input
\* too, is let through.
HonestLockAccepted ==
  step = "handed" =>
    (NoLockProblems(old, new) <=>
       \A i \in DOMAIN DirectInputs(old) :
         i = Nixpkgs \/ Rev(old, i) # Rev(new, i) => OwnKept(old, i, Rev(new, i)))

\* A merge never moves an input back, also when main moved since the run that
\* made the pull request.
MergesMoveForward ==
  [][mainLock' # mainLock =>
       \A i \in Inputs \cap DOMAIN FirstLock.nodes :
         <<Rev(mainLock, i), Rev(mainLock', i)>> \in Before]_vars

\* A run that replaces an open pull request moves the inputs that it moved,
\* unless it was not open when the run asked, the lookup of one failed, or there
\* is no cooled commit to move to.
MonthlyNotDropped ==
  [][pr.state = "open" /\ step = "check" /\ step' = "publish" =>
       \A i \in (Moved(old, pr.lock) \cap DOMAIN DirectInputs(old)) \ ({Nixpkgs} \cup excused) :
         i \in Moved(old, new)]_vars
=============================================================================
