------------------------- MODULE FlakeUpdateProofs --------------------------
(***************************************************************************)
(* What the check of the weekly update guarantees, for any inputs, commits *)
(* and locks, with every event allowed, and what its report says.          *)
(***************************************************************************)
EXTENDS FlakeUpdate, UpdateReport, TLAPS

---------------------------------------------------------------------------
\* The rules for what may differ.

\* One node's pin: if the rules find nothing, it is the old one, or that of a
\* GitHub input with the movable fields replaced.
LEMMA SoundPin ==
  ASSUME NEW ol, NEW nl, IsDict(ol), IsDict(nl), LockedSound(ol, nl),
         Get(ol, "rev") # Get(nl, "rev")
  PROVE  /\ Get(ol, "type") = "github"
         /\ \A field \in {"rev", "narHash", "lastModified"} \cap DOMAIN nl :
              nl[field] \in WellFormed[field]
         /\ nl = Repinned(ol, nl.rev, nl.narHash, nl.lastModified)
<1>1. /\ DOMAIN ol = DOMAIN nl
      /\ Get(ol, "type") = "github"
      /\ \A key \in DOMAIN nl :
           IF key \in {"rev", "narHash", "lastModified"}
           THEN nl[key] \in WellFormed[key] ELSE ol[key] = nl[key]
  BY DEF LockedSound, Get, Movable
<1> DEFINE made == Repinned(ol, nl.rev, nl.narHash, nl.lastModified)
<1>2. made = [x \in DOMAIN nl |-> made[x]]
  BY <1>1 DEF Repinned
<1>3. \A x \in DOMAIN nl : made[x] = nl[x]
  BY <1>1 DEF Repinned
<1>4. nl = [x \in DOMAIN nl |-> nl[x]]
  BY DEF IsDict
<1> QED BY <1>1, <1>2, <1>3, <1>4

\* One node: if it is not moved it is the same, and if it is, only its pin.
LEMMA SoundNode ==
  ASSUME NEW o, NEW n, IsDict(o), IsDict(n), NodeSound(o, n),
         "locked" \in DOMAIN o => IsDict(o.locked), "locked" \in DOMAIN n => IsDict(n.locked)
  PROVE  /\ "locked" \notin DOMAIN o => n = o
         /\ "locked" \in DOMAIN o /\ Get(o.locked, "rev") = Get(n.locked, "rev") => n = o
         /\ "locked" \in DOMAIN o => n = [o EXCEPT !.locked = n.locked]
<1>1. DOMAIN o = DOMAIN n /\ \A key \in DOMAIN o \ {"locked"} : o[key] = n[key]
  BY DEF NodeSound, Get
<1>2. ASSUME "locked" \notin DOMAIN o PROVE n = o
  <2>1. \A key \in DOMAIN o : o[key] = n[key]
    BY <1>1, <1>2
  <2> QED BY <1>1, <2>1 DEF IsDict
<1>3. ASSUME "locked" \in DOMAIN o PROVE n = [o EXCEPT !.locked = n.locked]
  <2> DEFINE made == [o EXCEPT !.locked = n.locked]
  <2>1. made = [x \in DOMAIN n |-> made[x]]
    BY <1>1
  <2>2. \A x \in DOMAIN n : made[x] = n[x]
    BY <1>1
  <2>3. n = [x \in DOMAIN n |-> n[x]]
    BY DEF IsDict
  <2> QED BY <2>1, <2>2, <2>3
<1>4. ASSUME "locked" \in DOMAIN o, Get(o.locked, "rev") = Get(n.locked, "rev") PROVE n = o
  <2>1. o.locked = n.locked
    BY <1>4 DEF NodeSound, LockedSound
  <2>2. \A key \in DOMAIN o : o[key] = n[key]
    BY <1>1, <2>1
  <2> QED BY <1>1, <2>2 DEF IsDict
<1> QED BY <1>2, <1>3, <1>4

\* lock_problems, for locks of any nodes and fields: a lock with no problem is
\* the old one with some GitHub inputs pinned to other commits.
THEOREM SoundLockOnlyMovesPins ==
  ASSUME NEW a, NEW b, IsLock(a), IsLock(b), NoLockProblems(a, b)
  PROVE  OnlyPinsMoved(a, b)
<1>1. DOMAIN a.nodes = DOMAIN b.nodes /\ b = [a EXCEPT !.nodes = b.nodes]
  BY DEF NoLockProblems, IsLock
<1>2. ASSUME NEW n \in DOMAIN a.nodes
      PROVE  /\ NodeSound(a.nodes[n], b.nodes[n])
             /\ IsDict(a.nodes[n]) /\ IsDict(b.nodes[n])
             /\ "locked" \in DOMAIN a.nodes[n] => IsDict(a.nodes[n].locked)
             /\ "locked" \in DOMAIN b.nodes[n] => IsDict(b.nodes[n].locked)
             /\ DOMAIN a.nodes[n] = DOMAIN b.nodes[n]
  BY <1>1 DEF NoLockProblems, IsLock, NodeSound
<1>3. ASSUME NEW n \in DOMAIN a.nodes \ Moved(a, b) PROVE b.nodes[n] = a.nodes[n]
  <2>1. Rev(a, n) = Rev(b, n)
    BY DEF Moved
  <2> QED BY <1>2, <2>1, SoundNode DEF Rev, Locked
<1>4. ASSUME NEW n \in Moved(a, b)
      PROVE  LET pin == Locked(b, n)
             IN  /\ Get(a.nodes[n].locked, "type") = "github"
                 /\ \A field \in {"rev", "narHash", "lastModified"} \cap DOMAIN pin :
                      pin[field] \in WellFormed[field]
                 /\ b.nodes[n] = [a.nodes[n] EXCEPT !.locked =
                                    Repinned(@, pin.rev, pin.narHash, pin.lastModified)]
  <2>1. n \in DOMAIN a.nodes /\ Rev(a, n) # Rev(b, n)
    BY DEF Moved
  <2>2. "locked" \in DOMAIN a.nodes[n]
    BY <1>2, <2>1 DEF Rev, Locked
  <2>3. LockedSound(a.nodes[n].locked, b.nodes[n].locked)
    BY <1>2, <2>1, <2>2 DEF NodeSound
  <2>4. Get(a.nodes[n].locked, "rev") # Get(b.nodes[n].locked, "rev")
    BY <1>2, <2>1, <2>2 DEF Rev, Locked
  <2>5. b.nodes[n] = [a.nodes[n] EXCEPT !.locked = b.nodes[n].locked]
    BY <1>2, <2>1, <2>2, SoundNode
  <2>6. IsDict(a.nodes[n].locked) /\ IsDict(b.nodes[n].locked)
    BY <1>2, <2>1, <2>2
  <2> DEFINE pin == b.nodes[n].locked
  <2>7. /\ Get(a.nodes[n].locked, "type") = "github"
        /\ \A field \in {"rev", "narHash", "lastModified"} \cap DOMAIN pin :
             pin[field] \in WellFormed[field]
        /\ pin = Repinned(a.nodes[n].locked, pin.rev, pin.narHash, pin.lastModified)
    BY <2>3, <2>4, <2>6, SoundPin
  <2>8. Locked(b, n) = pin
    BY <1>2, <2>1, <2>2 DEF Locked
  <2> HIDE DEF pin, IsDict, LockedSound, Get
  <2> QED BY <2>5, <2>7, <2>8 DEF pin
<1> QED BY <1>1, <1>3, <1>4 DEF OnlyPinsMoved

---------------------------------------------------------------------------
\* The branches and their logs.

\* The push that made the head what it was on a day, and no later one did.
LastBy(i, k, d) ==
  /\ log[i][k].at <= d /\ log[i][k].kind # "branch_deletion"
  /\ log[i][k].after = held[i][d]
  /\ \A j \in DOMAIN log[i] : j > k => log[i][j].at > d \/ log[i][j].kind = "branch_deletion"

LogInv ==
  \A i \in Cooling :
    /\ \A k \in DOMAIN log[i] : log[i][k].at <= today
    /\ \A d \in 0..today : \E k \in DOMAIN log[i] : LastBy(i, k, d)

BranchInv == BranchTypeOK /\ LogInv

\* A branch's log is a sequence of pushes, each with a day and a commit.
LEMMA PushTypes ==
  ASSUME BranchTypeOK, NEW i \in Inputs
  PROVE  /\ DOMAIN log[i] = 1..Len(log[i]) /\ Len(log[i]) \in Nat
         /\ \A k \in DOMAIN log[i] :
              k \in Nat /\ log[i][k].at \in Nat /\ log[i][k].after \in Commits
<1>1. log[i] \in Seq(Pushes)
  BY DEF BranchTypeOK
<1>2. DOMAIN log[i] = 1..Len(log[i]) /\ Len(log[i]) \in Nat
  BY <1>1
<1>3. \A k \in DOMAIN log[i] : k \in Nat /\ log[i][k] \in Pushes
  BY <1>1, <1>2
<1>4. \A p \in Pushes : p.at \in Nat /\ p.after \in Commits
  BY DEF Pushes, Days
<1> QED BY <1>2, <1>3, <1>4

\* GitHub calls a commit ahead or identical only if it descends from the base.
LEMMA CompareForward ==
  ASSUME NEW x \in Commits, NEW y \in Commits, Compare(x, y) \in {"ahead", "identical"}
  PROVE  <<x, y>> \in Before
BY OrderAssumption DEF Compare

\* Ahead means a proper descendant.
LEMMA AheadIsBefore ==
  ASSUME NEW x, NEW y, Compare(x, y) = "ahead"
  PROVE  <<x, y>> \in Before
BY DEF Compare

\* cooled_head, for any log and any page of it: what it finds is the head that
\* the branch had a cooldown ago.
LEMMA CooledIsHeld ==
  ASSUME BranchInv, NEW i \in Cooling, NEW head \in CooledHeads(i)
  PROVE  /\ today - Cooldown \in 0..today /\ today - Cooldown < today
         /\ head = held[i][today - Cooldown] /\ head \in Commits
<1>1. PICK k \in NewestOf(OldPushes(i)) : head = log[i][k].after
  BY DEF CooledHeads
<1>2. /\ today \in Nat /\ Cooldown \in Nat \ {0} /\ LogPage \in Nat
      /\ log[i] \in Seq(Pushes) /\ \A d \in Days : held[i][d] \in Commits
  BY BranchAssumption DEF BranchInv, BranchTypeOK, Days
<1>3. /\ k \in DOMAIN log[i] /\ Len(log[i]) - k < LogPage
      /\ log[i][k].at + Cooldown <= today /\ log[i][k].kind # "branch_deletion"
      /\ \A j \in OldPushes(i) : j <= k
  BY <1>1 DEF NewestOf, OldPushes
<1>4. log[i][k].at \in Nat /\ log[i][k].after \in Commits /\ k \in Nat
  BY <1>3, PushTypes, BranchAssumption DEF BranchInv
<1>5. today - Cooldown \in 0..today /\ today - Cooldown < today
  BY <1>2, <1>3, <1>4
<1>6. PICK j \in DOMAIN log[i] : LastBy(i, j, today - Cooldown)
  BY <1>5 DEF BranchInv, LogInv
<1>7. j \in Nat /\ Len(log[i]) \in Nat /\ log[i][j].at \in Nat
  BY PushTypes, BranchAssumption DEF BranchInv
<1>8. k <= j
  <2>1. ~ (log[i][k].at > today - Cooldown)
    BY <1>2, <1>3, <1>4
  <2>2. ~ (k > j)
    BY <1>3, <1>6, <2>1 DEF LastBy
  <2> QED BY <1>4, <1>7, <2>2
<1>9. j \in OldPushes(i)
  <2>1. log[i][j].at + Cooldown <= today /\ log[i][j].kind # "branch_deletion"
    BY <1>2, <1>6, <1>7 DEF LastBy
  <2>2. Len(log[i]) - j < LogPage
    BY <1>2, <1>3, <1>4, <1>7, <1>8
  <2> QED BY <1>6, <2>1, <2>2 DEF OldPushes
<1>10. j = k
  BY <1>3, <1>4, <1>7, <1>8, <1>9
<1> QED BY <1>1, <1>4, <1>5, <1>6, <1>10 DEF LastBy

\* The clock goes on, and what the branches held on the days before stays.
PastStays ==
  /\ today <= today'
  /\ \A i \in Inputs, d \in Days : d < today => held'[i][d] = held[i][d]

\* A day keeps the logs true: what was the head stays it.
LEMMA DayPassesInv ==
  ASSUME BranchInv, DayPasses
  PROVE  BranchInv' /\ PastStays
<1>1. /\ today \in Nat /\ MaxDay \in Nat /\ today' = today + 1 /\ today' \in Days /\ today \in Days
      /\ log' = log /\ log \in [Inputs -> Seq(Pushes)] /\ Cooling \subseteq Inputs
  BY BranchAssumption DEF BranchInv, BranchTypeOK, DayPasses, Days
<1>2. /\ held' \in [Inputs -> [Days -> Commits]]
      /\ \A i \in Inputs : \A d \in Days : d # today + 1 => held'[i][d] = held[i][d]
      /\ \A i \in Inputs : held'[i][today + 1] = held[i][today]
  BY <1>1 DEF BranchInv, BranchTypeOK, DayPasses
<1>3. BranchTypeOK'
  BY <1>1, <1>2 DEF BranchInv, BranchTypeOK, DayPasses, Days
<1>4. ASSUME NEW i \in Cooling, NEW k \in DOMAIN log[i] PROVE log[i][k].at \in Nat /\ k \in Nat
  BY <1>1, PushTypes DEF BranchInv
<1>5. ASSUME NEW i \in Cooling, NEW d \in 0..today'
      PROVE  \E k \in DOMAIN log[i] : LastBy(i, k, d)'
  <2>1. CASE d # today + 1
    <3>1. d \in 0..today /\ d \in Days
      BY <1>1, <2>1 DEF Days
    <3> QED BY <1>1, <1>2, <2>1, <3>1 DEF BranchInv, LogInv, LastBy
  <2>2. CASE d = today + 1
    <3>1. PICK k \in DOMAIN log[i] : LastBy(i, k, today)
      BY <1>1 DEF BranchInv, LogInv
    <3>2. \A j \in DOMAIN log[i] : log[i][j].at <= today
      BY DEF BranchInv, LogInv
    <3> QED BY <1>1, <1>2, <1>4, <2>2, <3>1, <3>2 DEF LastBy
  <2> QED BY <2>1, <2>2
<1>6. LogInv'
  <2>1. ASSUME NEW i \in Cooling, NEW k \in DOMAIN log[i] PROVE log[i][k].at <= today'
    <3>1. log[i][k].at <= today
      BY DEF BranchInv, LogInv
    <3> QED BY <1>1, <1>4, <3>1
  <2> QED BY <1>1, <1>5, <2>1 DEF LogInv
<1>7. PastStays
  BY <1>1, <1>2 DEF PastStays
<1> QED BY <1>3, <1>6, <1>7 DEF BranchInv

\* A push keeps them, forced or not.
LEMMA PushToInv ==
  ASSUME BranchInv, NEW i \in Inputs, NEW c \in Repo[i], PushTo(i, c)
  PROVE  BranchInv' /\ PastStays
<1> DEFINE kind == IF branch[i] = Gone THEN "branch_creation"
                   ELSE IF <<branch[i], c>> \in Before THEN "push" ELSE "force_push"
           entry == [after |-> c, at |-> today, kind |-> kind]
<1>1. /\ today \in Nat /\ today \in Days /\ today' = today /\ c \in Commits
      /\ log \in [Inputs -> Seq(Pushes)] /\ held \in [Inputs -> [Days -> Commits]]
      /\ i \in Cooling /\ Cooling \subseteq Inputs
  <2>1. c \in Commits /\ Cooling \subseteq Inputs
    BY BranchAssumption
  <2>2. i \in Cooling /\ today' = today
    BY DEF PushTo, Logged
  <2>3. /\ today \in Nat /\ today \in Days
        /\ log \in [Inputs -> Seq(Pushes)] /\ held \in [Inputs -> [Days -> Commits]]
    BY DEF BranchInv, BranchTypeOK, Days
  <2> QED BY <2>1, <2>2, <2>3
<1>logged. /\ log' = [log EXCEPT ![i] = Append(@, entry)]
      /\ held' = [held EXCEPT ![i][today] = c]
  BY DEF PushTo, Logged
<1>2. kind \in PushKinds /\ kind # "branch_deletion"
  BY DEF PushKinds
<1>3. entry \in Pushes
  BY <1>1, <1>2 DEF Pushes
<1>4. /\ held' \in [Inputs -> [Days -> Commits]]
      /\ held'[i][today] = c
      /\ \A n \in Inputs : \A d \in Days : n # i \/ d # today => held'[n][d] = held[n][d]
  BY <1>1, <1>logged
<1> HIDE DEF kind
<1>5. BranchTypeOK'
  <2>1. log' \in [Inputs -> Seq(Pushes)]
    BY <1>1, <1>logged, <1>3
  <2>2. pushes' \in 0..MaxPushes
    BY BranchAssumption DEF BranchInv, BranchTypeOK, PushTo, Logged
  <2>3. branch' \in [Inputs -> Commits \cup {Gone}]
    BY <1>1 DEF BranchInv, BranchTypeOK, PushTo
  <2> QED BY <1>1, <1>4, <2>1, <2>2, <2>3 DEF BranchTypeOK
<1>6. /\ DOMAIN log'[i] = 1..(Len(log[i]) + 1) /\ DOMAIN log[i] = 1..Len(log[i])
      /\ Len(log[i]) \in Nat
      /\ log'[i][Len(log[i]) + 1] = entry
      /\ \A k \in DOMAIN log[i] : log'[i][k] = log[i][k]
      /\ \A n \in Cooling : n # i => log'[n] = log[n]
  BY <1>1, <1>logged, <1>3
<1>times. PICK last \in DOMAIN log'[i] :
            /\ log'[i][last].at = today /\ log'[i][last].after = c /\ log'[i][last].kind = kind
            /\ \A k \in DOMAIN log'[i] : (k \in DOMAIN log[i] \/ k = last) /\ ~ (k > last)
  BY <1>6
<1>7. ASSUME NEW n \in Cooling, n # i
      PROVE  /\ \A k \in DOMAIN log'[n] : log'[n][k].at <= today
             /\ \A d \in 0..today : \E k \in DOMAIN log'[n] : LastBy(n, k, d)'
  <2>1. log'[n] = log[n] /\ \A d \in 0..today : held'[n][d] = held[n][d]
    BY <1>1, <1>4, <1>6, <1>7, BranchAssumption DEF Days
  <2> QED BY <2>1 DEF BranchInv, LogInv, LastBy
<1>8. \A k \in DOMAIN log'[i] : log'[i][k].at <= today
  <2> SUFFICES ASSUME NEW k \in DOMAIN log'[i] PROVE log'[i][k].at <= today
    OBVIOUS
  <2>1. CASE k \in DOMAIN log[i]
    BY <1>1, <1>6, <2>1 DEF BranchInv, LogInv
  <2>2. CASE k = last
    <3>1. today \in Nat
      BY <1>1
    <3> QED BY <1>times, <2>2, <3>1
  <2> QED BY <1>times, <2>1, <2>2
<1>9. ASSUME NEW d \in 0..today PROVE \E k \in DOMAIN log'[i] : LastBy(i, k, d)'
  <2>1. CASE d = today
    <3>1. held'[i][d] = c /\ d \in Nat
      BY <1>1, <1>4, <2>1
    <3>2. LastBy(i, last, d)'
      BY <1>2, <1>times, <2>1, <3>1 DEF LastBy
    <3> QED BY <1>times, <3>2
  <2>2. CASE d # today
    <3>1. d < today /\ d \in Days /\ held'[i][d] = held[i][d]
      BY <1>1, <1>4, <2>2, BranchAssumption DEF Days
    <3>2. PICK k \in DOMAIN log[i] : LastBy(i, k, d)
      BY <1>1 DEF BranchInv, LogInv
    <3>3. LastBy(i, k, d)'
      BY <1>1, <1>6, <1>times, <3>1, <3>2 DEF LastBy
    <3> QED BY <1>6, <3>2, <3>3
  <2> QED BY <2>1, <2>2
<1>10. LogInv'
  BY <1>1, <1>7, <1>8, <1>9 DEF LogInv
<1> QED BY <1>1, <1>4, <1>5, <1>10 DEF BranchInv, PastStays

\* So does the deletion of a branch.
LEMMA DeleteBranchInv ==
  ASSUME BranchInv, NEW i \in Inputs, DeleteBranch(i)
  PROVE  BranchInv' /\ PastStays
<1> DEFINE entry == [after |-> First[i], at |-> today, kind |-> "branch_deletion"]
<1>1. /\ today \in Nat /\ today \in Days /\ today' = today /\ held' = held
      /\ log \in [Inputs -> Seq(Pushes)] /\ i \in Cooling /\ Cooling \subseteq Inputs
      /\ log' = [log EXCEPT ![i] = Append(@, entry)]
  BY BranchAssumption DEF BranchInv, BranchTypeOK, DeleteBranch, Logged, Days
<1>2. entry \in Pushes
  BY <1>1, BranchAssumption DEF Pushes, PushKinds
<1>3. BranchTypeOK'
  <2>1. log' \in [Inputs -> Seq(Pushes)]
    BY <1>1, <1>2
  <2>2. pushes' \in 0..MaxPushes
    BY BranchAssumption DEF BranchInv, BranchTypeOK, DeleteBranch, Logged
  <2>3. branch' \in [Inputs -> Commits \cup {Gone}]
    BY <1>1 DEF BranchInv, BranchTypeOK, DeleteBranch
  <2> QED BY <1>1, <2>1, <2>2, <2>3 DEF BranchInv, BranchTypeOK
<1>4. /\ DOMAIN log'[i] = 1..(Len(log[i]) + 1) /\ DOMAIN log[i] = 1..Len(log[i])
      /\ Len(log[i]) \in Nat
      /\ log'[i][Len(log[i]) + 1] = entry
      /\ \A k \in DOMAIN log[i] : log'[i][k] = log[i][k]
      /\ \A n \in Cooling : n # i => log'[n] = log[n]
  BY <1>1, <1>2
<1>5. \A n \in Cooling : \A k \in DOMAIN log'[n] : log'[n][k].at <= today
  BY <1>1, <1>4 DEF BranchInv, LogInv
<1>6. ASSUME NEW n \in Cooling, NEW d \in 0..today
      PROVE  \E k \in DOMAIN log'[n] : LastBy(n, k, d)'
  <2>1. PICK k \in DOMAIN log[n] : LastBy(n, k, d)
    BY DEF BranchInv, LogInv
  <2>2. LastBy(n, k, d)'
    BY <1>1, <1>4, <2>1 DEF LastBy
  <2> QED BY <1>4, <2>1, <2>2
<1> QED BY <1>1, <1>3, <1>5, <1>6 DEF BranchInv, LogInv, PastStays

\* Whatever happens on GitHub.
LEMMA BranchStep ==
  ASSUME BranchInv, GitHubMoves
  PROVE  BranchInv' /\ PastStays
<1>1. ASSUME NEW i \in Inputs, NEW c \in Repo[i], PushUnread(i, c) PROVE BranchInv' /\ PastStays
  <2>1. c \in Commits /\ today \in Nat
    BY BranchAssumption DEF BranchInv, BranchTypeOK, Days
  <2>2. BranchTypeOK'
    BY <1>1, <2>1 DEF BranchInv, BranchTypeOK, PushUnread
  <2> QED BY <1>1, <2>1, <2>2 DEF BranchInv, LogInv, LastBy, PastStays, PushUnread
<1> QED BY <1>1, DayPassesInv, PushToInv, DeleteBranchInv DEF GitHubMoves

---------------------------------------------------------------------------
\* The locks.

\* A lock moves nothing of itself.
LEMMA SameLock == ASSUME NEW lock, IsLock(lock) PROVE OnlyPinsMoved(lock, lock) /\ Moved(lock, lock) = {}
<1>1. lock = [lock EXCEPT !.nodes = lock.nodes]
  BY DEF IsLock
<1> QED BY <1>1 DEF OnlyPinsMoved, Moved

\* A node with a new pin and new inputs: the pin.
LEMMA PinnedPin ==
  ASSUME NEW node, NEW i, NEW c, "locked" \in DOMAIN node, IsDict(node.locked)
  PROVE  /\ "locked" \in DOMAIN PinnedNode(node, i, c)
         /\ PinnedNode(node, i, c).locked = Repinned(node.locked, c, c, c)
         /\ IsDict(Repinned(node.locked, c, c, c))
         /\ DOMAIN Repinned(node.locked, c, c, c) = DOMAIN node.locked
<1> DEFINE made == Repinned(node.locked, c, c, c)
<1>1. IsDict(made) /\ DOMAIN made = DOMAIN node.locked
  BY DEF Repinned, IsDict
<1> HIDE DEF made
<1>2. "locked" \in DOMAIN PinnedNode(node, i, c) /\ PinnedNode(node, i, c).locked = made
  BY DEF PinnedNode, made
<1> QED BY <1>1, <1>2 DEF made

\* A node of a lock that has no pin has none after.
LEMMA UnpinnedIs ==
  ASSUME NEW node, NEW i, NEW c, IsDict(node), "locked" \notin DOMAIN node
  PROVE  IsDict(PinnedNode(node, i, c)) /\ "locked" \notin DOMAIN PinnedNode(node, i, c)
BY DEF PinnedNode, IsDict

\* nix pins an input to a commit: the nodes, and that it is a lock.
LEMMA PinNodes ==
  ASSUME NEW lock, IsLock(lock), NEW i \in Direct, NEW c \in Commits
  PROVE  LET new_ == Pin(lock, i, c)
             own == Own[i][c].nodes
         IN  /\ IsLock(new_) /\ new_.top = lock.top
             /\ DOMAIN new_.nodes = (DOMAIN lock.nodes \ Below(i)) \cup DOMAIN own
             /\ DOMAIN own \subseteq Below(i) /\ i \notin Below(i)
             /\ i \in DOMAIN lock.nodes => new_.nodes[i] = PinnedNode(lock.nodes[i], i, c)
             /\ \A n \in DOMAIN own : new_.nodes[n] = own[n]
             /\ \A n \in DOMAIN lock.nodes \ (Below(i) \cup {i}) : new_.nodes[n] = lock.nodes[n]
<1> DEFINE own == Own[i][c].nodes
           nodes == [n \in (DOMAIN lock.nodes \ Below(i)) \cup DOMAIN own |->
                       IF n \in DOMAIN own THEN own[n]
                       ELSE IF n = i THEN PinnedNode(lock.nodes[n], i, c)
                       ELSE lock.nodes[n]]
<1>1. Pin(lock, i, c) = [top |-> lock.top, nodes |-> nodes]
  BY DEF IsLock, Pin
<1>2. DOMAIN own \subseteq Below(i) /\ i \notin Below(i)
  <2>1. DOMAIN Own[i] = Commits BY OwnAssumption
  <2>2. DOMAIN own \subseteq Below(i) BY <2>1 DEF Below
  <2>3. Below(i) \cap (Direct \cup {"root"}) = {} BY OwnAssumption
  <2> QED BY <2>2, <2>3
<1>3. \A n \in DOMAIN own :
        IsDict(own[n]) /\ ("locked" \in DOMAIN own[n] => IsDict(own[n].locked))
  BY OwnAssumption
<1> HIDE DEF own
<1>4. /\ IsDict(nodes) /\ DOMAIN nodes = (DOMAIN lock.nodes \ Below(i)) \cup DOMAIN own
      /\ \A n \in DOMAIN own : nodes[n] = own[n]
      /\ \A n \in DOMAIN lock.nodes \ (Below(i) \cup {i}) : nodes[n] = lock.nodes[n]
      /\ i \in DOMAIN lock.nodes => nodes[i] = PinnedNode(lock.nodes[i], i, c)
  BY <1>2 DEF IsDict
<1> HIDE DEF nodes
<1>5. ASSUME NEW n \in DOMAIN nodes
      PROVE  IsDict(nodes[n]) /\ ("locked" \in DOMAIN nodes[n] => IsDict(nodes[n].locked))
  <2>1. CASE n \in DOMAIN own BY <1>3, <1>4, <2>1
  <2>2. CASE n \in DOMAIN lock.nodes \ (Below(i) \cup {i}) BY <1>4, <2>2 DEF IsLock
  <2>3. CASE n = i
    <3>1. i \in DOMAIN lock.nodes BY <1>2, <1>4, <2>3
    <3>2. IsDict(lock.nodes[i]) /\ ("locked" \in DOMAIN lock.nodes[i] => IsDict(lock.nodes[i].locked))
      BY <3>1 DEF IsLock
    <3>3. nodes[n] = PinnedNode(lock.nodes[i], i, c) BY <1>4, <2>3, <3>1
    <3>4. CASE "locked" \in DOMAIN lock.nodes[i]
      <4>1. IsDict(PinnedNode(lock.nodes[i], i, c)) /\ IsDict(PinnedNode(lock.nodes[i], i, c).locked)
        <5>1. IsDict(PinnedNode(lock.nodes[i], i, c)) BY DEF PinnedNode, IsDict
        <5>2. /\ PinnedNode(lock.nodes[i], i, c).locked = Repinned(lock.nodes[i].locked, c, c, c)
              /\ IsDict(Repinned(lock.nodes[i].locked, c, c, c))
          BY <3>2, <3>4, PinnedPin
        <5> QED BY <5>1, <5>2
      <4> QED BY <3>3, <4>1
    <3>5. CASE "locked" \notin DOMAIN lock.nodes[i]
      <4>1. /\ IsDict(PinnedNode(lock.nodes[i], i, c))
            /\ "locked" \notin DOMAIN PinnedNode(lock.nodes[i], i, c)
        BY <3>2, <3>5, UnpinnedIs
      <4> QED BY <3>3, <4>1
    <3> QED BY <3>4, <3>5
  <2> QED BY <1>4, <2>1, <2>2, <2>3
<1>6. IsLock(Pin(lock, i, c)) BY <1>1, <1>4, <1>5 DEF IsLock
<1> QED BY <1>1, <1>2, <1>4, <1>6 DEF own

\* A lock with the nodes the first one has, and its root.
LikeFirst(lock) ==
  /\ IsLock(lock) /\ DOMAIN lock.nodes = DOMAIN FirstLock.nodes
  /\ lock.nodes.root = FirstLock.nodes.root

\* The direct inputs are the root's, but for those that follow another.
LEMMA DirectAre == Direct \subseteq (Inputs \cap DOMAIN FirstLock.nodes) \ {"root"} /\ Nixpkgs \in Direct
BY UpdateAssumption DEF DirectInputs, Direct

LEMMA DirectOfRoot ==
  ASSUME NEW lock, LikeFirst(lock)
  PROVE  DOMAIN DirectInputs(lock) = Direct /\ \A i \in Direct : DirectInputs(lock)[i] = lock.nodes[i]
BY UpdateAssumption DEF DirectInputs, LikeFirst, Direct

\* The root has no pin, and so does not move.
LEMMA RootStays ==
  ASSUME NEW a, NEW b, LikeFirst(a), NoLockProblems(a, b), IsLock(b)
  PROVE  LikeFirst(b)
<1>1. OnlyPinsMoved(a, b)
  BY SoundLockOnlyMovesPins DEF LikeFirst
<1>2. "root" \in DOMAIN a.nodes /\ "locked" \notin DOMAIN a.nodes.root
  BY UpdateAssumption DEF LikeFirst
<1>3. DOMAIN b.nodes.root = DOMAIN a.nodes.root
  BY <1>2 DEF NoLockProblems, NodeSound
<1>4. "root" \notin Moved(a, b)
  BY <1>2, <1>3 DEF Moved, Rev, Locked
<1> QED BY <1>1, <1>2, <1>4 DEF OnlyPinsMoved, LikeFirst

\* A merge takes each pin from one of two locks of the same shape.
LEMMA MergedLike ==
  ASSUME NEW base, NEW ours, NEW theirs, LikeFirst(base), LikeFirst(ours), LikeFirst(theirs)
  PROVE  /\ LikeFirst(Merged(base, ours, theirs))
         /\ \A n \in DOMAIN FirstLock.nodes :
              Merged(base, ours, theirs).nodes[n] =
                IF ours.nodes[n] = base.nodes[n] THEN theirs.nodes[n] ELSE ours.nodes[n]
<1> DEFINE nodes == [n \in DOMAIN ours.nodes |->
                       IF ours.nodes[n] = base.nodes[n] THEN theirs.nodes[n] ELSE ours.nodes[n]]
<1>1. Merged(base, ours, theirs) = [top |-> ours.top, nodes |-> nodes]
  BY DEF Merged, LikeFirst, IsLock
<1>2. /\ DOMAIN nodes = DOMAIN FirstLock.nodes /\ IsDict(nodes)
      /\ \A n \in DOMAIN FirstLock.nodes : nodes[n] \in {ours.nodes[n], theirs.nodes[n]}
      /\ nodes.root = FirstLock.nodes.root
  BY UpdateAssumption DEF LikeFirst, IsDict
<1>3. \A n \in DOMAIN nodes :
        IsDict(nodes[n]) /\ ("locked" \in DOMAIN nodes[n] => IsDict(nodes[n].locked))
  BY <1>2 DEF LikeFirst, IsLock
<1> QED BY <1>1, <1>2, <1>3 DEF LikeFirst, IsLock

---------------------------------------------------------------------------
\* The run, the pull request and its reviewer.

\* Each of these inputs may move as it does, checked on its day.
MovesOK(a, b, inputs, days) ==
  \A i \in inputs : /\ i \in Inputs /\ days[i] \in Nat /\ days[i] <= today
                    /\ MayMove(i, Rev(a, i), Rev(b, i), days[i])

LocksInv ==
  /\ \A lock \in {mainLock, old, pr.base, pr.lock} : LikeFirst(lock)
  /\ IsLock(new)
  /\ \A i \in Inputs \cap DOMAIN FirstLock.nodes : Rev(mainLock, i) \in Commits

\* What the check has found so far.
CheckInv ==
  step = "check" =>
    NoLockProblems(old, new) /\ MovesOK(old, new, Moved(old, new) \ todo, cleared)

\* Also while it is closed: it may be opened again.
TableInv == pr.state # "none" /\ pr.current => pr.rows = Rows(pr.base, pr.lock)

\* The pull request's branch is as the check left it.
PrInv ==
  /\ DOMAIN pr = {"state", "base", "lock", "rows", "ci", "cleared", "current"}
  /\ OnlyPinsMoved(pr.base, pr.lock)
  /\ MovesOK(pr.base, pr.lock, Moved(pr.base, pr.lock), pr.cleared)
  /\ step = "publish" => pr.base = old /\ pr.lock = new
  /\ TableInv

UpdInv ==
  /\ BranchInv /\ LocksInv /\ CheckInv /\ PrInv
  /\ RunTypeOK /\ (step = "others" => todo \subseteq Direct)

\* The invariant holds at first,
LEMMA UpdInit == ASSUME Init PROVE UpdInv
<1>1. BranchTypeOK
  <2>1. \A i \in Inputs : <<[after |-> First[i], at |-> 0, kind |-> "branch_creation"]>> \in Seq(Pushes)
    BY BranchAssumption DEF Pushes, PushKinds, Days
  <2> QED BY <2>1, BranchAssumption DEF Init, BranchInit, BranchTypeOK, Days
<1>2. LogInv
  <2> SUFFICES ASSUME NEW i \in Cooling
               PROVE  /\ \A k \in DOMAIN log[i] : log[i][k].at <= today
                      /\ \A d \in 0..today : \E k \in DOMAIN log[i] : LastBy(i, k, d)
    BY DEF LogInv
  <2>1. /\ log[i] = <<[after |-> First[i], at |-> 0, kind |-> "branch_creation"]>>
        /\ today = 0 /\ held[i][0] = First[i]
    BY BranchAssumption DEF Init, BranchInit, Days
  <2>2. DOMAIN log[i] = {1} /\ 0..today = {0}
    BY <2>1
  <2>3. LastBy(i, 1, 0)
    BY <2>1, <2>2 DEF LastBy
  <2> QED BY <2>1, <2>2, <2>3
<1>3. LikeFirst(FirstLock)
  BY HandedAssumption DEF LikeFirst
<1>4. OnlyPinsMoved(FirstLock, FirstLock) /\ Moved(FirstLock, FirstLock) = {}
  BY HandedAssumption, SameLock
<1>5. LocksInv /\ CheckInv
  BY <1>3, UpdateAssumption DEF Init, NoPr, LocksInv, CheckInv, LikeFirst
<1>6. PrInv
  BY <1>4 DEF Init, NoPr, PrInv, MovesOK, TableInv
<1>7. RunTypeOK
  <2>1. NoDays \in [Inputs -> Days]
    BY BranchAssumption DEF NoDays, Days
  <2>2. others \in BOOLEAN /\ pr.current \in BOOLEAN
    BY DEF Init, NoPr
  <2>3. /\ step \in Steps /\ todo = {} /\ excused = {} /\ pr.state = "none" /\ pr.ci = "none"
        /\ mainLock = FirstLock /\ old = FirstLock /\ pr.base = FirstLock
        /\ cleared = NoDays /\ pr.cleared = NoDays
    BY DEF Init, NoPr, Steps
  <2> QED BY <2>1, <2>2, <2>3 DEF RunTypeOK
<1> QED BY <1>1, <1>2, <1>5, <1>6, <1>7 DEF UpdInv, BranchInv, Init

\* Whatever happens on GitHub, what was checked stays so.
LEMMA GitHubKeeps ==
  ASSUME UpdInv, GitHubMoves, UNCHANGED runVars
  PROVE  UpdInv'
<1>1. BranchInv' /\ PastStays /\ Cooldown \in Nat \ {0} /\ MaxDay \in Nat
      /\ today \in Days /\ today' \in Days
  BY BranchStep, BranchAssumption DEF UpdInv, BranchInv, BranchTypeOK
<1>2. ASSUME NEW i \in Inputs, NEW day \in Nat, day <= today, day >= Cooldown
      PROVE  held'[i][day - Cooldown] = held[i][day - Cooldown] /\ day <= today'
  <2>1. day - Cooldown \in Days /\ day - Cooldown < today
    BY <1>1, <1>2 DEF Days
  <2> QED BY <1>1, <1>2, <2>1 DEF PastStays, Days
<1>3. ASSUME NEW i \in Inputs, NEW day \in Nat, day <= today PROVE day <= today'
  BY <1>1, <1>3 DEF PastStays, Days
<1>4. LocksInv' /\ RunTypeOK' /\ (step = "others" => todo \subseteq Direct)'
  BY DEF UpdInv, runVars, LocksInv, RunTypeOK
<1>moves. ASSUME NEW a, NEW b, NEW inputs, NEW days, MovesOK(a, b, inputs, days), NEW i \in inputs
          PROVE  /\ i \in Inputs /\ days[i] \in Nat /\ days[i] <= today'
                 /\ <<Rev(a, i), Rev(b, i)>> \in Before
                 /\ i # Nixpkgs => /\ days[i] >= Cooldown
                                   /\ <<Rev(b, i), held'[i][days[i] - Cooldown]>> \in Before
  <2>1. /\ i \in Inputs /\ days[i] \in Nat /\ days[i] <= today
        /\ MayMove(i, Rev(a, i), Rev(b, i), days[i])
    BY <1>moves DEF MovesOK
  <2> QED BY <1>2, <1>3, <2>1 DEF MayMove
<1>5. CheckInv'
  <2> SUFFICES ASSUME step = "check" PROVE MovesOK(old, new, Moved(old, new) \ todo, cleared)'
    BY DEF UpdInv, runVars, CheckInv
  <2>1. MovesOK(old, new, Moved(old, new) \ todo, cleared)
    BY DEF UpdInv, CheckInv
  <2>2. old' = old /\ new' = new /\ todo' = todo /\ cleared' = cleared
    BY DEF runVars
  <2>3. (Moved(old, new) \ todo)' = Moved(old, new) \ todo
    BY <2>2 DEF Moved
  <2>4. ASSUME NEW i \in Moved(old, new) \ todo
        PROVE  /\ i \in Inputs /\ cleared[i] \in Nat /\ cleared[i] <= today'
               /\ MayMove(i, Rev(old, i), Rev(new, i), cleared[i])'
    BY <1>moves, <2>1, <2>2 DEF MayMove
  <2> QED BY <2>2, <2>3, <2>4 DEF MovesOK
<1>6. PrInv'
  <2>1. pr' = pr /\ old' = old /\ new' = new /\ step' = step
    BY DEF runVars
  <2>2. MovesOK(pr.base, pr.lock, Moved(pr.base, pr.lock), pr.cleared)
    BY DEF UpdInv, PrInv
  <2>3. MovesOK(pr.base, pr.lock, Moved(pr.base, pr.lock), pr.cleared)'
    <3>1. Moved(pr.base, pr.lock)' = Moved(pr.base, pr.lock)
      BY <2>1 DEF Moved
    <3>2. ASSUME NEW i \in Moved(pr.base, pr.lock)
          PROVE  /\ i \in Inputs /\ pr.cleared[i] \in Nat /\ pr.cleared[i] <= today'
                 /\ MayMove(i, Rev(pr.base, i), Rev(pr.lock, i), pr.cleared[i])'
      BY <1>moves, <2>1, <2>2 DEF MayMove
    <3> QED BY <2>1, <3>1, <3>2 DEF MovesOK
  <2> QED BY <2>1, <2>3 DEF UpdInv, PrInv, TableInv
<1> QED BY <1>1, <1>4, <1>5, <1>6 DEF UpdInv

\* The logs, where nothing of GitHub moves.
LEMMA BranchStays == ASSUME BranchInv, UNCHANGED branchVars PROVE BranchInv'
<1>1. BranchTypeOK'
  BY DEF BranchInv, BranchTypeOK, branchVars
<1>2. LogInv'
  BY DEF BranchInv, LogInv, LastBy, branchVars
<1> QED BY <1>1, <1>2 DEF BranchInv

\* What an action that leaves GitHub, main and the pull request alone keeps.
LEMMA RunKeeps ==
  ASSUME UpdInv, UNCHANGED <<mainLock, pr, branchVars>>
  PROVE  /\ BranchInv'
         /\ \A i \in Inputs \cap DOMAIN FirstLock.nodes : Rev(mainLock', i) \in Commits
         /\ LikeFirst(mainLock') /\ LikeFirst(pr'.base) /\ LikeFirst(pr'.lock)
         /\ step' # "publish" => PrInv'
<1>1. BranchInv'
  BY BranchStays DEF UpdInv
<1>2. step' # "publish" => PrInv'
  BY DEF UpdInv, PrInv, MovesOK, MayMove, TableInv, branchVars
<1> QED BY <1>1, <1>2 DEF UpdInv, LocksInv

\* The run's end.
LEMMA EndKeeps ==
  ASSUME UpdInv, RunEnds, UNCHANGED <<mainLock, pr, branchVars>>
  PROVE  UpdInv'
<1>1. /\ step' = "idle" /\ old' = FirstLock /\ new' = FirstLock /\ todo' = {}
      /\ excused' = {} /\ cleared' = NoDays /\ mainLock' = mainLock /\ pr' = pr
  BY DEF RunEnds
<1>2. LikeFirst(FirstLock) /\ IsLock(FirstLock)
  BY HandedAssumption DEF LikeFirst
<1>3. LocksInv'
  BY <1>1, <1>2 DEF UpdInv, LocksInv
<1>4. others' \in BOOLEAN
  BY DEF RunEnds
<1>5. RunTypeOK'
  <2>1. NoDays \in [Inputs -> Days]
    BY BranchAssumption DEF NoDays, Days
  <2> QED BY <1>1, <1>2, <1>4, <2>1 DEF UpdInv, RunTypeOK, Steps, LikeFirst
<1> QED BY <1>1, <1>3, <1>5, RunKeeps DEF UpdInv, CheckInv

\* A commit to move to descends from the old one.
LEMMA CooledIsCommit ==
  ASSUME NEW i, NEW c \in CooledCommits(i)
  PROVE  <<Rev(old, i), c>> \in Before /\ Rev(old, i) # c /\ c \in Commits
<1>1. <<Rev(old, i), c>> \in Before /\ Rev(old, i) # c
  BY AheadIsBefore DEF CooledCommits, Compare
<1> QED BY <1>1, OrderAssumption

\* The update job, and the check of the lock's form: an input moves only in the
\* lock that the run makes.
LEMMA UpdateKeeps ==
  ASSUME UpdInv,
         \/ Start \/ AskCarry \/ AskFails \/ UpdateNixpkgs \/ UpdateDone \/ UpdateUntrusted
         \/ CheckLock
         \/ \E i \in todo : UpdateInput(i) \/ UpdateInputFails(i)
  PROVE  UpdInv'
<1>1. UNCHANGED <<mainLock, pr, branchVars>>
  BY DEF Start, AskCarry, AskFails, UpdateNixpkgs, UpdateDone, UpdateUntrusted, CheckLock,
         UpdateInput, UpdateInputFails
<1>2. LikeFirst(mainLock) /\ LikeFirst(old) /\ IsLock(new) /\ IsLock(mainLock)
  BY DEF UpdInv, LocksInv, LikeFirst
<1>3. ASSUME ~ RunEnds
      PROVE  /\ LikeFirst(old') /\ IsLock(new') /\ cleared' = cleared
             /\ step' \in Steps \ {"publish"}
             /\ step' = "check" => NoLockProblems(old', new') /\ todo' = Moved(old', new')
             /\ todo' \subseteq Inputs \cup {"root"} /\ excused' \subseteq Inputs
             /\ step' = "others" => todo' \subseteq Direct
  <2>1. CASE Start
    BY <1>2, <2>1 DEF Start, Steps, UpdInv, RunTypeOK
  <2>2. CASE AskCarry \/ AskFails
    BY <1>2, <2>2 DEF AskCarry, AskFails, At, Steps, UpdInv, RunTypeOK
  <2>3. CASE UpdateNixpkgs
    <3>1. /\ DOMAIN DirectInputs(old) = Direct /\ Direct \subseteq Inputs /\ Nixpkgs \in Direct
          /\ branch[Nixpkgs] \in Commits
      BY <1>2, <2>3, DirectAre, DirectOfRoot DEF UpdateNixpkgs, UpdInv, BranchInv, BranchTypeOK
    <3>2. IsLock(new')
      BY <1>2, <2>3, <3>1, PinNodes DEF UpdateNixpkgs
    <3> QED BY <1>2, <2>3, <3>1, <3>2 DEF UpdateNixpkgs, At, Steps, UpdInv, RunTypeOK
  <2>4. CASE \E i \in todo : UpdateInput(i) \/ UpdateInputFails(i)
    <3>1. PICK i \in todo : UpdateInput(i) \/ UpdateInputFails(i)
      BY <2>4
    <3>2. IsLock(new')
      <4>1. CASE new' = new BY <1>2, <4>1
      <4>2. CASE new' # new
        <5>1. PICK c \in CooledCommits(i) : new' = Pin(new, i, c)
          BY <3>1, <4>2 DEF UpdateInput, UpdateInputFails
        <5>2. c \in Commits /\ i \in Direct
          BY <3>1, CooledIsCommit DEF UpdateInput, UpdateInputFails, UpdInv
        <5> QED BY <1>2, <5>1, <5>2, PinNodes
      <4> QED BY <4>1, <4>2
    <3> QED BY <1>2, <3>1, <3>2, DirectAre DEF UpdateInput, UpdateInputFails, Steps, UpdInv, RunTypeOK
  <2>5. CASE UpdateDone
    BY <1>2, <1>3, <2>5 DEF UpdateDone, Steps, UpdInv, RunTypeOK
  <2>6. CASE UpdateUntrusted
    BY <1>2, <2>6, HandedAssumption DEF UpdateUntrusted, At, Steps
  <2>7. CASE CheckLock
    <3>1. /\ NoLockProblems(old, new) /\ step' = "check" /\ todo' = Moved(old, new)
          /\ UNCHANGED <<old, new, others, excused, cleared>>
      BY <1>3, <2>7 DEF CheckLock
    <3>2. Moved(old, new) \subseteq Inputs \cup {"root"}
      BY <1>2, UpdateAssumption DEF Moved, LikeFirst
    <3> QED BY <1>2, <3>1, <3>2 DEF Steps, UpdInv, RunTypeOK
  <2> QED BY <2>1, <2>2, <2>3, <2>4, <2>5, <2>6, <2>7
<1>4. others' \in BOOLEAN
  BY DEF UpdInv, RunTypeOK, RunEnds, Start, AskCarry, AskFails, UpdateNixpkgs, UpdateDone,
         UpdateUntrusted, CheckLock, UpdateInput, UpdateInputFails
<1>5. ASSUME ~ RunEnds PROVE UpdInv'
  <2>1. BranchInv' /\ PrInv'
    BY <1>1, <1>3, <1>5, RunKeeps
  <2>2. LocksInv'
    BY <1>1, <1>3, <1>5, RunKeeps DEF LocksInv
  <2>3. CheckInv'
    BY <1>3, <1>5 DEF CheckInv, MovesOK
  <2>4. RunTypeOK'
    BY <1>1, <1>3, <1>4, <1>5 DEF UpdInv, RunTypeOK, LikeFirst
  <2> QED BY <1>3, <1>5, <2>1, <2>2, <2>3, <2>4 DEF UpdInv
<1> QED BY <1>1, <1>5, EndKeeps

\* The check of one input.
LEMMA CheckKeeps ==
  ASSUME UpdInv, NEW i \in todo, CheckInput(i)
  PROVE  UpdInv'
<1>1. UNCHANGED <<mainLock, pr, branchVars>> /\ step = "check"
  BY DEF CheckInput
<1>2. CASE ~ (i \in Inputs /\ OnBranch(i, Rev(old, i), Rev(new, i)) /\ Cooled(i))
  BY <1>1, <1>2, EndKeeps DEF CheckInput
<1>3. CASE i \in Inputs /\ OnBranch(i, Rev(old, i), Rev(new, i)) /\ Cooled(i)
  <2>1. /\ UNCHANGED <<step, old, new, others, excused>> /\ todo' = todo \ {i}
        /\ cleared' = [cleared EXCEPT ![i] = IF i \in Cooling THEN today ELSE 0]
    BY <1>3 DEF CheckInput, Clear
  <2>2. /\ today \in Days /\ today \in Nat /\ 0 \in Days /\ Cooldown \in Nat
        /\ cleared \in [Inputs -> Days]
    BY BranchAssumption DEF UpdInv, BranchInv, BranchTypeOK, RunTypeOK, Days
  <2>3. <<Rev(old, i), Rev(new, i)>> \in Before
    BY <1>3, AheadIsBefore DEF OnBranch
  <2>4. MayMove(i, Rev(old, i), Rev(new, i), cleared'[i])
    <3>1. CASE i = Nixpkgs
      BY <2>3, <3>1 DEF MayMove
    <3>2. CASE i # Nixpkgs
      <4>1. i \in Cooling
        BY <1>3, <3>2, UpdateAssumption
      <4>2. PICK head \in CooledHeads(i) : Compare(Rev(new, i), head) \in {"ahead", "identical"}
        BY <1>3, <3>2 DEF Cooled
      <4>3. /\ today - Cooldown \in 0..today /\ head = held[i][today - Cooldown]
            /\ head \in Commits
        BY <4>1, CooledIsHeld DEF UpdInv
      <4>4. Rev(new, i) \in Commits
        BY <2>3, OrderAssumption
      <4>5. <<Rev(new, i), head>> \in Before
        BY <4>2, <4>3, <4>4, CompareForward
      <4>6. cleared'[i] = today
        BY <1>3, <2>1, <2>2, <4>1
      <4>7. today >= Cooldown
        BY <2>2, <4>3
      <4> QED BY <2>3, <4>3, <4>5, <4>6, <4>7 DEF MayMove
    <3> QED BY <3>1, <3>2
  <2>5. /\ cleared'[i] \in Nat /\ cleared'[i] <= today /\ cleared' \in [Inputs -> Days]
        /\ \A j \in Inputs : j # i => cleared'[j] = cleared[j]
    BY <1>3, <2>1, <2>2
  <2>6. CheckInv'
    <3>1. NoLockProblems(old, new) /\ MovesOK(old, new, Moved(old, new) \ todo, cleared)
      BY <1>1 DEF UpdInv, CheckInv
    <3>2. today' = today /\ held' = held
      BY <1>1 DEF branchVars
    <3>3. MovesOK(old, new, Moved(old, new) \ todo', cleared')
      BY <1>3, <2>1, <2>4, <2>5, <3>1 DEF MovesOK
    <3>4. MovesOK(old, new, Moved(old, new) \ todo, cleared)'
      BY <2>1, <3>2, <3>3 DEF MovesOK, MayMove
    <3> QED BY <2>1, <3>1, <3>4 DEF CheckInv
  <2>7. LocksInv' /\ RunTypeOK'
    BY <1>1, <2>1, <2>5 DEF UpdInv, LocksInv, RunTypeOK
  <2>8. BranchInv' /\ PrInv'
    BY <1>1, <2>1, RunKeeps
  <2> QED BY <1>1, <2>1, <2>6, <2>7, <2>8 DEF UpdInv
<1> QED BY <1>2, <1>3

\* What the actions that change the pull request share.
LEMMA PrKeeps ==
  ASSUME UpdInv, UNCHANGED branchVars, LikeFirst(mainLock'),
         \A i \in Inputs \cap DOMAIN FirstLock.nodes : Rev(mainLock', i) \in Commits,
         \/ RunEnds
         \/ UNCHANGED <<old, new, others, todo, excused, cleared>> /\ step' \in {step, "publish"},
         LikeFirst(pr'.base), LikeFirst(pr'.lock),
         pr'.state \in {"none", "open", "closed"}, pr'.ci \in {"none", "green"},
         pr'.cleared \in [Inputs -> Days], pr'.current \in BOOLEAN
  PROVE  /\ BranchInv' /\ LocksInv' /\ CheckInv' /\ RunTypeOK'
         /\ (step = "others" => todo \subseteq Direct)'
<1>1. BranchInv'
  BY BranchStays DEF UpdInv
<1>2. LikeFirst(FirstLock) /\ NoDays \in [Inputs -> Days]
  BY HandedAssumption, BranchAssumption DEF LikeFirst, NoDays, Days
<1>3. /\ LikeFirst(old') /\ IsLock(new') /\ others' \in BOOLEAN
      /\ todo' \subseteq Inputs \cup {"root"} /\ excused' \subseteq Inputs
      /\ cleared' \in [Inputs -> Days] /\ step' \in Steps
      /\ step' = "others" => todo' \subseteq Direct
  <2>1. CASE RunEnds
    BY <1>2, <2>1 DEF RunEnds, LikeFirst, Steps
  <2>2. CASE ~ RunEnds
    BY <2>2 DEF UpdInv, LocksInv, RunTypeOK, Steps
  <2> QED BY <2>1, <2>2
<1>4. LocksInv'
  BY <1>3 DEF LocksInv
<1>5. RunTypeOK'
  BY <1>3 DEF RunTypeOK, LikeFirst
<1>6. CheckInv'
  <2> SUFFICES ASSUME step' = "check" PROVE CheckInv'
    BY DEF CheckInv
  <2>1. step = "check" /\ UNCHANGED <<old, new, todo, cleared>>
    BY DEF RunEnds
  <2> QED BY <2>1 DEF UpdInv, CheckInv, MovesOK, MayMove, Moved, branchVars
<1> QED BY <1>1, <1>3, <1>4, <1>5, <1>6

\* The push opens or moves the pull request, with the lock that was cleared.
LEMMA PushKeeps == ASSUME UpdInv, Push PROVE UpdInv'
<1>1. /\ step = "check" /\ todo = {} /\ step' = "publish" /\ UNCHANGED <<mainLock, branchVars>>
      /\ UNCHANGED <<old, new, others, todo, excused, cleared>>
      /\ pr'.state \in {"none", "open", "closed"} /\ pr'.base = old /\ pr'.lock = new /\ pr'.ci = "none"
      /\ pr'.cleared = cleared /\ pr'.current = FALSE
      /\ DOMAIN pr' = {"state", "base", "lock", "rows", "ci", "cleared", "current"}
  BY DEF Push
<1>2. /\ LikeFirst(old) /\ LikeFirst(mainLock) /\ IsLock(new) /\ NoLockProblems(old, new)
      /\ MovesOK(old, new, Moved(old, new), cleared) /\ cleared \in [Inputs -> Days]
      /\ \A i \in Inputs \cap DOMAIN FirstLock.nodes : Rev(mainLock, i) \in Commits
  BY <1>1 DEF UpdInv, LocksInv, CheckInv, RunTypeOK
<1>3. LikeFirst(new) /\ OnlyPinsMoved(old, new)
  BY <1>2, RootStays, SoundLockOnlyMovesPins DEF LikeFirst
<1>4. BranchInv' /\ LocksInv' /\ CheckInv' /\ RunTypeOK' /\ (step = "others" => todo \subseteq Direct)'
  BY <1>1, <1>2, <1>3, PrKeeps
<1>5. MovesOK(pr.base, pr.lock, Moved(pr.base, pr.lock), pr.cleared)'
  BY <1>1, <1>2 DEF MovesOK, MayMove, branchVars
<1>6. PrInv'
  BY <1>1, <1>3, <1>5 DEF PrInv, TableInv
<1> QED BY <1>4, <1>6 DEF UpdInv

\* A merge: an input is main's, or the branch's where main has not moved it.
LEMMA MergeMoves ==
  ASSUME UpdInv, Merge, NEW i \in Inputs \cap DOMAIN FirstLock.nodes
  PROVE  <<Rev(mainLock, i), Rev(mainLock', i)>> \in Before /\ Rev(mainLock', i) \in Commits
<1>1. /\ LikeFirst(mainLock) /\ LikeFirst(pr.base) /\ LikeFirst(pr.lock)
      /\ Rev(mainLock, i) \in Commits
  BY DEF UpdInv, LocksInv
<1>2. mainLock'.nodes[i] = IF mainLock.nodes[i] = pr.base.nodes[i]
                           THEN pr.lock.nodes[i] ELSE mainLock.nodes[i]
  BY <1>1, MergedLike DEF Merge
<1>3. CASE mainLock.nodes[i] = pr.base.nodes[i] /\ i \in Moved(pr.base, pr.lock)
  <2>1. <<Rev(pr.base, i), Rev(pr.lock, i)>> \in Before
    BY <1>3 DEF UpdInv, PrInv, MovesOK, MayMove
  <2>2. Rev(mainLock, i) = Rev(pr.base, i) /\ Rev(mainLock', i) = Rev(pr.lock, i)
    BY <1>2, <1>3 DEF Rev, Locked
  <2> QED BY <2>1, <2>2, OrderAssumption
<1>4. CASE ~ (mainLock.nodes[i] = pr.base.nodes[i] /\ i \in Moved(pr.base, pr.lock))
  <2>1. Rev(mainLock', i) = Rev(mainLock, i)
    BY <1>1, <1>2, <1>4 DEF Moved, LikeFirst, Rev, Locked
  <2> QED BY <1>1, <2>1, OrderAssumption
<1> QED BY <1>3, <1>4

\* Publish and the reviewer leave the branch as it is.
LEMMA ReviewKeeps ==
  ASSUME UpdInv, Publish \/ Close \/ Reopen \/ Merge
  PROVE  UpdInv'
<1>1. /\ UNCHANGED branchVars
      /\ pr'.state \in {"none", "open", "closed"} /\ pr'.ci \in {"none", "green"}
      /\ pr'.base = pr.base /\ pr'.lock = pr.lock /\ pr'.cleared = pr.cleared
      /\ DOMAIN pr' = {"state", "base", "lock", "rows", "ci", "cleared", "current"}
      /\ RunEnds \/ UNCHANGED <<step, old, new, others, todo, excused, cleared>>
  <2>1. /\ pr.ci \in {"none", "green"}
        /\ DOMAIN pr = {"state", "base", "lock", "rows", "ci", "cleared", "current"}
    BY DEF UpdInv, PrInv, RunTypeOK
  <2>2. CASE Publish
    BY <2>1, <2>2 DEF Publish
  <2>3. CASE Close
    BY <2>1, <2>3 DEF Close
  <2>4. CASE Reopen
    BY <2>1, <2>4 DEF Reopen
  <2>5. CASE Merge
    BY <2>1, <2>5 DEF Merge
  <2> QED BY <2>2, <2>3, <2>4, <2>5
<1>2. pr'.current \in BOOLEAN
  BY DEF UpdInv, PrInv, RunTypeOK, Publish, Close, Reopen, Merge
<1>3. LikeFirst(mainLock') /\ \A i \in Inputs \cap DOMAIN FirstLock.nodes : Rev(mainLock', i) \in Commits
  <2>1. CASE Merge
    BY <2>1, MergeMoves, MergedLike DEF Merge, UpdInv, LocksInv
  <2>2. CASE Publish \/ Close \/ Reopen
    BY <2>2 DEF Publish, Close, Reopen, UpdInv, LocksInv
  <2> QED BY <2>1, <2>2
<1>4. LikeFirst(pr.base) /\ LikeFirst(pr.lock) /\ pr.cleared \in [Inputs -> Days]
  BY DEF UpdInv, LocksInv, RunTypeOK
<1>5. BranchInv' /\ LocksInv' /\ CheckInv' /\ RunTypeOK' /\ (step = "others" => todo \subseteq Direct)'
  BY <1>1, <1>2, <1>3, <1>4, PrKeeps
<1>6. TableInv'
  <2>1. CASE Publish
    <3>1. pr'.rows = Rows(old, new) /\ pr.base = old /\ pr.lock = new
      BY <2>1 DEF UpdInv, PrInv, Publish
    <3> QED BY <1>1, <3>1 DEF TableInv
  <2>2. CASE Merge
    BY <1>1, <2>2 DEF UpdInv, PrInv, TableInv, Merge
  <2>3. CASE Close \/ Reopen
    <3>1. pr'.rows = pr.rows /\ pr'.current = pr.current /\ pr.state # "none"
      BY <2>3 DEF UpdInv, PrInv, Close, Reopen
    <3> QED BY <1>1, <3>1 DEF UpdInv, PrInv, TableInv
  <2> QED BY <2>1, <2>2, <2>3
<1>7. OnlyPinsMoved(pr'.base, pr'.lock) /\ MovesOK(pr.base, pr.lock, Moved(pr.base, pr.lock), pr.cleared)'
  BY <1>1 DEF UpdInv, PrInv, MovesOK, MayMove, Moved, branchVars
<1>8. step' = "publish" => pr'.base = old' /\ pr'.lock = new'
  BY <1>1 DEF UpdInv, PrInv, RunEnds
<1> QED BY <1>1, <1>5, <1>6, <1>7, <1>8 DEF UpdInv, PrInv

\* and every step keeps it.
LEMMA UpdStep == ASSUME UpdInv, [Next]_vars PROVE UpdInv'
<1>1. ASSUME JobFails PROVE UpdInv'
  BY <1>1, EndKeeps DEF JobFails
<1>2. ASSUME UNCHANGED vars PROVE UpdInv'
  <2>1. BranchInv'
    BY <1>2, BranchStays DEF vars, branchVars, UpdInv
  <2>2. LocksInv' /\ RunTypeOK' /\ (step = "others" => todo \subseteq Direct)'
    BY <1>2 DEF vars, runVars, UpdInv, LocksInv, RunTypeOK
  <2>3. CheckInv'
    BY <1>2 DEF vars, runVars, branchVars, UpdInv, CheckInv, MovesOK, MayMove, Moved
  <2>4. PrInv'
    BY <1>2 DEF vars, runVars, branchVars, UpdInv, PrInv, MovesOK, MayMove, Moved, TableInv
  <2> QED BY <2>1, <2>2, <2>3, <2>4 DEF UpdInv
<1> QED BY <1>1, <1>2, GitHubKeeps, UpdateKeeps, CheckKeeps, PushKeeps, ReviewKeeps DEF Next

\* What the jobs of the workflow (update-flake-lock.yml:40 to 145) rely on holds at
\* every step, whatever the first job hands over and however the branches move.
THEOREM UpdInvariant == Spec => []UpdInv
BY UpdInit, UpdStep, PTL DEF Spec

\* The types, for any inputs and commits and any length of the logs.
THEOREM UpdTypeCorrect == Spec => []UpdateTypeOK
<1>1. UpdInv => UpdateTypeOK
  BY DEF UpdInv, BranchInv, UpdateTypeOK
<1> QED BY <1>1, UpdInvariant, PTL

\* Whatever is handed over and whenever the branches move, the pull request's
\* lock only pins inputs to commits their branch held a cooldown before.
THEOREM EveryMoveIsChecked == Spec => []CheckedMoves
<1>1. UpdInv => CheckedMoves
  BY DEF UpdInv, PrInv, MovesOK, CheckedMoves
<1> QED BY <1>1, UpdInvariant, PTL

\* What the reviewer reads is of the lock that would be merged.
THEOREM TheTableIsOfTheLock == Spec => []TableIsOfTheLock
<1>1. UpdInv => TableIsOfTheLock
  BY DEF UpdInv, PrInv, TableInv, TableIsOfTheLock
<1> QED BY <1>1, UpdInvariant, PTL

\* main's inputs only move to commits that descend from theirs, also when main
\* moved since the run checked.
THEOREM MergesForward == Spec => MergesMoveForward
<1> DEFINE Forward == mainLock' # mainLock =>
                        \A i \in Inputs \cap DOMAIN FirstLock.nodes :
                          <<Rev(mainLock, i), Rev(mainLock', i)>> \in Before
<1>1. ASSUME UpdInv, [Next]_vars PROVE [Forward]_vars
  <2>1. CASE Merge
    BY <1>1, <2>1, MergeMoves
  <2>2. CASE mainLock' = mainLock
    BY <2>2
  <2>3. Next /\ ~ Merge => mainLock' = mainLock
    BY DEF Next, runVars, Start, AskCarry, AskFails, UpdateNixpkgs, UpdateDone, UpdateUntrusted,
           UpdateInput, UpdateInputFails, CheckInput, CheckLock, Push, Publish, JobFails, Close, Reopen
  <2> QED BY <1>1, <2>1, <2>2, <2>3
<1> QED BY <1>1, UpdInvariant, PTL DEF Spec, MergesMoveForward

(***************************************************************************)
(* What the honest update job does.                                        *)
(***************************************************************************)

\* Each input is pinned to a commit.
PinsCommits(lock) == \A i \in DOMAIN FirstLock.nodes \ {"root"} : Rev(lock, i) \in Commits

\* A node as nix writes it: pinned to a commit, with its hash and date.
WrittenNode(node) ==
  /\ "locked" \in DOMAIN node /\ OfCommit(node.locked) /\ node.locked.rev \in Commits
  /\ "inputs" \in DOMAIN node => node.inputs # Missing

\* A lock as nix writes it, all of it GitHub's.
Written(lock) ==
  /\ LikeFirst(lock)
  /\ \A i \in DOMAIN FirstLock.nodes \ {"root"} :
       WrittenNode(lock.nodes[i]) /\ Get(lock.nodes[i].locked, "type") = "github"

\* The first lock is pinned to commits, and is as nix writes it.
LEMMA FirstWritten == Written(FirstLock) /\ PinsCommits(FirstLock) /\ LikeFirst(FirstLock)
<1>1. LikeFirst(FirstLock)
  BY HandedAssumption DEF LikeFirst
<1>2. ASSUME NEW i \in DOMAIN FirstLock.nodes \ {"root"}
      PROVE  WrittenNode(FirstLock.nodes[i]) /\ Get(FirstLock.nodes[i].locked, "type") = "github"
  <2>1. Rev(FirstLock, i) \in Commits /\ Rev(FirstLock, i) # Missing
    BY UpdateAssumption
  <2>2. "locked" \in DOMAIN FirstLock.nodes[i] /\ FirstLock.nodes[i].locked.rev \in Commits
    BY <2>1 DEF Rev, Locked, Get
  <2> QED BY <2>2, WrittenAssumption DEF WrittenNode
<1>3. PinsCommits(FirstLock)
  BY UpdateAssumption DEF PinsCommits
<1> QED BY <1>1, <1>2, <1>3 DEF Written

\* It pins commits.
LEMMA WrittenRevs == ASSUME NEW lock, Written(lock) PROVE PinsCommits(lock)
<1> SUFFICES ASSUME NEW i \in DOMAIN FirstLock.nodes \ {"root"} PROVE Rev(lock, i) \in Commits
    BY DEF PinsCommits
<1> QED BY DEF Written, WrittenNode, OfCommit, Rev, Locked, Get

\* A merge takes each node from one of two locks.
LEMMA MergeWritten ==
  ASSUME NEW base, NEW ours, NEW theirs, LikeFirst(base), Written(ours), Written(theirs)
  PROVE  Written(Merged(base, ours, theirs))
<1> DEFINE merged == Merged(base, ours, theirs)
<1>1. /\ LikeFirst(merged)
      /\ \A n \in DOMAIN FirstLock.nodes : merged.nodes[n] \in {ours.nodes[n], theirs.nodes[n]}
  BY MergedLike DEF Written
<1> HIDE DEF merged
<1> QED BY <1>1 DEF Written, merged

\* nix pins a direct input to another commit: where the direct inputs are pinned.
LEMMA PinRevs ==
  ASSUME NEW lock, IsLock(lock), Direct \subseteq DOMAIN lock.nodes,
         NEW i \in Direct, Rev(lock, i) \in Commits, NEW c \in Commits
  PROVE  /\ IsLock(Pin(lock, i, c)) /\ Direct \subseteq DOMAIN Pin(lock, i, c).nodes
         /\ Rev(Pin(lock, i, c), i) = c
         /\ \A j \in Direct \ {i} : Rev(Pin(lock, i, c), j) = Rev(lock, j)
<1> DEFINE made == Pin(lock, i, c)
           node == lock.nodes[i]
<1>1. /\ IsLock(made) /\ DOMAIN lock.nodes \ Below(i) \subseteq DOMAIN made.nodes
      /\ made.nodes[i] = PinnedNode(node, i, c)
      /\ \A n \in DOMAIN lock.nodes \ (Below(i) \cup {i}) : made.nodes[n] = lock.nodes[n]
  BY PinNodes
<1>2. Direct \cap Below(i) = {}
  BY OwnAssumption
<1>3. "locked" \in DOMAIN node /\ "rev" \in DOMAIN node.locked
  <2>1. Rev(lock, i) # Missing
    BY UpdateAssumption
  <2> QED BY <2>1 DEF Rev, Locked, Get
<1>4. /\ "locked" \in DOMAIN made.nodes[i]
      /\ made.nodes[i].locked = Repinned(node.locked, c, c, c)
      /\ DOMAIN made.nodes[i].locked = DOMAIN node.locked
  <2>1. IsDict(node.locked)
    BY <1>3 DEF IsLock
  <2> HIDE DEF made, node
  <2>2. /\ "locked" \in DOMAIN PinnedNode(node, i, c)
        /\ PinnedNode(node, i, c).locked = Repinned(node.locked, c, c, c)
        /\ DOMAIN Repinned(node.locked, c, c, c) = DOMAIN node.locked
    BY <1>3, <2>1, PinnedPin
  <2> QED BY <1>1, <2>2
<1> HIDE DEF made, node
<1>5. Repinned(node.locked, c, c, c).rev = c
  BY <1>3 DEF Repinned
<1>6. Rev(made, i) = c
  BY <1>3, <1>4, <1>5 DEF Rev, Locked, Get
<1>7. \A j \in Direct \ {i} : Rev(made, j) = Rev(lock, j)
  BY <1>1, <1>2 DEF Rev, Locked
<1> QED BY <1>1, <1>2, <1>6, <1>7 DEF made

---------------------------------------------------------------------------
\* An honest run's lock: for each direct input what was there, or what nix writes
\* for its new commit.

\* What is at these nodes is as in the first lock.
SameAt(a, b, nodes) ==
  \A n \in nodes : /\ n \in DOMAIN a.nodes <=> n \in DOMAIN b.nodes
                   /\ n \in DOMAIN a.nodes => b.nodes[n] = a.nodes[n]

\* The second lock has an input as nix pins it to a commit in the first.
PinnedAt(a, b, i, c) ==
  /\ b.nodes[i] = PinnedNode(a.nodes[i], i, c)
  /\ \A n \in Below(i) : n \in DOMAIN b.nodes <=> n \in DOMAIN Own[i][c].nodes
  /\ \A n \in DOMAIN Own[i][c].nodes : b.nodes[n] = Own[i][c].nodes[n]

\* The nodes of no direct input.
Others(a, b) ==
  {n \in DOMAIN a.nodes \cup DOMAIN b.nodes : \A i \in Direct : n # i /\ n \notin Below(i)}

\* Is an input one that the run has updated?
Updated(a, b, i) == i = Nixpkgs \/ Rev(a, i) # Rev(b, i)

HonestLock(a, b) ==
  /\ IsLock(b) /\ b.top = a.top /\ Direct \subseteq DOMAIN b.nodes
  /\ SameAt(a, b, Others(a, b))
  /\ \A i \in Direct :
       /\ Rev(b, i) \in Commits
       /\ Updated(a, b, i) => PinnedAt(a, b, i, Rev(b, i))
       /\ ~ Updated(a, b, i) => SameAt(a, b, {i} \cup Below(i))

\* The update of one more input.
LEMMA PinSame ==
  ASSUME NEW a, NEW b, IsLock(b), Direct \subseteq DOMAIN b.nodes,
         NEW i \in Direct, Rev(b, i) \in Commits, NEW c \in Commits,
         SameAt(a, b, {i} \cup Below(i)),
         SameAt(a, b, Others(a, b))
  PROVE  LET made == Pin(b, i, c)
         IN  /\ PinnedAt(a, made, i, c)
             /\ SameAt(a, made, Others(a, made))
             /\ \A j \in Direct \ {i} : SameAt(b, made, {j} \cup Below(j))
<1> DEFINE made == Pin(b, i, c)
           own == Own[i][c].nodes
<1>1. /\ DOMAIN made.nodes = (DOMAIN b.nodes \ Below(i)) \cup DOMAIN own
      /\ DOMAIN own \subseteq Below(i) /\ i \notin Below(i)
      /\ made.nodes[i] = PinnedNode(b.nodes[i], i, c)
      /\ \A n \in DOMAIN own : made.nodes[n] = own[n]
      /\ \A n \in DOMAIN b.nodes \ (Below(i) \cup {i}) : made.nodes[n] = b.nodes[n]
  BY PinNodes
<1>2. b.nodes[i] = a.nodes[i]
  BY DEF SameAt
<1>3. \A j \in Direct \ {i} : Below(j) \cap Below(i) = {} /\ j \notin Below(i) /\ i \notin Below(j)
  BY OwnAssumption
<1> HIDE DEF made, own
<1>4. PinnedAt(a, made, i, c)
  BY <1>1, <1>2 DEF PinnedAt, own
<1>5. SameAt(a, made, Others(a, made))
  <2> SUFFICES ASSUME NEW n \in Others(a, made)
               PROVE  /\ n \in DOMAIN a.nodes <=> n \in DOMAIN made.nodes
                      /\ n \in DOMAIN a.nodes => made.nodes[n] = a.nodes[n]
    BY DEF SameAt
  <2>1. n # i /\ n \notin Below(i) /\ n \in Others(a, b)
    BY <1>1 DEF Others
  <2> QED BY <1>1, <2>1 DEF SameAt
<1>6. ASSUME NEW j \in Direct \ {i} PROVE SameAt(b, made, {j} \cup Below(j))
  BY <1>1, <1>3 DEF SameAt
<1> QED BY <1>4, <1>5, <1>6 DEF made

\* nix updates an input that the run has not updated yet.
LEMMA PinUpdates ==
  ASSUME NEW a, NEW b, NEW i \in Direct, NEW c \in Commits, Direct \subseteq DOMAIN a.nodes,
         \/ a = b /\ i = Nixpkgs /\ IsLock(a) /\ \A j \in Direct : Rev(a, j) \in Commits
         \/ HonestLock(a, b) /\ ~ Updated(a, b, i) /\ Rev(a, i) # c
  PROVE  HonestLock(a, Pin(b, i, c))
<1> DEFINE made == Pin(b, i, c)
<1>1. /\ IsLock(b) /\ b.top = a.top /\ Direct \subseteq DOMAIN b.nodes
      /\ SameAt(a, b, Others(a, b)) /\ SameAt(a, b, {i} \cup Below(i))
      /\ \A j \in Direct : Rev(b, j) \in Commits
      /\ \A j \in Direct \ {i} : /\ Updated(a, b, j) => PinnedAt(a, b, j, Rev(b, j))
                                 /\ ~ Updated(a, b, j) => SameAt(a, b, {j} \cup Below(j))
  <2>1. CASE a = b /\ i = Nixpkgs BY <2>1 DEF SameAt, Updated
  <2>2. CASE HonestLock(a, b) /\ ~ Updated(a, b, i) BY <2>2 DEF HonestLock
  <2> QED BY <2>1, <2>2
<1>2. /\ IsLock(made) /\ made.top = b.top /\ Direct \subseteq DOMAIN made.nodes
      /\ Rev(made, i) = c /\ \A j \in Direct \ {i} : Rev(made, j) = Rev(b, j)
  <2>1. Rev(b, i) \in Commits /\ IsLock(b) /\ Direct \subseteq DOMAIN b.nodes BY <1>1
  <2>2. made.top = b.top BY <2>1, PinNodes
  <2> HIDE DEF made
  <2>3. IsLock(Pin(b, i, c)) /\ Direct \subseteq DOMAIN Pin(b, i, c).nodes
    BY <2>1, PinRevs
  <2>4. Rev(Pin(b, i, c), i) = c
    BY <2>1, PinRevs
  <2>5. \A j \in Direct \ {i} : Rev(Pin(b, i, c), j) = Rev(b, j)
    BY <2>1, PinRevs
  <2> QED BY <2>2, <2>3, <2>4, <2>5 DEF made
<1>3. /\ PinnedAt(a, made, i, c) /\ SameAt(a, made, Others(a, made))
      /\ \A j \in Direct \ {i} : SameAt(b, made, {j} \cup Below(j))
  BY <1>1, PinSame
<1>4. Updated(a, made, i)
  BY <1>2 DEF Updated
<1> HIDE DEF made
<1>5. ASSUME NEW j \in Direct \ {i}
      PROVE  /\ Rev(made, j) \in Commits
             /\ Updated(a, made, j) => PinnedAt(a, made, j, Rev(made, j))
             /\ ~ Updated(a, made, j) => SameAt(a, made, {j} \cup Below(j))
  <2>1. Rev(made, j) = Rev(b, j) /\ (Updated(a, made, j) <=> Updated(a, b, j)) /\ Rev(b, j) \in Commits
    BY <1>1, <1>2 DEF Updated
  <2>2. SameAt(b, made, {j} \cup Below(j)) /\ j \in DOMAIN b.nodes
    BY <1>1, <1>3
  <2>3. ASSUME Updated(a, b, j) PROVE PinnedAt(a, made, j, Rev(b, j))
    <3>1. PinnedAt(a, b, j, Rev(b, j)) BY <1>1, <2>3
    <3>2. DOMAIN Own[j][Rev(b, j)].nodes \subseteq Below(j) BY <1>1, <2>1, PinNodes
    <3> QED BY <2>2, <3>1, <3>2 DEF PinnedAt, SameAt
  <2>4. ASSUME ~ Updated(a, b, j) PROVE SameAt(a, made, {j} \cup Below(j))
    BY <1>1, <2>2, <2>4 DEF SameAt
  <2> QED BY <2>1, <2>3, <2>4
<1>6. SameAt(a, made, Others(a, made)) /\ IsLock(made) /\ made.top = a.top /\ Direct \subseteq DOMAIN made.nodes
  BY <1>1, <1>2, <1>3
<1>7. Rev(made, i) \in Commits /\ PinnedAt(a, made, i, Rev(made, i))
  BY <1>2, <1>3
<1> QED BY <1>4, <1>5, <1>6, <1>7 DEF HonestLock, made

---------------------------------------------------------------------------
\* When lock_problems refuses such a lock.

WrittenPin(node) ==
  "locked" \in DOMAIN node /\ IsDict(node.locked) /\ OfCommit(node.locked) /\ node.locked.rev \in Commits

\* Of two nodes that nix wrote the rules allow what differs exactly when their
\* frames are the same.
LEMMA FrameSound ==
  ASSUME NEW o, NEW n, IsDict(o), IsDict(n), WrittenPin(o), WrittenPin(n),
         Get(o.locked, "type") = "github"
  PROVE  NodeSound(o, n) <=> Frame(o) = Frame(n)
<1> DEFINE pins == {"rev", "narHash", "lastModified"}
           ol == o.locked
           nl == n.locked
           FramePin(pin) == [k \in DOMAIN pin \ pins |-> pin[k]]
<1>1. /\ "locked" \in DOMAIN o /\ "locked" \in DOMAIN n /\ IsDict(ol) /\ IsDict(nl)
      /\ pins \subseteq DOMAIN ol /\ pins \subseteq DOMAIN nl
      /\ ol.narHash = ol.rev /\ ol.lastModified = ol.rev
      /\ nl.narHash = nl.rev /\ nl.lastModified = nl.rev /\ nl.rev \in Commits
      /\ Get(ol, "type") = "github"
  BY DEF WrittenPin, OfCommit
<1>2. /\ Frame(o) = [key \in DOMAIN o |-> IF key = "locked" THEN FramePin(ol) ELSE o[key]]
      /\ Frame(n) = [key \in DOMAIN n |-> IF key = "locked" THEN FramePin(nl) ELSE n[key]]
  BY DEF Frame
<1> HIDE DEF ol, nl
<1>3. ASSUME NodeSound(o, n) PROVE Frame(o) = Frame(n)
  <2>1. DOMAIN o = DOMAIN n /\ \A key \in DOMAIN o \ {"locked"} : o[key] = n[key]
    BY <1>3 DEF NodeSound, Get
  <2>2. LockedSound(ol, nl)
    BY <1>1, <1>3 DEF NodeSound, ol, nl
  <2>3. DOMAIN ol = DOMAIN nl /\ \A key \in DOMAIN ol \ pins : ol[key] = nl[key]
    BY <2>2 DEF LockedSound, Movable, Get
  <2>4. FramePin(ol) = FramePin(nl)
    BY <2>3
  <2> HIDE DEF FramePin
  <2> QED BY <1>2, <2>1, <2>4
<1>4. ASSUME Frame(o) = Frame(n) PROVE NodeSound(o, n)
  <2> DEFINE fo == FramePin(ol)
             fn == FramePin(nl)
  <2>1. /\ DOMAIN o = DOMAIN n /\ fo = fn
        /\ \A key \in DOMAIN o \ {"locked"} : o[key] = n[key]
    <3> HIDE DEF FramePin
    <3>1. DOMAIN o = DOMAIN n BY <1>2, <1>4
    <3>2. \A key \in DOMAIN o : Frame(o)[key] = Frame(n)[key] BY <1>4
    <3> QED BY <1>1, <1>2, <3>1, <3>2
  <2>2. DOMAIN fo = DOMAIN ol \ pins /\ DOMAIN fn = DOMAIN nl \ pins
    OBVIOUS
  <2>3. \A key \in DOMAIN ol \ pins : fo[key] = ol[key]
    OBVIOUS
  <2>4. \A key \in DOMAIN nl \ pins : fn[key] = nl[key]
    OBVIOUS
  <2> HIDE DEF FramePin, fo, fn
  <2>5. DOMAIN ol = DOMAIN nl /\ \A key \in DOMAIN ol \ pins : ol[key] = nl[key]
    BY <1>1, <2>1, <2>2, <2>3, <2>4
  <2>6. \A key \in pins : nl[key] \in WellFormed[key]
    BY <1>1, WrittenAssumption
  <2>7. ASSUME ol.rev = nl.rev PROVE ol = nl
    <3>1. \A key \in DOMAIN ol : ol[key] = nl[key]
      BY <1>1, <2>5, <2>7
    <3> QED BY <1>1, <2>5, <3>1 DEF IsDict
  <2>8. LockedSound(ol, nl)
    BY <1>1, <2>5, <2>6, <2>7 DEF LockedSound, Movable, Get
  <2> QED BY <2>1, <2>8 DEF NodeSound, Get, ol, nl
<1> QED BY <1>3, <1>4

\* Of an input and its node at another commit it depends on the inputs it has.
LEMMA PinnedSound ==
  ASSUME NEW o, IsDict(o), WrittenPin(o), Get(o.locked, "type") = "github",
         "inputs" \in DOMAIN o => o.inputs # Missing, NEW i \in Direct, NEW c \in Commits
  PROVE  NodeSound(o, PinnedNode(o, i, c)) <=> Get(o, "inputs") = Own[i][c].inputs
<1>1. /\ "locked" \in DOMAIN o /\ IsDict(o.locked) /\ OfCommit(o.locked)
  BY DEF WrittenPin
<1>2. /\ "locked" \in DOMAIN PinnedNode(o, i, c)
      /\ PinnedNode(o, i, c).locked = Repinned(o.locked, c, c, c)
      /\ IsDict(Repinned(o.locked, c, c, c)) /\ DOMAIN Repinned(o.locked, c, c, c) = DOMAIN o.locked
  BY <1>1, PinnedPin
<1>3. /\ IsDict(PinnedNode(o, i, c))
      /\ DOMAIN PinnedNode(o, i, c) =
           (DOMAIN o \ {"inputs"}) \cup (IF Own[i][c].inputs = Missing THEN {} ELSE {"inputs"})
      /\ "inputs" \in DOMAIN PinnedNode(o, i, c) => PinnedNode(o, i, c).inputs = Own[i][c].inputs
      /\ \A key \in DOMAIN o \ {"inputs", "locked"} : PinnedNode(o, i, c)[key] = o[key]
  BY <1>1 DEF PinnedNode, IsDict
<1> DEFINE n == PinnedNode(o, i, c)
           own == Own[i][c].inputs
<1>4. /\ IsDict(n) /\ DOMAIN n = (DOMAIN o \ {"inputs"}) \cup (IF own = Missing THEN {} ELSE {"inputs"})
      /\ "locked" \in DOMAIN n /\ n.locked = Repinned(o.locked, c, c, c)
      /\ IsDict(n.locked) /\ DOMAIN n.locked = DOMAIN o.locked
      /\ "inputs" \in DOMAIN n => n.inputs = own
      /\ \A key \in DOMAIN o \ {"inputs", "locked"} : n[key] = o[key]
  BY <1>2, <1>3
<1> HIDE DEF n, own
<1>5. /\ WrittenPin(n)
      /\ \A key \in DOMAIN o.locked \ {"rev", "narHash", "lastModified"} : n.locked[key] = o.locked[key]
  BY <1>1, <1>4 DEF WrittenPin, OfCommit, Repinned
<1>6. ASSUME NodeSound(o, n) PROVE Get(o, "inputs") = own
  <2>1. DOMAIN o = DOMAIN n BY <1>6 DEF NodeSound
  <2>2. CASE "inputs" \in DOMAIN o
    <3>1. o.inputs = n.inputs BY <1>6, <2>1, <2>2 DEF NodeSound, Get
    <3> QED BY <1>4, <2>1, <2>2, <3>1 DEF Get
  <2>3. CASE "inputs" \notin DOMAIN o
    BY <1>4, <2>1, <2>3 DEF Get
  <2> QED BY <2>2, <2>3
<1>7. ASSUME Get(o, "inputs") = own PROVE NodeSound(o, n)
  <2>1. DOMAIN o = DOMAIN n
    BY <1>4, <1>7 DEF Get
  <2>2. \A key \in DOMAIN o \ {"locked"} : o[key] = n[key]
    BY <1>4, <1>7, <2>1 DEF Get
  <2>3. [k \in DOMAIN o.locked \ {"rev", "narHash", "lastModified"} |-> o.locked[k]]
          = [k \in DOMAIN n.locked \ {"rev", "narHash", "lastModified"} |-> n.locked[k]]
    BY <1>4, <1>5
  <2>4. Frame(o) = Frame(n)
    BY <2>1, <2>2, <2>3 DEF Frame
  <2> QED BY <1>4, <1>5, <2>4, FrameSound
<1> QED BY <1>6, <1>7 DEF n, own

\* lock_problems refuses an honest update's lock exactly when an input that it
\* updated has not kept its own inputs.
LEMMA UpdateIsSound ==
  ASSUME NEW a, NEW b, Written(a), HonestLock(a, b)
  PROVE  NoLockProblems(a, b)
           <=> \A i \in Direct : Updated(a, b, i) => OwnKept(a, i, Rev(b, i))
<1>1. /\ IsLock(a) /\ IsLock(b) /\ b.top = a.top /\ DOMAIN a.nodes = DOMAIN FirstLock.nodes
      /\ Direct \subseteq DOMAIN a.nodes /\ Direct \subseteq DOMAIN b.nodes
      /\ "root" \in DOMAIN a.nodes /\ "locked" \notin DOMAIN a.nodes.root
      /\ \A i \in Direct : i # "root" /\ "root" \notin Below(i)
  BY DirectAre, UpdateAssumption, OwnAssumption DEF Written, LikeFirst, HonestLock
<1>2. ASSUME NEW n \in DOMAIN a.nodes \ {"root"}
      PROVE  /\ IsDict(a.nodes[n]) /\ WrittenPin(a.nodes[n]) /\ Get(a.nodes[n].locked, "type") = "github"
             /\ "inputs" \in DOMAIN a.nodes[n] => a.nodes[n].inputs # Missing
  <2>1. WrittenNode(a.nodes[n]) /\ Get(a.nodes[n].locked, "type") = "github" BY <1>1 DEF Written
  <2> QED BY <1>1, <2>1 DEF WrittenNode, WrittenPin, IsLock
<1>3. ASSUME NEW n \in DOMAIN a.nodes PROVE NodeSound(a.nodes[n], a.nodes[n])
  <2>1. CASE n = "root" BY <1>1, <2>1 DEF NodeSound
  <2>2. CASE n # "root" BY <1>2, <2>2, FrameSound
  <2> QED BY <2>1, <2>2
<1>4. ASSUME NEW i \in Direct
      PROVE  LET own == Own[i][Rev(b, i)].nodes
             IN  \A n \in DOMAIN own :
                   n \in Below(i) /\ IsDict(own[n]) /\ WrittenPin(own[n])
  <2>1. Rev(b, i) \in Commits BY DEF HonestLock
  <2>2. DOMAIN Own[i][Rev(b, i)].nodes \subseteq Below(i) BY <1>1, <2>1, PinNodes
  <2> QED BY <2>1, <2>2, OwnAssumption DEF WrittenPin
<1>5. ASSUME NoLockProblems(a, b), NEW i \in Direct, Updated(a, b, i)
      PROVE  OwnKept(a, i, Rev(b, i))
  <2> DEFINE c == Rev(b, i)
             own == Own[i][c].nodes
  <2>1. c \in Commits /\ PinnedAt(a, b, i, c) BY <1>5 DEF HonestLock
  <2>2. DOMAIN a.nodes = DOMAIN b.nodes /\ \A n \in DOMAIN a.nodes : NodeSound(a.nodes[n], b.nodes[n])
    BY <1>5 DEF NoLockProblems
  <2>3. \A n \in DOMAIN own : n \in Below(i) /\ IsDict(own[n]) /\ WrittenPin(own[n])
    BY <1>4
  <2> HIDE DEF c, own
  <2>4. Get(a.nodes[i], "inputs") = Own[i][c].inputs
    <3>1. NodeSound(a.nodes[i], PinnedNode(a.nodes[i], i, c)) BY <1>1, <2>1, <2>2 DEF PinnedAt
    <3>2. i \in DOMAIN a.nodes \ {"root"} BY <1>1
    <3> QED BY <1>2, <2>1, <3>1, <3>2, PinnedSound
  <2>5. DOMAIN a.nodes \cap Below(i) = DOMAIN own
    BY <2>1, <2>2, <2>3 DEF PinnedAt, own
  <2>6. ASSUME NEW n \in DOMAIN own PROVE Frame(a.nodes[n]) = Frame(own[n])
    <3>1. n \in DOMAIN a.nodes \ {"root"} /\ NodeSound(a.nodes[n], own[n])
      BY <1>1, <2>1, <2>2, <2>3, <2>5 DEF PinnedAt, own
    <3> QED BY <1>2, <2>3, <3>1, FrameSound
  <2> QED BY <2>4, <2>5, <2>6 DEF OwnKept, c, own
<1>6. ASSUME \A i \in Direct : Updated(a, b, i) => OwnKept(a, i, Rev(b, i))
      PROVE  NoLockProblems(a, b)
  <2> DEFINE Sound(n) ==
               n \in DOMAIN a.nodes /\ n \in DOMAIN b.nodes /\ NodeSound(a.nodes[n], b.nodes[n])
  <2>1. ASSUME NEW n \in DOMAIN a.nodes \cup DOMAIN b.nodes PROVE Sound(n)
    <3>1. ASSUME n \in DOMAIN a.nodes <=> n \in DOMAIN b.nodes, n \in DOMAIN a.nodes => b.nodes[n] = a.nodes[n]
          PROVE  Sound(n)
      BY <1>3, <2>1, <3>1
    <3>2. CASE n \in Others(a, b)
      <4>1. SameAt(a, b, Others(a, b)) BY DEF HonestLock
      <4> QED BY <3>1, <3>2, <4>1 DEF SameAt
    <3>3. ASSUME NEW i \in Direct, n = i \/ n \in Below(i), ~ Updated(a, b, i) PROVE Sound(n)
      <4>1. SameAt(a, b, {i} \cup Below(i)) BY <3>3 DEF HonestLock
      <4> QED BY <3>1, <3>3, <4>1 DEF SameAt
    <3>4. ASSUME NEW i \in Direct, n = i \/ n \in Below(i), Updated(a, b, i) PROVE Sound(n)
      <4> DEFINE c == Rev(b, i)
                 own == Own[i][c].nodes
      <4>1. c \in Commits /\ PinnedAt(a, b, i, c) BY <3>4 DEF HonestLock
      <4>2. OwnKept(a, i, c) BY <1>6, <3>4
      <4>3. \A x \in DOMAIN own : x \in Below(i) /\ IsDict(own[x]) /\ WrittenPin(own[x]) BY <1>4
      <4> HIDE DEF c, own
      <4>4. CASE n = i
        <5>1. n \in DOMAIN a.nodes \ {"root"} /\ n \in DOMAIN b.nodes BY <1>1, <4>4
        <5>2. Get(a.nodes[i], "inputs") = Own[i][c].inputs BY <4>2 DEF OwnKept
        <5>3. NodeSound(a.nodes[i], PinnedNode(a.nodes[i], i, c))
          BY <1>2, <4>1, <4>4, <5>1, <5>2, PinnedSound
        <5>4. b.nodes[i] = PinnedNode(a.nodes[i], i, c) BY <4>1 DEF PinnedAt
        <5> QED BY <4>4, <5>1, <5>3, <5>4
      <4>5. CASE n \in Below(i)
        <5>1. n \in DOMAIN a.nodes \ {"root"} /\ n \in DOMAIN b.nodes /\ n \in DOMAIN own
          BY <1>1, <2>1, <4>1, <4>2, <4>5 DEF PinnedAt, OwnKept, own
        <5>2. b.nodes[n] = own[n] BY <4>1, <5>1 DEF PinnedAt, own
        <5>3. Frame(a.nodes[n]) = Frame(own[n]) BY <4>2, <5>1 DEF OwnKept, own
        <5>4. NodeSound(a.nodes[n], own[n]) BY <1>2, <4>3, <5>1, <5>3, FrameSound
        <5> QED BY <5>1, <5>2, <5>4
      <4> QED BY <3>4, <4>4, <4>5
    <3> QED BY <2>1, <3>2, <3>3, <3>4 DEF Others
  <2>2. DOMAIN a.nodes = DOMAIN b.nodes BY <2>1
  <2> QED BY <1>1, <2>1, <2>2 DEF NoLockProblems
<1> QED BY <1>5, <1>6

\* A lock that the check lets through is one that nix wrote.
LEMMA SoundUpdateWritten ==
  ASSUME NEW a, NEW b, Written(a), HonestLock(a, b), NoLockProblems(a, b)
  PROVE  Written(b)
<1>1. LikeFirst(b) /\ DOMAIN a.nodes = DOMAIN FirstLock.nodes /\ DOMAIN b.nodes = DOMAIN FirstLock.nodes
  BY RootStays DEF Written, HonestLock, LikeFirst
<1>2. ASSUME NEW n \in DOMAIN FirstLock.nodes \ {"root"}
      PROVE  WrittenNode(b.nodes[n]) /\ Get(b.nodes[n].locked, "type") = "github"
  <2>1. /\ WrittenNode(a.nodes[n]) /\ Get(a.nodes[n].locked, "type") = "github"
        /\ NodeSound(a.nodes[n], b.nodes[n])
    BY <1>1 DEF Written, NoLockProblems
  <2>2. /\ "locked" \in DOMAIN b.nodes[n] /\ LockedSound(a.nodes[n].locked, b.nodes[n].locked)
        /\ "inputs" \in DOMAIN b.nodes[n] => b.nodes[n].inputs # Missing
    BY <2>1 DEF WrittenNode, NodeSound, Get
  <2>3. Get(b.nodes[n].locked, "type") = "github"
    BY <2>1, <2>2 DEF LockedSound, Movable, Get
  <2>4. WrittenPin(b.nodes[n])
    <3>0. IsDict(b.nodes[n].locked) BY <1>1, <2>2 DEF LikeFirst, IsLock
    <3>1. CASE b.nodes[n] = a.nodes[n] BY <2>1, <3>0, <3>1 DEF WrittenNode, WrittenPin
    <3>2. ASSUME NEW i \in Direct, Updated(a, b, i), n = i \/ n \in Below(i) PROVE WrittenPin(b.nodes[n])
      <4> DEFINE c == Rev(b, i)
      <4>1. c \in Commits /\ PinnedAt(a, b, i, c) BY <3>2 DEF HonestLock
      <4> HIDE DEF c
      <4>2. CASE n = i
        <5>1. IsDict(a.nodes[n]) /\ IsDict(a.nodes[n].locked) /\ "locked" \in DOMAIN a.nodes[n]
          BY <1>1, <2>1 DEF Written, LikeFirst, IsLock, WrittenNode
        <5>2. b.nodes[n].locked = Repinned(a.nodes[n].locked, c, c, c)
          <6>1. PinnedNode(a.nodes[n], i, c).locked = Repinned(a.nodes[n].locked, c, c, c)
            BY <5>1, PinnedPin
          <6> QED BY <4>1, <4>2, <6>1 DEF PinnedAt
        <5>3. {"rev", "narHash", "lastModified"} \subseteq DOMAIN a.nodes[n].locked
          BY <2>1 DEF WrittenNode, OfCommit
        <5> QED BY <2>2, <3>0, <4>1, <5>2, <5>3 DEF OfCommit, Repinned, WrittenPin
      <4>3. CASE n \in Below(i)
        <5>1. n \in DOMAIN Own[i][c].nodes /\ b.nodes[n] = Own[i][c].nodes[n]
          BY <1>1, <4>1, <4>3 DEF PinnedAt
        <5> QED BY <2>2, <3>0, <4>1, <5>1, OwnAssumption DEF WrittenPin
      <4> QED BY <3>2, <4>2, <4>3
    <3>3. ASSUME ~ (\E i \in Direct : Updated(a, b, i) /\ (n = i \/ n \in Below(i)))
          PROVE  b.nodes[n] = a.nodes[n]
      <4>1. CASE n \in Others(a, b) BY <1>1, <4>1 DEF HonestLock, SameAt
      <4>2. CASE n \notin Others(a, b)
        <5>1. PICK i \in Direct : n = i \/ n \in Below(i) BY <1>1, <4>2 DEF Others
        <5>2. SameAt(a, b, {i} \cup Below(i)) BY <3>3, <5>1 DEF HonestLock
        <5> QED BY <1>1, <5>1, <5>2 DEF SameAt
      <4> QED BY <4>1, <4>2
    <3> QED BY <3>1, <3>2, <3>3
  <2> QED BY <2>2, <2>3, <2>4 DEF WrittenNode, WrittenPin
<1> QED BY <1>1, <1>2 DEF Written

\* What an honest run has at each step: every lock on main or on the branch is one
\* that nix wrote, and its own is main's with some inputs updated.
HonestInv ==
  /\ \A lock \in {mainLock, old, pr.base, pr.lock} : Written(lock)
  /\ step # "forged"
  /\ step \in {"ask", "update"} => new = old
  /\ step \in {"others", "handed", "check"} => HonestLock(old, new)
  /\ step = "others" => \A i \in todo : ~ Updated(old, new, i)

\* Without an untrusted job every step keeps that.
LEMMA HonestStep ==
  ASSUME UpdInv, HonestInv, "untrusted" \notin Events, [Next]_vars
  PROVE  HonestInv'
<1>1. /\ Written(mainLock) /\ Written(old) /\ Written(pr.base) /\ Written(pr.lock)
      /\ Written(FirstLock) /\ LikeFirst(pr.base) /\ LikeFirst(old) /\ IsLock(new) /\ step # "forged"
  BY FirstWritten DEF HonestInv, UpdInv, LocksInv
<1>2. /\ Direct \subseteq DOMAIN old.nodes /\ \A j \in Direct : Rev(old, j) \in Commits
      /\ IsLock(old) /\ DOMAIN DirectInputs(old) = Direct /\ Nixpkgs \in Direct
  BY <1>1, DirectAre, DirectOfRoot, WrittenRevs DEF LikeFirst, PinsCommits
<1> HIDE DEF Written, HonestLock, Updated
<1>3. ASSUME RunEnds, UNCHANGED mainLock, pr'.base = pr.base, pr'.lock = pr.lock PROVE HonestInv'
  BY <1>1, <1>3 DEF HonestInv, RunEnds
<1>4. ASSUME UNCHANGED <<mainLock, old, new, step>>, todo' \subseteq todo, pr'.base = pr.base, pr'.lock = pr.lock
      PROVE  HonestInv'
  <2>1. Updated(old, new, Nixpkgs)' = Updated(old, new, Nixpkgs) /\ \A i : Updated(old', new', i) = Updated(old, new, i)
    BY <1>4 DEF Updated
  <2> QED BY <1>4, <2>1 DEF HonestInv
<1>5. ASSUME UNCHANGED <<mainLock, old, new, pr>>,
             \/ step = "ask" /\ step' = "update"
             \/ step = "others" /\ step' = "handed"
             \/ step = "handed" /\ step' = "check"
      PROVE  HonestInv'
  BY <1>5 DEF HonestInv
<1>6. CASE GitHubMoves /\ UNCHANGED runVars BY <1>4, <1>6 DEF runVars
<1>7. CASE Start BY <1>1, <1>7 DEF Start, HonestInv
<1>8. CASE AskCarry \/ AskFails BY <1>5, <1>8 DEF AskCarry, AskFails, At
<1>9. CASE UpdateNixpkgs
  <2>1. branch[Nixpkgs] \in Commits /\ new = old
    BY <1>9, UpdateAssumption, DirectAre DEF UpdateNixpkgs, At, UpdInv, BranchInv, BranchTypeOK, HonestInv
  <2>2. /\ UNCHANGED <<mainLock, old, pr>> /\ step' = "others" /\ todo' \subseteq Direct \ {Nixpkgs}
        /\ new' = Pin(old, Nixpkgs, branch[Nixpkgs])
    BY <1>2, <1>9, <2>1 DEF UpdateNixpkgs, At
  <2>3. HonestLock(old, new')
    BY <1>2, <2>1, <2>2, PinUpdates
  <2>4. \A j \in Direct \ {Nixpkgs} : Rev(new', j) = Rev(old, j)
    BY <1>2, <2>1, <2>2, PinRevs
  <2>5. \A j \in todo' : ~ Updated(old, new', j)
    BY <2>2, <2>4 DEF Updated
  <2> QED BY <1>1, <2>2, <2>3, <2>5 DEF HonestInv
<1>10. CASE UpdateDone
  <2>1. CASE RunEnds BY <1>3, <1>10, <2>1 DEF UpdateDone
  <2>2. CASE ~ RunEnds BY <1>5, <1>10, <2>2 DEF UpdateDone
  <2> QED BY <2>1, <2>2
<1>11. CASE UpdateUntrusted BY <1>11 DEF UpdateUntrusted, May
<1>12. ASSUME NEW i \in todo, UpdateInput(i) PROVE HonestInv'
  <2>1. CASE new' = new BY <1>4, <1>12, <2>1 DEF UpdateInput
  <2>2. CASE new' # new
    <3>1. PICK c \in CooledCommits(i) : new' = Pin(new, i, c)
      BY <1>12, <2>2 DEF UpdateInput
    <3>2. c \in Commits /\ Rev(old, i) # c
      BY CooledIsCommit
    <3>3. /\ i \in Direct /\ HonestLock(old, new) /\ ~ Updated(old, new, i) /\ step = "others"
          /\ UNCHANGED <<mainLock, step, old, pr>> /\ todo' = todo \ {i} /\ todo \subseteq Direct
          /\ \A j \in todo : ~ Updated(old, new, j)
      BY <1>12 DEF UpdateInput, UpdInv, HonestInv
    <3>4. HonestLock(old, new')
      BY <1>2, <3>1, <3>2, <3>3, PinUpdates
    <3>5. \A j \in Direct \ {i} : Rev(new', j) = Rev(new, j)
      <4>1. Direct \subseteq DOMAIN new.nodes /\ Rev(new, i) \in Commits BY <3>3 DEF HonestLock
      <4> QED BY <1>1, <3>1, <3>2, <3>3, <4>1, PinRevs
    <3>6. \A j \in todo' : ~ Updated(old, new', j)
      BY <3>3, <3>5 DEF Updated
    <3> QED BY <1>1, <3>3, <3>4, <3>6 DEF HonestInv
  <2> QED BY <2>1, <2>2
<1>13. ASSUME NEW i \in todo, UpdateInputFails(i) PROVE HonestInv'
  BY <1>4, <1>13 DEF UpdateInputFails
<1>14. ASSUME NEW i \in todo, CheckInput(i) PROVE HonestInv'
  <2>1. CASE RunEnds BY <1>3, <1>14, <2>1 DEF CheckInput
  <2>2. CASE ~ RunEnds BY <1>4, <1>14, <2>2 DEF CheckInput, Clear
  <2> QED BY <2>1, <2>2
<1>15. CASE CheckLock
  <2>1. CASE RunEnds BY <1>3, <1>15, <2>1 DEF CheckLock
  <2>2. CASE ~ RunEnds BY <1>1, <1>5, <1>15, <2>2 DEF CheckLock
  <2> QED BY <2>1, <2>2
<1>16. CASE Push
  <2>1. HonestLock(old, new) /\ NoLockProblems(old, new)
    BY <1>16 DEF Push, HonestInv, UpdInv, CheckInv
  <2>2. Written(new)
    BY <1>1, <2>1, SoundUpdateWritten
  <2> QED BY <1>1, <1>16, <2>2 DEF Push, HonestInv
<1>17. CASE Publish
  <2>1. pr'.base = pr.base /\ pr'.lock = pr.lock
    BY <1>17 DEF Publish
  <2>2. UNCHANGED mainLock /\ RunEnds
    BY <1>17 DEF Publish
  <2> QED BY <1>3, <2>1, <2>2
<1>18. CASE JobFails BY <1>3, <1>18 DEF JobFails
<1>19. CASE Close \/ Reopen
  <2>1. UNCHANGED <<mainLock, step, old, new, todo>> BY <1>19 DEF Close, Reopen
  <2>2. {"base", "lock"} \subseteq DOMAIN pr BY DEF UpdInv, PrInv
  <2>3. pr'.base = pr.base /\ pr'.lock = pr.lock
    <3>1. CASE Close BY <2>2, <3>1 DEF Close
    <3>2. CASE Reopen BY <2>2, <3>2 DEF Reopen
    <3> QED BY <1>19, <3>1, <3>2
  <2> QED BY <1>4, <2>1, <2>3
<1>20. CASE Merge
  <2>1. Written(mainLock')
    BY <1>1, <1>20, MergeWritten DEF Merge
  <2>2. pr'.base = pr.base /\ pr'.lock = pr.lock /\ UNCHANGED <<old, new, step, todo>>
    BY <1>20 DEF Merge
  <2>3. \A i : Updated(old', new', i) = Updated(old, new, i)
    BY <2>2 DEF Updated
  <2> QED BY <1>1, <2>1, <2>2, <2>3 DEF HonestInv
<1>21. CASE UNCHANGED vars BY <1>4, <1>21 DEF vars, runVars
<1> QED BY <1>6, <1>7, <1>8, <1>9, <1>10, <1>11, <1>12, <1>13, <1>14, <1>15, <1>16, <1>17, <1>18,
           <1>19, <1>20, <1>21 DEF Next

\* The second job refuses the lock of an update job that does what it should for
\* its form exactly when an input it updated has gained or lost an input of its
\* own, or has one wired otherwise or from elsewhere.
THEOREM HonestIsAccepted == "untrusted" \notin Events => (Spec => []HonestLockAccepted)
<1> SUFFICES ASSUME "untrusted" \notin Events PROVE Spec => []HonestLockAccepted
    OBVIOUS
<1>1. Init => HonestInv BY FirstWritten DEF Init, NoPr, HonestInv
<1>2. ASSUME UpdInv, HonestInv PROVE HonestLockAccepted
  <2> SUFFICES ASSUME step = "handed" PROVE HonestLockAccepted
      BY DEF HonestLockAccepted
  <2>1. Written(old) /\ HonestLock(old, new) /\ DOMAIN DirectInputs(old) = Direct
    BY <1>2, DirectOfRoot DEF HonestInv, UpdInv, LocksInv
  <2>2. NoLockProblems(old, new)
          <=> \A i \in Direct : Updated(old, new, i) => OwnKept(old, i, Rev(new, i))
    BY <2>1, UpdateIsSound
  <2> QED BY <2>1, <2>2 DEF HonestLockAccepted, Updated
<1>3. UpdInv /\ HonestInv /\ [Next]_vars => HonestInv' BY HonestStep
<1> QED BY <1>1, <1>2, <1>3, UpdInvariant, PTL DEF Spec

---------------------------------------------------------------------------
\* What the open pull request moved is moved again.

\* The inputs that the pull request moves and this run is to move.
Carried ==
  (Moved(old, pr.lock) \cap DOMAIN DirectInputs(old)) \ ({Nixpkgs} \cup excused)

CarryInv ==
  /\ step = "update" => others \/ Carried = {}
  /\ step = "others" => Carried \subseteq todo \cup Moved(old, new)
  /\ step \in {"handed", "forged", "check"} => Carried \subseteq Moved(old, new)

\* The direct inputs are there, pinned to commits.
DirectPinned(lock) == Direct \subseteq DOMAIN lock.nodes /\ \A i \in Direct : Rev(lock, i) \in Commits

\* The locks that the comparison reads.
PinsInv ==
  /\ \A lock \in {mainLock, old, pr.base, pr.lock} : PinsCommits(lock)
  /\ step \in {"ask", "update", "others"} => DirectPinned(new)

\* A pull request that carry finds nothing in moves nothing but nixpkgs.
LEMMA CarryFindsAll ==
  ASSUME NEW a, NEW b, LikeFirst(a), LikeFirst(b), PinsCommits(a), PinsCommits(b), ~ Carry(a, b),
         NEW i \in DOMAIN DirectInputs(a), i # Nixpkgs
  PROVE  i \notin Moved(a, b)
<1>1. /\ i \in DOMAIN FirstLock.nodes \ {"root"} /\ i \in DOMAIN DirectInputs(b)
      /\ DirectInputs(a)[i] = a.nodes[i] /\ DirectInputs(b)[i] = b.nodes[i]
  BY DirectAre, DirectOfRoot
<1>2. Get(a.nodes[i].locked, "rev") = Get(b.nodes[i].locked, "rev") BY <1>1 DEF Carry
<1>3. Rev(a, i) # Missing /\ Rev(b, i) # Missing BY <1>1, UpdateAssumption DEF PinsCommits
<1>4. "locked" \in DOMAIN a.nodes[i] /\ "locked" \in DOMAIN b.nodes[i]
  BY <1>3 DEF Rev, Locked, Get
<1> QED BY <1>2, <1>4 DEF Moved, Rev, Locked

\* What the check lets pass is pinned to commits too.
LEMMA MovedPins ==
  ASSUME NEW a, NEW b, LikeFirst(a), PinsCommits(a), NEW days, MovesOK(a, b, Moved(a, b), days)
  PROVE  PinsCommits(b)
<1> SUFFICES ASSUME NEW i \in DOMAIN FirstLock.nodes \ {"root"} PROVE Rev(b, i) \in Commits
    BY DEF PinsCommits
<1>1. CASE i \in Moved(a, b)
  <2>1. <<Rev(a, i), Rev(b, i)>> \in Before BY <1>1 DEF MovesOK, MayMove
  <2> QED BY <2>1, OrderAssumption
<1>2. CASE i \notin Moved(a, b) BY <1>2 DEF Moved, LikeFirst, PinsCommits
<1> QED BY <1>1, <1>2

\* nix keeps them so.
LEMMA PinDirect ==
  ASSUME NEW lock, IsLock(lock), DirectPinned(lock), NEW i \in Direct, NEW c \in Commits
  PROVE  DirectPinned(Pin(lock, i, c))
BY PinRevs DEF DirectPinned

\* The lock of a run has the pins of its parts: the inputs it has updated so far
\* moved, and the others are main's.
LEMMA PinsStep ==
  ASSUME UpdInv, PinsInv, [Next]_vars
  PROVE  PinsInv'
<1>1. /\ PinsCommits(mainLock) /\ PinsCommits(old) /\ PinsCommits(pr.base) /\ PinsCommits(pr.lock)
      /\ LikeFirst(mainLock) /\ LikeFirst(old) /\ LikeFirst(pr.base) /\ LikeFirst(pr.lock)
      /\ LikeFirst(FirstLock) /\ PinsCommits(FirstLock) /\ IsLock(new)
      /\ step \in {"ask", "update", "others"} => DirectPinned(new)
      /\ \A lock \in {mainLock, old} : DirectPinned(lock)
  BY FirstWritten, DirectAre DEF PinsInv, UpdInv, LocksInv, PinsCommits, LikeFirst, DirectPinned
<1> HIDE DEF PinsCommits, LikeFirst, DirectPinned
<1>2. ASSUME RunEnds, UNCHANGED mainLock, pr'.base = pr.base, pr'.lock = pr.lock PROVE PinsInv'
  BY <1>1, <1>2 DEF PinsInv, RunEnds
<1>3. ASSUME UNCHANGED <<mainLock, old>>, pr'.base = pr.base, pr'.lock = pr.lock,
             step' \in {"ask", "update", "others"} => DirectPinned(new')
      PROVE  PinsInv'
  BY <1>1, <1>3 DEF PinsInv
<1>4. CASE GitHubMoves /\ UNCHANGED runVars BY <1>1, <1>3, <1>4 DEF runVars
<1>5. CASE Start BY <1>1, <1>5 DEF Start, PinsInv
<1>6. CASE AskCarry \/ AskFails
  <2>1. step = "ask" /\ UNCHANGED <<mainLock, old, new, pr>> BY <1>6 DEF AskCarry, AskFails, At
  <2> QED BY <1>1, <1>3, <2>1
<1>7. CASE UpdateNixpkgs
  <2>1. branch[Nixpkgs] \in Commits
    BY <1>7, DirectAre DEF UpdateNixpkgs, UpdInv, BranchInv, BranchTypeOK
  <2>2. DirectPinned(new')
    BY <1>1, <1>7, <2>1, DirectAre, PinDirect DEF UpdateNixpkgs, At
  <2> QED BY <1>3, <1>7, <2>2 DEF UpdateNixpkgs
<1>8. CASE UpdateDone BY <1>2, <1>3, <1>8 DEF UpdateDone
<1>9. CASE UpdateUntrusted BY <1>3, <1>9 DEF UpdateUntrusted, At
<1>10. ASSUME NEW i \in todo, UpdateInput(i) PROVE PinsInv'
  <2>1. CASE new' = new BY <1>3, <1>1, <1>10, <2>1 DEF UpdateInput
  <2>2. CASE new' # new
    <3>1. PICK c \in CooledCommits(i) : new' = Pin(new, i, c)
      BY <1>10, <2>2 DEF UpdateInput
    <3>2. c \in Commits /\ i \in Direct /\ DirectPinned(new)
      BY <1>1, <1>10, CooledIsCommit DEF UpdateInput, UpdInv
    <3>5. DirectPinned(new')
      BY <1>1, <3>1, <3>2, PinDirect
    <3> QED BY <1>3, <1>10, <3>5 DEF UpdateInput
  <2> QED BY <2>1, <2>2
<1>11. ASSUME NEW i \in todo, UpdateInputFails(i) PROVE PinsInv'
  BY <1>1, <1>3, <1>11 DEF UpdateInputFails
<1>12. ASSUME NEW i \in todo, CheckInput(i) PROVE PinsInv'
  BY <1>1, <1>2, <1>3, <1>12 DEF CheckInput
<1>13. CASE CheckLock BY <1>2, <1>3, <1>13 DEF CheckLock
<1>14. CASE Push
  <2>1. MovesOK(old, new, Moved(old, new), cleared) BY <1>14 DEF Push, UpdInv, CheckInv
  <2>2. PinsCommits(new) BY <1>1, <2>1, MovedPins
  <2> QED BY <1>1, <1>14, <2>2 DEF Push, PinsInv
<1>15. CASE Publish
  <2>1. pr'.base = pr.base /\ pr'.lock = pr.lock
    BY <1>15 DEF Publish
  <2>2. UNCHANGED mainLock /\ RunEnds
    BY <1>15 DEF Publish
  <2> QED BY <1>2, <2>1, <2>2
<1>16. CASE JobFails BY <1>2, <1>16 DEF JobFails
<1>17. CASE Close \/ Reopen
  <2>1. UNCHANGED <<mainLock, step, old, new>> BY <1>17 DEF Close, Reopen
  <2>2. {"base", "lock"} \subseteq DOMAIN pr BY DEF UpdInv, PrInv
  <2>3. pr'.base = pr.base /\ pr'.lock = pr.lock
    <3>1. CASE Close BY <2>2, <3>1 DEF Close
    <3>2. CASE Reopen BY <2>2, <3>2 DEF Reopen
    <3> QED BY <1>17, <3>1, <3>2
  <2> QED BY <1>1, <1>3, <2>1, <2>3
<1>18. CASE Merge
  <2>1. PinsCommits(mainLock') BY <1>1, <1>18, MergeMoves, UpdateAssumption DEF PinsCommits
  <2> QED BY <1>1, <1>18, <2>1 DEF Merge, PinsInv
<1>19. CASE UNCHANGED vars BY <1>1, <1>3, <1>19 DEF vars, runVars
<1> QED BY <1>4, <1>5, <1>6, <1>7, <1>8, <1>9, <1>10, <1>11, <1>12, <1>13, <1>14, <1>15, <1>16,
           <1>17, <1>18, <1>19 DEF Next

\* A weekly run that asked what to carry has it among what it updates.
LEMMA CarryStep ==
  ASSUME UpdInv, PinsInv, CarryInv, [Next]_vars
  PROVE  CarryInv'
<1>1. /\ PinsCommits(old) /\ PinsCommits(pr.lock) /\ LikeFirst(old) /\ LikeFirst(pr.lock)
      /\ step \in {"ask", "update", "others"} => DirectPinned(new)
      /\ IsLock(new)
  BY DEF PinsInv, UpdInv, LocksInv
<1>2. /\ DOMAIN DirectInputs(old) \subseteq Inputs /\ DOMAIN old.nodes = DOMAIN FirstLock.nodes
      /\ DOMAIN DirectInputs(old) = Direct
  BY <1>1, DirectAre, DirectOfRoot DEF LikeFirst
<1> HIDE DEF PinsCommits, LikeFirst, DirectPinned
<1>3. ASSUME step' \in {"idle", "ask", "publish"} PROVE CarryInv' BY <1>3 DEF CarryInv
<1>4. ASSUME UNCHANGED <<step, old, new, others, todo, excused>>, pr'.lock = pr.lock
      PROVE  CarryInv'
  BY <1>4 DEF CarryInv, Carried, Moved
<1>5. ASSUME excused' = Inputs, old' = old PROVE CarryInv'
  <2>1. Carried' = {} BY <1>2, <1>5 DEF Carried
  <2> QED BY <2>1 DEF CarryInv
<1>6. CASE GitHubMoves /\ UNCHANGED runVars BY <1>4, <1>6 DEF runVars
<1>7. CASE Start BY <1>3, <1>7 DEF Start, CarryInv
<1>8. CASE AskCarry
  <2>1. CASE pr.state # "open" BY <1>5, <1>8, <2>1 DEF AskCarry
  <2>2. CASE Carry(old, pr.lock) BY <1>8, <2>2, <1>5 DEF AskCarry, At, CarryInv
  <2>3. CASE ~ Carry(old, pr.lock)
    <3>1. Carried' = {} BY <1>1, <1>8, <2>3, CarryFindsAll DEF AskCarry, Carried, Moved
    <3> QED BY <1>8, <3>1 DEF AskCarry, At, CarryInv
  <2> QED BY <2>1, <2>2, <2>3
<1>9. CASE AskFails BY <1>5, <1>9 DEF AskFails
<1>10. CASE UpdateNixpkgs
  <2>1. Carried' = Carried BY <1>10 DEF UpdateNixpkgs, Carried, Moved
  <2>2. Carried \subseteq todo' BY <1>10 DEF UpdateNixpkgs, At, CarryInv, Carried
  <2> QED BY <1>10, <2>1, <2>2 DEF UpdateNixpkgs, At, CarryInv
<1>11. CASE UpdateDone
  <2>1. CASE RunEnds BY <1>3, <2>1 DEF RunEnds
  <2>2. CASE ~ RunEnds
    BY <1>11, <2>2 DEF UpdateDone, CarryInv, Carried, Moved
  <2> QED BY <2>1, <2>2
<1>12. CASE UpdateUntrusted BY <1>5, <1>12 DEF UpdateUntrusted
<1>13. ASSUME NEW i \in todo, step = "others", step' = "others", UNCHANGED <<old, pr>>, todo' = todo \ {i},
              excused' = excused \cup {i}, new' = new
       PROVE  CarryInv'
  <2>1. Carried' = Carried \ {i} BY <1>13 DEF Carried, Moved
  <2>2. Moved(old, new)' = Moved(old, new) BY <1>13 DEF Moved
  <2> QED BY <1>13, <2>1, <2>2 DEF CarryInv
<1>14. ASSUME NEW i \in todo, UpdateInput(i) PROVE CarryInv'
  <2>1. CASE excused' = excused \cup {i} /\ new' = new BY <1>13, <1>14, <2>1 DEF UpdateInput
  <2>2. CASE ~ (excused' = excused \cup {i} /\ new' = new)
    <3>1. PICK c \in CooledCommits(i) : new' = Pin(new, i, c)
      BY <1>14, <2>2 DEF UpdateInput
    <3>2. c \in Commits /\ Rev(old, i) # c
      BY CooledIsCommit
    <3>4. /\ i \in Direct /\ DirectPinned(new) /\ step = "others"
          /\ UNCHANGED <<step, old, pr, excused>> /\ todo' = todo \ {i}
      BY <1>1, <1>14, <2>2 DEF UpdateInput, UpdInv
    <3>5. Carried' = Carried /\ Carried \subseteq Direct /\ Carried \subseteq DOMAIN old.nodes
      BY <1>2, <3>4 DEF Carried, Moved
    <3>7. Rev(new', i) = c /\ \A j \in Direct \ {i} : Rev(new', j) = Rev(new, j)
      BY <1>1, <3>1, <3>2, <3>4, PinRevs DEF DirectPinned
    <3>6. ASSUME NEW j \in Carried, j \notin todo' PROVE j \in Moved(old, new)'
      <4>1. CASE i = j
        BY <3>2, <3>4, <3>5, <3>7, <4>1 DEF Moved
      <4>2. CASE i # j
        <5>1. j \in Moved(old, new) BY <3>4, <3>6, <4>2 DEF CarryInv
        <5> QED BY <3>4, <3>5, <3>7, <4>2, <5>1 DEF Moved
      <4> QED BY <4>1, <4>2
    <3> QED BY <3>4, <3>5, <3>6 DEF CarryInv
  <2> QED BY <2>1, <2>2
<1>15. ASSUME NEW i \in todo, UpdateInputFails(i) PROVE CarryInv'
  BY <1>13, <1>15 DEF UpdateInputFails
<1>16. ASSUME NEW i \in todo, CheckInput(i) PROVE CarryInv'
  <2>1. CASE RunEnds BY <1>3, <2>1 DEF RunEnds
  <2>2. CASE ~ RunEnds
    <3>1. step = "check" /\ UNCHANGED <<step, old, new, excused, pr>> BY <1>16, <2>2 DEF CheckInput
    <3> QED BY <3>1 DEF CarryInv, Carried, Moved
  <2> QED BY <2>1, <2>2
<1>17. CASE CheckLock
  <2>1. CASE RunEnds BY <1>3, <2>1 DEF RunEnds
  <2>2. CASE ~ RunEnds BY <1>17, <2>2 DEF CheckLock, CarryInv, Carried, Moved
  <2> QED BY <2>1, <2>2
<1>18. CASE Push BY <1>3, <1>18 DEF Push
<1>19. CASE Publish BY <1>3, <1>19 DEF Publish, RunEnds
<1>20. CASE JobFails BY <1>3, <1>20 DEF JobFails, RunEnds
<1>21. CASE Close \/ Reopen \/ Merge
  <2>1. UNCHANGED <<step, old, new, others, todo, excused>> BY <1>21 DEF Close, Reopen, Merge
  <2>2. "lock" \in DOMAIN pr BY DEF UpdInv, PrInv
  <2>3. pr'.lock = pr.lock
    <3>1. CASE Close BY <2>2, <3>1 DEF Close
    <3>2. CASE Reopen BY <2>2, <3>2 DEF Reopen
    <3>3. CASE Merge BY <2>2, <3>3 DEF Merge
    <3> QED BY <1>21, <3>1, <3>2, <3>3
  <2> QED BY <1>4, <2>1, <2>3
<1>22. CASE UNCHANGED vars BY <1>4, <1>22 DEF vars, runVars
<1> QED BY <1>6, <1>7, <1>8, <1>9, <1>10, <1>11, <1>12, <1>14, <1>15, <1>16, <1>17, <1>18, <1>19,
           <1>20, <1>21, <1>22 DEF Next

\* A run that replaces an open pull request moves again what it moved, unless it was
\* not open when the run asked, a lookup failed, or nothing is cooled.
THEOREM TheMonthlyIsKept == Spec => MonthlyNotDropped
<1> DEFINE Kept == pr.state = "open" /\ step = "check" /\ step' = "publish" =>
                     \A i \in (Moved(old, pr.lock) \cap DOMAIN DirectInputs(old)) \ ({Nixpkgs} \cup excused) :
                       i \in Moved(old, new)
<1>1. Init => PinsInv /\ CarryInv
  BY FirstWritten, DirectAre DEF Init, NoPr, PinsInv, CarryInv, DirectPinned, PinsCommits, LikeFirst
<1>2. UpdInv /\ PinsInv /\ CarryInv /\ [Next]_vars => (PinsInv /\ CarryInv)' BY PinsStep, CarryStep
<1>3. CarryInv => [Kept]_vars BY DEF CarryInv, Carried
<1> HIDE DEF Kept
<1>4. Spec => [][Kept]_vars BY <1>1, <1>2, <1>3, UpdInvariant, PTL DEF Spec
<1> QED BY <1>4 DEF Kept, MonthlyNotDropped

(***************************************************************************)
(* The report: the job has the time for it, and it compares what the       *)
(* systems have, for any systems and any limits that the sum of the        *)
(* builds, the attempts and the pauses fits in.                            *)
(***************************************************************************)

Which == {"old", "new"}

\* What has been spent at most where the job is: the builds before, and the
\* attempts and pauses before the one under way.
SpentInv ==
  /\ spent \in Nat /\ attempt \in 1..3
  /\ reportAt \in {"before", "update", "old", "new", "write", "done", "failed"}
  /\ reportAt = "before" => spent = 0 /\ attempt = 1
  /\ reportAt = "update" => spent <= BuildLimit /\ attempt = 1
  /\ reportAt = "old" =>
       /\ attempt = 1 => spent <= 2 * BuildLimit
       /\ attempt = 2 => spent <= 2 * BuildLimit + ScanLimit + 1
       /\ attempt = 3 => spent <= 2 * BuildLimit + 2 * ScanLimit + 3
  /\ reportAt = "new" => spent <= 2 * BuildLimit + 3 * ScanLimit + 3 /\ attempt = 1

\* Nothing is spent at first.
LEMMA SpentInitially == ReportInit => SpentInv
BY DEF ReportInit, SpentInv

\* A step of so many half minutes that fits does not end the job.
LEMMA FitsIsNotStopped ==
  ASSUME spent \in Nat, NEW time \in Nat, NEW next, Takes(time, next), spent + time <= JobLimit
  PROVE  reportAt' = next /\ spent' = spent + time /\ spent' \in Nat
<1>1. ~ (spent + time > JobLimit)
  BY ReportAssumption
<1> QED BY <1>1 DEF Takes

\* The first build fits.
LEMMA SpentBuildOld == SpentInv /\ BuildOld => SpentInv'
<1> SUFFICES ASSUME SpentInv, BuildOld PROVE SpentInv'
  OBVIOUS
<1>1. PICK time \in {0, BuildLimit} : Takes(time, "update") \/ Takes(time, "failed")
  BY DEF BuildOld, Build
<1>2. reportAt = "before" /\ attempt' = attempt
  BY DEF BuildOld, Build
<1>3. time \in Nat /\ time <= BuildLimit /\ spent + time <= JobLimit
  BY <1>2, ReportAssumption DEF SpentInv
<1>4. reportAt' \in {"update", "failed"} /\ spent' = spent + time
  BY <1>1, <1>3, FitsIsNotStopped DEF SpentInv
<1> QED BY <1>2, <1>3, <1>4, ReportAssumption DEF SpentInv

\* So does the second.
LEMMA SpentBuildNew == SpentInv /\ BuildNew => SpentInv'
<1> SUFFICES ASSUME SpentInv, BuildNew PROVE SpentInv'
  OBVIOUS
<1>1. PICK time \in {0, BuildLimit} : Takes(time, "old") \/ Takes(time, "failed")
  BY DEF BuildNew, Build
<1>2. reportAt = "update" /\ attempt' = attempt
  BY DEF BuildNew, Build
<1>3. time \in Nat /\ time <= BuildLimit /\ spent + time <= JobLimit
  BY <1>2, ReportAssumption DEF SpentInv
<1>4. reportAt' \in {"old", "failed"} /\ spent' = spent + time
  BY <1>1, <1>3, FitsIsNotStopped DEF SpentInv
<1> QED BY <1>2, <1>3, <1>4, ReportAssumption DEF SpentInv

\* An attempt that ends the scan.
LEMMA SpentScanned ==
  ASSUME SpentInv, NEW which \in Which, reportAt = which, NEW list,
         NEW time \in {0, ScanLimit}, Scanned(which, list, time)
  PROVE  SpentInv'
<1>1. time \in Nat /\ time <= ScanLimit /\ spent + time <= JobLimit
  BY ReportAssumption DEF SpentInv, Which
<1> DEFINE next == IF list = {} THEN "write" ELSE ScannedNext(which)
<1>2. next \in {"write", "new"} /\ (which = "new" => next = "write")
  BY DEF ScannedNext, Which
<1>3. Takes(time, next) /\ attempt' = 1
  BY DEF Scanned
<1> HIDE DEF next
<1>4. reportAt' = next /\ spent' = spent + time
  BY <1>1, <1>3, FitsIsNotStopped DEF SpentInv
<1> QED BY <1>1, <1>2, <1>3, <1>4, ReportAssumption DEF SpentInv, Which

\* So does an attempt of either scan, with the pause after it.
LEMMA SpentScan == ASSUME SpentInv, NEW which \in Which, Scan(which) PROVE SpentInv'
<1>1. CASE ScanEnds(which)
  <2>1. PICK time \in {0, ScanLimit} : \E result \in Results(system[which]) :
          Scanned(which, ReadResult(result), time)
    BY <1>1 DEF ScanEnds
  <2>2. PICK result \in Results(system[which]) : Scanned(which, ReadResult(result), time)
    BY <2>1
  <2> QED BY <1>1, <2>2, SpentScanned DEF ScanEnds
<1>2. CASE ScanTimesOut(which)
  BY <1>2, SpentScanned DEF ScanTimesOut
<1>3. CASE ScanAgain(which)
  <2>1. PICK time \in {0, ScanLimit} : Takes(time + attempt, which)
    BY <1>3 DEF ScanAgain
  <2>2. reportAt = which /\ attempt < AttemptsOf(which) /\ attempt' = attempt + 1
    BY <1>3 DEF ScanAgain
  <2>3. which = "old" /\ attempt \in {1, 2}
    BY <2>2, ReportAssumption DEF AttemptsOf, Which, SpentInv
  <2>4. time \in Nat /\ time <= ScanLimit /\ time + attempt \in Nat
    BY ReportAssumption DEF SpentInv
  <2>5. spent + (time + attempt) <= JobLimit
    BY <2>2, <2>3, <2>4, ReportAssumption DEF SpentInv
  <2>6. reportAt' = which /\ spent' = spent + (time + attempt)
    BY <2>1, <2>4, <2>5, FitsIsNotStopped DEF SpentInv
  <2> QED BY <2>2, <2>3, <2>4, <2>6, ReportAssumption DEF SpentInv
<1> QED BY <1>1, <1>2, <1>3 DEF Scan

\* So does every step.
LEMMA SpentStep == SpentInv /\ [ReportNext]_reportVars => SpentInv'
<1> SUFFICES ASSUME SpentInv, [ReportNext]_reportVars PROVE SpentInv'
  OBVIOUS
<1>1. CASE BuildOld
  BY <1>1, SpentBuildOld
<1>2. CASE Unchanged
  BY <1>2 DEF Unchanged, SpentInv
<1>3. CASE BuildNew
  BY <1>3, SpentBuildNew
<1>4. ASSUME NEW which \in Which, Scan(which) PROVE SpentInv'
  BY <1>4, SpentScan
<1>5. CASE Write
  BY <1>5 DEF Write, SpentInv
<1>6. CASE UNCHANGED reportVars
  BY <1>6 DEF reportVars, SpentInv
<1> QED BY <1>1, <1>2, <1>3, <1>4, <1>5, <1>6 DEF ReportNext, Which

\* Whatever vulnix does, the job's limit does not end it: the builds and the
\* attempts of both scans, each as slow as it may be, fit in it.
THEOREM JobIsInTime == ReportSpec => []InTime
<1>1. SpentInv => InTime
  BY DEF SpentInv, InTime
<1> QED BY <1>1, SpentInitially, SpentStep, PTL DEF ReportSpec

---------------------------------------------------------------------------
\* What is found is what is there: a result that counts lists the packages
\* with CVEs of the system scanned.

FoundInv ==
  /\ system \in [Which -> Systems]
  /\ DOMAIN cves = Which
  /\ \A which \in Which : \A list \in cves[which] : CvesOf(list) = CvesOf(system[which])
  /\ ComparesWhatIs

\* A result that counts is of the system that was scanned.
LEMMA ReadsWhatIs ==
  ASSUME NEW found, NEW result \in Results(found), NEW list \in ReadResult(result)
  PROVE  CvesOf(list) = CvesOf(found)
<1> DEFINE hit == {p \in DOMAIN found : found[p] # {}}
           hits == [p \in hit |-> found[p]]
           none == [p \in {} |-> {}]
<1>1. list \in result.lists /\ (result.code = 0 \/ (result.code = 2 /\ DOMAIN list # {}))
  BY DEF ReadResult
<1>2. DOMAIN none = {}
  OBVIOUS
<1>3. list = hits
  <2>1. \/ result = [code |-> IF hit = {} THEN 0 ELSE 2, lists |-> {hits}]
        \/ result = [code |-> 2, lists |-> {none}]
        \/ result = [code |-> 2, lists |-> {}]
        \/ result = [code |-> 1, lists |-> {hits}]
    BY DEF Results
  <2> HIDE DEF hits, none, hit
  <2>2. CASE result = [code |-> IF hit = {} THEN 0 ELSE 2, lists |-> {hits}]
    BY <1>1, <2>2
  <2>3. CASE result = [code |-> 2, lists |-> {none}]
    <3>1. list = none /\ result.code = 2
      BY <1>1, <2>3
    <3> QED BY <1>1, <1>2, <3>1
  <2>4. CASE result = [code |-> 2, lists |-> {}]
    BY <1>1, <2>4
  <2>5. CASE result = [code |-> 1, lists |-> {hits}]
    BY <1>1, <2>5
  <2> QED BY <2>1, <2>2, <2>3, <2>4, <2>5
<1>4. CvesOf(hits) = CvesOf(found)
  <2>1. DOMAIN hits = hit /\ \A p \in hit : hits[p] = found[p]
    OBVIOUS
  <2> HIDE DEF hits
  <2> QED BY <2>1 DEF CvesOf
<1> QED BY <1>3, <1>4

\* What a scan leaves in old_cves or new_cves is of its system.
LEMMA FoundScanned ==
  ASSUME FoundInv, NEW which \in Which, NEW list, NEW time, Scanned(which, list, time),
         \A l \in list : CvesOf(l) = CvesOf(system[which])
  PROVE  FoundInv'
<1>1. system' = system /\ written' = written /\ cves' = [cves EXCEPT ![which] = list]
  BY DEF Scanned
<1>2. DOMAIN cves' = Which
  BY <1>1 DEF FoundInv
<1>3. \A other \in Which : cves'[other] = IF other = which THEN list ELSE cves[other]
  BY <1>1 DEF FoundInv
<1>4. \A other \in Which : \A l \in cves'[other] : CvesOf(l) = CvesOf(system[other])
  BY <1>3 DEF FoundInv
<1> QED BY <1>1, <1>2, <1>4 DEF FoundInv, ComparesWhatIs

\* Every step keeps what is known of the systems.
LEMMA FoundStep == FoundInv /\ [ReportNext]_reportVars => FoundInv'
<1> SUFFICES ASSUME FoundInv, [ReportNext]_reportVars PROVE FoundInv'
  OBVIOUS
<1>1. ASSUME UNCHANGED <<system, cves, written>> PROVE FoundInv'
  BY <1>1 DEF FoundInv, ComparesWhatIs
<1>2. CASE BuildOld \/ Unchanged \/ BuildNew
  BY <1>1, <1>2 DEF BuildOld, Unchanged, BuildNew, Build
<1>3. ASSUME NEW which \in Which, Scan(which) PROVE FoundInv'
  <2>1. CASE ScanEnds(which)
    <3>1. PICK time \in {0, ScanLimit}, result \in Results(system[which]) :
            Scanned(which, ReadResult(result), time)
      BY <2>1 DEF ScanEnds
    <3>2. \A l \in ReadResult(result) : CvesOf(l) = CvesOf(system[which])
      BY ReadsWhatIs
    <3> QED BY <3>1, <3>2, FoundScanned
  <2>2. CASE ScanTimesOut(which)
    BY <2>2, FoundScanned DEF ScanTimesOut
  <2>3. CASE ScanAgain(which)
    BY <1>1, <2>3 DEF ScanAgain
  <2> QED BY <1>3, <2>1, <2>2, <2>3 DEF Scan
<1>4. CASE Write
  <2>1. system' = system /\ cves' = cves /\ written' = CveDiff
    BY <1>4 DEF Write
  <2>2. CASE cves["old"] = {} \/ cves["new"] = {}
    <3>1. written'.compared = FALSE
      BY <2>1, <2>2 DEF CveDiff, NotWritten
    <3> QED BY <2>1, <3>1 DEF FoundInv, ComparesWhatIs
  <2>3. CASE cves["old"] # {} /\ cves["new"] # {}
    <3>1. \A which \in Which : UNION {CvesOf(list) : list \in cves[which]} = CvesOf(system[which])
      <4> SUFFICES ASSUME NEW which \in Which
                   PROVE  UNION {CvesOf(list) : list \in cves[which]} = CvesOf(system[which])
        OBVIOUS
      <4>1. cves[which] # {} /\ \A list \in cves[which] : CvesOf(list) = CvesOf(system[which])
        BY <2>3 DEF FoundInv, Which
      <4>2. {CvesOf(list) : list \in cves[which]} = {CvesOf(system[which])}
        BY <4>1
      <4> QED BY <4>2
    <3>2. /\ written'.fixed = CvesOf(system["old"]) \ CvesOf(system["new"])
          /\ written'.added = CvesOf(system["new"]) \ CvesOf(system["old"])
      BY <2>1, <2>3, <3>1 DEF CveDiff, Which
    <3> QED BY <2>1, <3>2 DEF FoundInv, ComparesWhatIs
  <2> QED BY <2>2, <2>3
<1>5. CASE UNCHANGED reportVars
  BY <1>1, <1>5 DEF reportVars
<1> QED BY <1>2, <1>3, <1>4, <1>5 DEF ReportNext, Which

\* No error of vulnix passes for a system without CVEs: a report that compares
\* names exactly what one of the systems has and the other has not.
THEOREM ReportComparesWhatIs == ReportSpec => []ComparesWhatIs
<1>1. ReportInit => FoundInv
  BY DEF ReportInit, FoundInv, ComparesWhatIs, NotWritten, Which
<1>2. FoundInv => ComparesWhatIs
  BY DEF FoundInv
<1> QED BY <1>1, <1>2, FoundStep, PTL DEF ReportSpec

\* The report is written in time and compares what there is (flake_update.py:281
\* to 302), for any systems and limits.
THEOREM ReportIsAlwaysRight == ReportSpec => []ReportIsRight
<1>1. InTime /\ ComparesWhatIs => ReportIsRight
  BY DEF ReportIsRight
<1> QED BY <1>1, JobIsInTime, ReportComparesWhatIs, PTL

\* The types of the report's variables.
ReportTypes == SpentInv /\ written.compared \in BOOLEAN

\* Every step keeps them.
LEMMA ReportTypesStep == ReportTypes /\ [ReportNext]_reportVars => ReportTypes'
<1> SUFFICES ASSUME ReportTypes, [ReportNext]_reportVars PROVE ReportTypes'
  OBVIOUS
<1>1. SpentInv'
  BY SpentStep DEF ReportTypes
<1>2. CASE Write
  BY <1>1, <1>2 DEF Write, CveDiff, NotWritten, ReportTypes
<1>3. CASE ~ Write
  <2>1. written' = written
    BY <1>3 DEF ReportNext, BuildOld, Unchanged, BuildNew, Build, Scan, ScanEnds, ScanTimesOut, ScanAgain,
                Scanned, reportVars
  <2> QED BY <1>1, <2>1 DEF ReportTypes
<1> QED BY <1>2, <1>3

\* They are of whatever systems and limits (flake_update.py:238 to 302).
THEOREM ReportTypesCorrect == ReportSpec => []ReportTypeOK
<1>1. ReportInit => ReportTypes
  BY SpentInitially DEF ReportInit, ReportTypes, NotWritten
<1>2. ReportTypes => ReportTypeOK
  BY ReportAssumption DEF ReportTypes, SpentInv, ReportTypeOK
<1> QED BY <1>1, <1>2, ReportTypesStep, PTL DEF ReportSpec
=============================================================================
