---------------------------- MODULE CrashWatch -----------------------------
(***************************************************************************)
(* stack-STACK-watch.service: follows `docker events` and posts the deaths *)
(* of a container of the stack while the stack is up.  A container has     *)
(* files of its own, so one is modelled.                                   *)
(***************************************************************************)
EXTENDS PostWindow, FiniteSets

CONSTANTS
  MaxDeaths,   \* bound: deaths that the stream reports
  MaxCuts      \* bound: power cuts

ASSUME DeathsAssumption == MaxDeaths \in Nat /\ MaxCuts \in Nat

VARIABLES
  stack,     \* stack-STACK.service
  docker,    \* the daemon; with live-restore the containers outlive it
  stream,    \* of `docker events`
  pipe,      \* how many deaths it has reported that the loop has not read
  watch,     \* where the watcher is
  at, role,  \* $now of the death in hand, and $role of its post; 0 and "-"
             \* with none in hand
  recent,    \* the state file: its deaths, each by its place in `counted`
  pinged,    \* <file>.pinged
  posted,    \* <file>.posted
  counted,   \* history: the times of the deaths that were counted
  posts,     \* history: the posts that were sent, each with its time and role
  cutShort,  \* history: the times of deaths whose handling a stop ended
  cuts       \* history: how many power cuts there were

fileVars == <<recent, pinged, posted>>
historyVars == <<counted, posts, cutShort, cuts>>
watchVars == <<stack, docker, stream, pipe, watch, at, role, fileVars, historyVars>>

Deciding == {"decide", "mark", "post"}
Roles == {"-", "role"}   \* no one, or the role
TimeOrNone == Times \cup {None}

WatchTypeOK ==
  /\ stack \in {"active", "reloading", "inactive"}
  /\ docker \in {"up", "down"} /\ stream \in {"open", "closed"} /\ pipe \in Nat
  /\ watch \in {"off", "connect", "read", "count"} \cup Deciding
  /\ at \in Times /\ role \in Roles
  /\ counted \in Seq(Times) /\ recent \subseteq DOMAIN counted
  /\ pinged \in TimeOrNone /\ posted \in TimeOrNone
  /\ posts \in Seq([at : Times, role : Roles])
  /\ cutShort \subseteq Times /\ cuts \in 0..MaxCuts

WatchInit ==
  /\ stack = "inactive" /\ docker = "up"
  /\ stream = "closed" /\ pipe = 0
  /\ watch = "off" /\ at = 0 /\ role = "-"
  /\ recent = {} /\ pinged = None /\ posted = None
  /\ counted = <<>> /\ posts = <<>> /\ cutShort = {} /\ cuts = 0

WatchAt(from, to) == watch = from /\ watch' = to

(***************************************************************************)
(* The stack, Docker and the containers.                                   *)
(***************************************************************************)
\* The watcher starts after the stack.
StackStart ==
  /\ stack = "inactive" /\ stack' = "active"
  /\ WatchAt("off", "connect")
  /\ UNCHANGED <<docker, stream, pipe, at, role, fileVars, historyVars>>

Down ==
  /\ stack # "inactive" /\ stack' = "inactive"
  /\ watch' = "off" /\ stream' = "closed" /\ pipe' = 0
  /\ cutShort' = cutShort \cup (IF watch \in Deciding THEN {at} ELSE {})
  /\ at' = 0 /\ role' = "-"
  /\ UNCHANGED <<docker, counted, posts>>

\* The watcher is bound to the stack, and stopped before it.
StackStop == Down /\ UNCHANGED <<fileVars, cuts>>

\* A power cut may leave files empty: they were not synced.
StackCut ==
  /\ Down
  /\ cuts < MaxCuts /\ cuts' = cuts + 1
  /\ recent' \in {recent, {}}
  /\ pinged' \in {pinged, None} /\ posted' \in {posted, None}

\* A deploy reloads it; is-active then says `reloading`.
StackReload ==
  /\ \/ stack = "active" /\ stack' = "reloading"
     \/ stack = "reloading" /\ stack' = "active"
  /\ UNCHANGED <<docker, stream, pipe, watch, at, role, fileVars, historyVars>>

DockerStop ==
  /\ docker = "up" /\ docker' = "down"
  /\ stream' = "closed"
  /\ UNCHANGED <<stack, pipe, watch, at, role, fileVars, historyVars>>

DockerStart ==
  /\ docker = "down" /\ docker' = "up"
  /\ UNCHANGED <<stack, stream, pipe, watch, at, role, fileVars, historyVars>>

\* A container dies, of itself or in a reload.  Without a stream nobody sees it.
Death ==
  /\ stack # "inactive" /\ stream = "open"
  /\ Len(counted) + pipe < MaxDeaths
  /\ pipe' = pipe + 1
  /\ UNCHANGED <<stack, docker, stream, watch, at, role, fileVars, historyVars>>

(***************************************************************************)
(* The watcher.                                                            *)
(***************************************************************************)
WatchConnect ==
  /\ docker = "up" /\ WatchAt("connect", "read")
  /\ stream' = "open"
  /\ UNCHANGED <<stack, docker, pipe, at, role, fileVars, historyVars>>

\* `docker events` has ended, and the loop has read the rest.
WatchEnds ==
  /\ stream = "closed" /\ pipe = 0 /\ WatchAt("read", "connect")
  /\ UNCHANGED <<stack, docker, stream, pipe, at, role, fileVars, historyVars>>

\* The next death; only one while the unit is active now is counted.
WatchRead ==
  /\ pipe > 0 /\ pipe' = pipe - 1
  /\ watch = "read" /\ watch' = IF stack = "active" THEN "count" ELSE "read"
  /\ UNCHANGED <<stack, docker, stream, at, role, fileVars, historyVars>>

WatchCount ==
  /\ WatchAt("count", "decide")
  /\ at' = now
  /\ counted' = Append(counted, now)
  /\ recent' = {i \in recent : Within(counted[i], now)} \cup {Len(counted')}
  /\ UNCHANGED <<stack, docker, stream, pipe, role, pinged, posted, posts, cutShort, cuts>>

\* (Mutant) More than three.
ManyMoreThanThree == Cardinality(recent) > 3

Many == Cardinality(recent) >= 3

WatchDecide ==
  /\ watch = "decide"
  /\ \/ /\ Many /\ ~Within(pinged, at)
        /\ watch' = "mark" /\ role' = "role"
        /\ pinged' = at /\ UNCHANGED <<at, posted>>
     \/ /\ ~(Many /\ ~Within(pinged, at)) /\ ~Within(posted, at)
        /\ watch' = "post"
        /\ posted' = at /\ UNCHANGED <<at, role, pinged>>
     \/ /\ ~(Many /\ ~Within(pinged, at)) /\ Within(posted, at)
        /\ watch' = "read" /\ at' = 0 /\ UNCHANGED <<role, pinged, posted>>
  /\ UNCHANGED <<stack, docker, stream, pipe, recent, historyVars>>

\* A ping is a post too.
WatchMark ==
  /\ WatchAt("mark", "post")
  /\ posted' = at
  /\ UNCHANGED <<stack, docker, stream, pipe, at, role, recent, pinged, historyVars>>

\* Whether it arrives makes no difference to the watcher.
WatchPost ==
  /\ WatchAt("post", "read")
  /\ posts' = Append(posts, [at |-> at, role |-> role])
  /\ at' = 0 /\ role' = "-"
  /\ UNCHANGED <<stack, docker, stream, pipe, fileVars, counted, cutShort, cuts>>

WatchStep ==
  \/ StackStart \/ StackStop \/ StackCut \/ StackReload \/ DockerStop \/ DockerStart \/ Death
  \/ WatchConnect \/ WatchEnds \/ WatchRead
  \/ WatchCount \/ WatchDecide \/ WatchMark \/ WatchPost

WatchNext == (WatchStep /\ UNCHANGED clockVars) \/ (Clock /\ UNCHANGED watchVars)
WatchSpec == ClockInit /\ WatchInit /\ [][WatchNext]_<<clockVars, watchVars>>

---------------------------------------------------------------------------

\* The counted deaths that have been handled.
Handled == {i \in DOMAIN counted : i < Len(counted) \/ watch \notin Deciding}

\* The times of posts, and of those a stop of the stack cut short.
PostTimes == {posts[i].at : i \in DOMAIN posts} \cup cutShort
PingTimes == {posts[i].at : i \in {j \in DOMAIN posts : posts[j].role = "role"}} \cup cutShort

\* A container that keeps crashing is reported in every window: no death is
\* passed over without a post in whose window it is, not even after the clock
\* was set back.
NeverSilent == \A i \in Handled : \E t \in PostTimes : counted[i] \in Window(t)

\* Three deaths in a window ping the role in that window, however they come,
\* and whatever was posted before: unless the clock was set back or the power
\* was cut.
ThreePing ==
  backs = 0 /\ cuts = 0 =>
    \A i \in Handled : i > 2 /\ counted[i] \in Window(counted[i - 2]) =>
      \E t \in PingTimes : counted[i] \in Window(t)

\* The window after a post has at most one more post in it, and only the ping
\* that follows a post without one: with the same exceptions.
PostsSpaced ==
  backs = 0 /\ cuts = 0 =>
    \A i, j \in DOMAIN posts :
      i < j /\ posts[j].at \in Window(posts[i].at) =>
        posts[i].role = "-" /\ posts[j].role = "role"

\* A crash loop pings in each window, and posts no more than it must.
CrashLoopPosts == ThreePing /\ PostsSpaced
=============================================================================
