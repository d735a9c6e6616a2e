---------------------------- MODULE PostWindow -----------------------------
(***************************************************************************)
(* The clock that the crash watcher and the failure notifier read, in      *)
(* seconds, and the window after a post in which each of them is quiet.    *)
(***************************************************************************)
EXTENDS Naturals, Sequences

CONSTANTS
  Cooldown,  \* homeserver.notify.cooldown: 600 s
  None,      \* no time in a file: missing, cut short or damaged
  MaxTime,   \* bound: the clock
  MaxBacks   \* bound: how often the clock is set back

ASSUME CooldownAssumption == Cooldown \in Nat \ {0} /\ MaxTime \in Nat /\ MaxBacks \in Nat
ASSUME NoneAssumption == None \notin Nat

VARIABLES
  now,    \* `date +%s`
  backs   \* history: how often it was set back

clockVars == <<now, backs>>
Times == 0..MaxTime

ClockTypeOK == now \in Times /\ backs \in 0..MaxBacks
ClockInit == now = 0 /\ backs = 0

ClockTick == now < MaxTime /\ now' = now + 1 /\ UNCHANGED backs

ClockBack ==
  /\ backs < MaxBacks /\ backs' = backs + 1
  /\ now' \in {t \in Times : t < now}

Clock == ClockTick \/ ClockBack

\* (Mutant) A time ahead of the clock counts.
WithinAhead(t, at) == t # None /\ at < t + Cooldown

\* Is the time t inside the window that ends at `at`?  One ahead of the clock
\* is not.
Within(t, at) == t # None /\ t <= at /\ at < t + Cooldown

\* What the window is to be, for the properties.
Window(t) == t..(t + Cooldown - 1)
=============================================================================
