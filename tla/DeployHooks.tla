---------------------------- MODULE DeployHooks -----------------------------
(***************************************************************************)
(* Deploys and reboots: announce-comin.sh, which comin runs after a build  *)
(* and after a deploy, in two threads of its own, and the weekly reboot    *)
(* window, which asks comin before it reboots.                             *)
(*                                                                         *)
(* A system is what a configuration builds to.  comin, a program of        *)
(* others', is modelled as its hooks and the documentation see it.         *)
(***************************************************************************)
EXTENDS Naturals, Sequences

CONSTANTS
  Systems,      \* systems
  Parts,        \* the kernel, initrd, modules and parameters of each
  Installed,    \* the system before the first deploy
  Tries,        \* how often the window asks: 60
  MaxBuilds,    \* bound: builds
  MaxIncidents  \* bound: other reboots, restarts of comin and deploys by hand

ASSUME DeployAssumption ==
  /\ Installed \in Systems
  /\ Tries \in Nat \ {0} /\ MaxBuilds \in Nat /\ MaxIncidents \in Nat

VARIABLES
  booted,      \* /run/booted-system
  current,     \* /run/current-system
  bootEntry,   \* what the next boot starts by default
  generations, \* comin's generations: the system of each
  gcroot,      \* what its last-built-generation points at
  builder,     \* the build: where it is, and of which generation
  queued,      \* the generation to deploy next, if any
  deployer,    \* the deploy: where it is, of which generation, is it done?
  latest,      \* the last generation deployed, or 0
  markers,     \* /run/announce-comin
  window,      \* where the reboot window is
  asked,       \* how often it has asked comin in vain
  incidents,   \* those so far
  begun,       \* history: generations announced in this boot
  ended,       \* history: how many outcomes were posted of each in this boot
  over,        \* history: those whose deploy hook has ended in this boot
  cut,         \* history: those whose deploy hook was killed
  compared,    \* history: those whose build hook has read the running system
  overtaken,   \* history: those for which it has changed since
  late,        \* history: the deploy began when the window had asked
  blind        \* history: comin could not be asked

cominVars == <<generations, gcroot, builder, queued, deployer, latest>>
windowVars == <<window, asked, late, blind>>
toldVars == <<markers, begun, ended, over, cut>>
runningVars == <<booted, current, bootEntry, compared, overtaken>>
deployVars == <<cominVars, windowVars, toldVars, runningVars, incidents>>

Generations == DOMAIN generations
Switching == deployer.at \in {"install", "activate"}

CominTypeOK ==
  /\ generations \in Seq(Systems) /\ gcroot \in Systems
  /\ builder \in [at : {"idle", "build", "hook", "announce"}, gen : Nat]
  /\ builder.at # "idle" => builder.gen = Len(generations) /\ builder.gen \in Generations
  /\ queued \subseteq Generations
  /\ deployer \in [at : {"idle", "install", "activate", "hook", "post"}, gen : Nat, done : BOOLEAN]
  /\ deployer.at # "idle" => deployer.gen \in Generations
  /\ latest \in Generations \cup {0}

WindowTypeOK ==
  /\ window \in {"off", "ask", "warn", "reboot"} /\ asked \in 0..Tries
  /\ window = "ask" => asked < Tries
  /\ late \in BOOLEAN /\ blind \in BOOLEAN

ToldTypeOK ==
  /\ markers \subseteq Generations /\ begun \subseteq Generations
  /\ over \subseteq Generations /\ cut \subseteq Generations
  /\ ended \in [Generations -> Nat]

RunningTypeOK ==
  /\ booted \in Systems /\ current \in Systems /\ bootEntry \in Systems
  /\ compared \subseteq Generations /\ overtaken \subseteq Generations

DeployTypeOK ==
  CominTypeOK /\ WindowTypeOK /\ ToldTypeOK /\ RunningTypeOK /\ incidents \in 0..MaxIncidents

NoBuild == [at |-> "idle", gen |-> 0]
NoDeploy == [at |-> "idle", gen |-> 0, done |-> FALSE]

DeployInit ==
  /\ booted = Installed /\ current = Installed /\ bootEntry = Installed
  /\ generations = <<>> /\ gcroot = Installed
  /\ builder = NoBuild /\ queued = {} /\ deployer = NoDeploy /\ latest = 0
  /\ markers = {} /\ window = "off" /\ asked = 0 /\ incidents = 0
  /\ begun = {} /\ ended = <<>> /\ over = {} /\ cut = {} /\ compared = {} /\ overtaken = {}
  /\ late = FALSE /\ blind = FALSE

---------------------------------------------------------------------------
\* comin's builder.

\* main has moved, or comin has started: a generation of any system is built.
BuildStarts ==
  /\ builder.at = "idle" /\ Len(generations) < MaxBuilds
  /\ \E system \in Systems : generations' = Append(generations, system)
  /\ builder' = [at |-> "build", gen |-> Len(generations) + 1]
  /\ ended' = Append(ended, 0)
  /\ UNCHANGED <<gcroot, queued, deployer, latest, markers, begun, over, cut,
                 windowVars, runningVars, incidents>>

\* A build that fails or is cancelled has its hook run too, which then ends at
\* once.
BuildEnds ==
  /\ builder.at = "build"
  /\ \/ builder' = [builder EXCEPT !.at = "hook"] /\ gcroot' = generations[builder.gen]
     \/ builder' = NoBuild /\ UNCHANGED gcroot
  /\ UNCHANGED <<generations, queued, deployer, latest, windowVars, toldVars, runningVars, incidents>>

\* (Mutant) The hook compares with the system that was booted.
IsNewBooted == gcroot # booted

\* Does the build change what runs?
IsNew == gcroot # current

\* build/built and build/already built: the marker, then the announcement.  A
\* newer build takes the place of one that waits to be deployed.
BuildHook ==
  /\ builder.at = "hook"
  /\ compared' = compared \cup {builder.gen}
  /\ \/ /\ ~ IsNew
        /\ builder' = NoBuild /\ queued' = {builder.gen} /\ UNCHANGED markers
     \/ /\ IsNew
        /\ builder' = [builder EXCEPT !.at = "announce"] /\ markers' = markers \cup {builder.gen}
        /\ UNCHANGED queued
  /\ UNCHANGED <<generations, gcroot, deployer, latest, windowVars, begun, ended, over, cut,
                 booted, current, bootEntry, overtaken, incidents>>

\* The post may fail; the hook's failure is logged.
BuildAnnounce ==
  /\ builder.at = "announce"
  /\ begun' = begun \cup {builder.gen}
  /\ builder' = NoBuild /\ queued' = {builder.gen}
  /\ UNCHANGED <<generations, gcroot, deployer, latest, windowVars, markers, ended, over, cut,
                 runningVars, incidents>>

---------------------------------------------------------------------------
\* comin's deployer.

Deploy(g) ==
  /\ deployer' = [at |-> "install", gen |-> g, done |-> FALSE]
  /\ late' = (window \in {"warn", "reboot"})

DeployStarts ==
  /\ deployer.at = "idle"
  /\ \E g \in queued : Deploy(g)
  /\ queued' = {}
  /\ UNCHANGED <<generations, gcroot, builder, latest, window, asked, blind, toldVars,
                 runningVars, incidents>>

\* What it takes for deployed already is skipped, without a hook: it compares with
\* the deployment before the last, and after a boot with its own deployments only.
DeploySkips ==
  /\ deployer.at = "idle" /\ queued # {}
  /\ queued' = {}
  /\ UNCHANGED <<generations, gcroot, builder, deployer, latest, windowVars, toldVars,
                 runningVars, incidents>>

\* switch-to-configuration installs the boot entry; this may fail.
Install ==
  /\ deployer.at = "install"
  /\ \/ bootEntry' = generations[deployer.gen] /\ deployer' = [deployer EXCEPT !.at = "activate"]
     \/ UNCHANGED bootEntry /\ deployer' = [deployer EXCEPT !.at = "hook"]
  /\ latest' = deployer.gen
  /\ UNCHANGED <<generations, gcroot, builder, queued, windowVars, toldVars,
                 booted, current, compared, overtaken, incidents>>

\* The running system is another one: what a hook has read of it is old.
Runs(system, except) ==
  /\ current' = system
  /\ overtaken' = IF system = current THEN overtaken ELSE overtaken \cup (compared \ except)

\* It then activates, and where some part fails the rest goes on.
Activate ==
  /\ deployer.at = "activate"
  /\ Runs(generations[deployer.gen], {deployer.gen})
  /\ \E done \in BOOLEAN : deployer' = [deployer EXCEPT !.at = "hook", !.done = done]
  /\ UNCHANGED <<generations, gcroot, builder, queued, latest, windowVars, toldVars,
                 booted, bootEntry, compared, incidents>>

\* (Mutant) Every marker is removed.
DeployHookClears ==
  /\ deployer.at = "hook"
  /\ IF deployer.gen \in markers
     THEN /\ markers' = {} /\ deployer' = [deployer EXCEPT !.at = "post"] /\ UNCHANGED over
     ELSE over' = over \cup {deployer.gen} /\ deployer' = NoDeploy /\ UNCHANGED markers
  /\ UNCHANGED <<generations, gcroot, builder, queued, latest, windowVars, begun, ended, cut,
                 runningVars, incidents>>

\* deploy/done and deploy/failed: the marker is removed, then the outcome posted.
DeployHook ==
  /\ deployer.at = "hook"
  /\ IF deployer.gen \in markers
     THEN /\ markers' = markers \ {deployer.gen}
          /\ deployer' = [deployer EXCEPT !.at = "post"] /\ UNCHANGED over
     ELSE over' = over \cup {deployer.gen} /\ deployer' = NoDeploy /\ UNCHANGED markers
  /\ UNCHANGED <<generations, gcroot, builder, queued, latest, windowVars, begun, ended, cut,
                 runningVars, incidents>>

DeployPost ==
  /\ deployer.at = "post"
  /\ ended' = [ended EXCEPT ![deployer.gen] = @ + 1]
  /\ over' = over \cup {deployer.gen}
  /\ deployer' = NoDeploy
  /\ UNCHANGED <<generations, gcroot, builder, queued, latest, windowVars, markers, begun, cut,
                 runningVars, incidents>>

---------------------------------------------------------------------------
\* The reboot window.

\* The timer.  With the same parts the run ends at once.
WindowStarts ==
  /\ window = "off"
  /\ IF Parts[booted] = Parts[current] THEN UNCHANGED <<window, asked, blind>>
     ELSE window' = "ask" /\ asked' = 0 /\ blind' = FALSE
  /\ UNCHANGED <<late, cominVars, toldVars, runningVars, incidents>>

\* comin's answer while it runs its deploy hook is not known; it may also not
\* answer.
Busy(answer) ==
  /\ answer = "busy" => deployer.at # "idle"
  /\ answer = "idle" => ~ Switching

\* (Mutant) The first answer is enough.
WindowAsksOnce ==
  /\ window = "ask"
  /\ \E answer \in {"busy", "idle", "none"} :
       /\ Busy(answer)
       /\ window' = "warn" /\ blind' = (answer = "none") /\ UNCHANGED asked
  /\ UNCHANGED <<late, cominVars, toldVars, runningVars, incidents>>

WindowAsks ==
  /\ window = "ask"
  /\ \E answer \in {"busy", "idle", "none"} :
       /\ Busy(answer)
       /\ IF answer = "busy"
          THEN /\ asked' = asked + 1 /\ UNCHANGED blind
               /\ window' = IF asked + 1 = Tries THEN "warn" ELSE "ask"
          ELSE window' = "warn" /\ blind' = (answer = "none") /\ UNCHANGED asked
  /\ UNCHANGED <<late, cominVars, toldVars, runningVars, incidents>>

\* The pre-reboot commands: each may fail or time out.
WindowWarns ==
  /\ window = "warn" /\ window' = "reboot"
  /\ UNCHANGED <<asked, late, blind, cominVars, toldVars, runningVars, incidents>>

---------------------------------------------------------------------------
\* Boots, and what operators do.

Incident == incidents < MaxIncidents /\ incidents' = incidents + 1

\* Nothing is left of /run and of the processes.  What boots is the default entry
\* or, from the menu, the one before it.
Boots(system) ==
  /\ booted' = system /\ current' = system
  /\ builder' = NoBuild /\ queued' = {} /\ deployer' = NoDeploy
  /\ markers' = {} /\ begun' = {} /\ ended' = [g \in Generations |-> 0] /\ over' = {} /\ cut' = {}
  /\ window' = "off" /\ asked' = 0 /\ late' = FALSE /\ blind' = FALSE
  /\ compared' = Generations /\ overtaken' = Generations
  /\ UNCHANGED <<bootEntry, generations, gcroot, latest>>

WindowReboots == window = "reboot" /\ Boots(bootEntry) /\ UNCHANGED incidents

\* A power cut, or a reboot by hand.
Reboot == Incident /\ \E system \in {bootEntry, booted} : Boots(system)

\* `systemctl restart comin`: it kills the hooks and forgets what it had in hand.
CominRestarts ==
  /\ Incident
  /\ builder' = NoBuild /\ queued' = {} /\ deployer' = NoDeploy
  /\ cut' = cut \cup (IF deployer.at = "post" THEN {deployer.gen} ELSE {})
  /\ UNCHANGED <<generations, gcroot, latest, windowVars, markers, begun, ended, over, runningVars>>

\* `comin deployment submit-latest`: the latest deployment again, with no build.
Resubmit ==
  /\ Incident
  /\ deployer.at = "idle" /\ latest # 0
  /\ Deploy(latest)
  /\ overtaken' = overtaken \cup {latest}
  /\ UNCHANGED <<generations, gcroot, builder, queued, latest, window, asked, blind, toldVars,
                 booted, current, bootEntry, compared>>

\* `just deploy` switches to a system without comin.
ByHand ==
  /\ Incident
  /\ \E system \in Systems : Runs(system, {}) /\ bootEntry' = system
  /\ UNCHANGED <<cominVars, windowVars, toldVars, booted, compared>>

---------------------------------------------------------------------------

DeployNext ==
  \/ BuildStarts \/ BuildEnds \/ BuildHook \/ BuildAnnounce
  \/ DeployStarts \/ DeploySkips \/ Install \/ Activate \/ DeployHook \/ DeployPost
  \/ WindowStarts \/ WindowAsks \/ WindowWarns \/ WindowReboots
  \/ Reboot \/ CominRestarts \/ Resubmit \/ ByHand

DeploySpec == DeployInit /\ [][DeployNext]_deployVars

---------------------------------------------------------------------------

\* The two hooks, run by two threads of comin's, agree through the markers: an
\* outcome is posted only of an update that was announced, and once, however often
\* it is deployed again, and when the deploy hook of an announced update has run
\* to its end, its outcome has been posted, whatever builds went on meanwhile.
OutcomesPaired ==
  /\ \A g \in Generations : ended[g] <= 1 /\ (ended[g] = 1 => g \in begun)
  /\ \A g \in (over \cap begun) \ cut : ended[g] = 1

\* A deploy of comin's that changes the running system has been announced, unless
\* that system has changed since the build hook compared with it.
UpdatesAnnounced ==
  [][deployer.at = "activate" /\ deployer'.at = "hook" /\ current' # current
       => deployer.gen \in begun \cup overtaken]_deployVars

\* The window is about to reboot in the middle of a switch only when the deploy
\* began after it had asked, when it has asked as often as it does, or when comin
\* did not answer.
RebootWaits ==
  window \in {"warn", "reboot"} /\ Switching => late \/ asked = Tries \/ blind
=============================================================================
