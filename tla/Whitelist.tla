----------------------------- MODULE Whitelist ------------------------------
(***************************************************************************)
(* stacks/minecraft: minecraft-whitelist.service, which makes the running  *)
(* server's whitelist the one of the secrets file, while the secret is     *)
(* changed, the stack is stopped, rolled back and started, the server goes *)
(* and comes, Mojang's lookup of new names with it, and an operator edits  *)
(* the list in the game.                                                   *)
(***************************************************************************)
EXTENDS Naturals, Sequences, FiniteSets, Functions

CONSTANTS
  Player,      \* the player of each name, whatever its case: `lower`
  Spelling,    \* the server's own name of each player
  Known,       \* the players that Mojang knows
  Files,       \* what the WHITELIST line may be: sequences of names and of others
  NoLine,      \* a file without the line
  MaxChanges   \* bound: changes from outside

VARIABLES
  wanted,      \* the secret: its WHITELIST line
  restart,     \* it was changed, and the deploy has not restarted the unit yet
  listed,      \* /data/whitelist.json, in the server's spelling
  stackUp,     \* stack-minecraft.service is active
  healthy,     \* the container runs and its server answers
  lookup,      \* Mojang's lookup answers
  sync,        \* minecraft-whitelist.service
  syncAt,      \* where its run is
  want, have,  \* `want`, `have`
  left,        \* the names that the loop has before it
  syncFailed,  \* `failed`
  touched,     \* history: the operator edited the list since the run read it
  changes      \* history: the changes from outside

Names == DOMAIN Player
Players == Range(Player)
PlayersOf(names) == {Player[n] : n \in names}
ASSUME SpellingAssumption ==
  /\ Spelling \in [Players -> Names] /\ \A p \in Players : Player[Spelling[p]] = p
  /\ MaxChanges \in Nat

worldVars == <<wanted, restart, listed, stackUp, healthy, lookup>>
runVars == <<sync, syncAt, want, have, left, syncFailed>>
whitelistVars == <<worldVars, runVars, touched, changes>>

\* The names of a line: those that are valid, the first of each player.
Want(line) ==
  {line[k] : k \in {i \in DOMAIN line : line[i] \in Names
                      /\ \A j \in 1..(i - 1) : line[j] \in Names => Player[line[j]] # Player[line[i]]}}

\* What the file asks for; a line that names nobody asks for nothing.
Declared == IF wanted = NoLine THEN {} ELSE PlayersOf(Want(wanted))

Idle(state) ==
  /\ sync' = state /\ syncAt' = "-" /\ want' = {} /\ have' = {} /\ left' = {}
  /\ syncFailed' = FALSE

Begin ==
  /\ sync' = "running" /\ syncAt' = "read" /\ want' = {} /\ have' = {} /\ left' = {}
  /\ syncFailed' = FALSE

WhitelistInit ==
  /\ wanted \in Files /\ restart = FALSE /\ listed \in SUBSET Range(Spelling)
  /\ stackUp = FALSE /\ healthy = FALSE /\ lookup = TRUE
  /\ sync = "inactive" /\ syncAt = "-" /\ want = {} /\ have = {} /\ left = {}
  /\ syncFailed = FALSE
  /\ touched = FALSE /\ changes = 0

---------------------------------------------------------------------------
\* The script.

Exit(ok) == Idle(IF ok THEN "active" ELSE "failed")

ReadLine ==
  /\ syncAt = "read"
  /\ IF wanted = NoLine \/ Want(wanted) = {}
     THEN Exit(FALSE)
     ELSE /\ want' = Want(wanted) /\ syncAt' = "wait"
          /\ syncFailed' = (\E k \in DOMAIN wanted : wanted[k] \notin Names)
          /\ UNCHANGED <<sync, have, left>>
  /\ UNCHANGED <<worldVars, touched, changes>>

Healthy ==
  /\ syncAt = "wait" /\ healthy /\ syncAt' = "list"
  /\ UNCHANGED <<worldVars, touched, changes, sync, want, have, left, syncFailed>>

\* Fifteen minutes without a healthy server.
WaitEnds ==
  /\ syncAt = "wait" /\ ~ healthy /\ Exit(FALSE)
  /\ UNCHANGED <<worldVars, touched, changes>>

\* (Mutant) Names match only as they are written.
SameName(m, n) == m = n

\* lower
Same(m, n) == Player[m] = Player[n]

Missing(some, others) == {n \in some : \A m \in others : ~ Same(m, n)}

ListNames ==
  /\ syncAt = "list" /\ healthy
  /\ have' = listed /\ touched' = FALSE
  /\ syncAt' = "add" /\ left' = Missing(want, listed)
  /\ UNCHANGED <<worldVars, changes, sync, want, syncFailed>>

\* "Added": Mojang knows the player, and the server had not listed them.
CanAdd(n) == lookup /\ Player[n] \in Known /\ ~ \E m \in listed : Same(m, n)

\* (Mutant) What could not be added is only reported.
TriedAnyway(ok) == syncFailed' = syncFailed

Tried(ok) == syncFailed' = (syncFailed \/ ~ ok)

AddName ==
  /\ syncAt = "add" /\ (healthy \/ left = {})
  /\ IF left = {}
     THEN /\ syncAt' = "remove" /\ left' = Missing(have, want)
          /\ UNCHANGED <<listed, syncFailed>>
     ELSE \E n \in left :
            /\ left' = left \ {n} /\ Tried(CanAdd(n))
            /\ listed' = IF CanAdd(n) THEN listed \cup {Spelling[Player[n]]} ELSE listed
            /\ UNCHANGED syncAt
  /\ UNCHANGED <<wanted, restart, stackUp, healthy, lookup, touched, changes, sync, want, have>>

RemoveName ==
  /\ syncAt = "remove" /\ (healthy \/ left = {})
  /\ IF left = {}
     THEN Exit(~ syncFailed) /\ UNCHANGED listed
     ELSE \E n \in left :
            /\ left' = left \ {n} /\ Tried(n \in listed)
            /\ listed' = listed \ {n}
            /\ UNCHANGED <<sync, syncAt, want, have>>
  /\ UNCHANGED <<wanted, restart, stackUp, healthy, lookup, touched, changes>>

\* docker exec fails, and `set -e` ends the script, but for the last list, which
\* is only echoed.
RconFails ==
  /\ syncAt \in {"list", "add", "remove"} /\ ~ healthy /\ (syncAt = "list" \/ left # {})
  /\ Exit(FALSE)
  /\ UNCHANGED <<worldVars, touched, changes>>

SyncStep == ReadLine \/ Healthy \/ WaitEnds \/ ListNames \/ AddName \/ RemoveName \/ RconFails

---------------------------------------------------------------------------
\* The units.

\* The stack's Wants= starts this unit after each start.
StackStarts ==
  /\ ~ stackUp /\ stackUp' = TRUE /\ Begin
  /\ UNCHANGED <<wanted, restart, listed, healthy, lookup, touched, changes>>

\* (Mutant) No restartUnits.
NoRestart == restart' = FALSE /\ UNCHANGED runVars

\* The deploy restarts the unit of a changed secret; its Requisite= is the stack.
RestartSync == restart' = FALSE /\ IF stackUp THEN Begin ELSE UNCHANGED runVars

SecretRestarts ==
  /\ restart /\ RestartSync
  /\ UNCHANGED <<wanted, listed, stackUp, healthy, lookup, touched, changes>>

\* Any deploy starts multi-user.target, and with it the unit that is not active;
\* an operator's `systemctl start` does the same.
DeployStarts ==
  /\ stackUp /\ sync \in {"inactive", "failed"} /\ Begin
  /\ UNCHANGED <<worldVars, touched, changes>>

ServerReady ==
  /\ stackUp /\ ~ healthy /\ healthy' = TRUE
  /\ UNCHANGED <<wanted, restart, listed, stackUp, lookup, runVars, touched, changes>>

LookupBack ==
  /\ ~ lookup /\ lookup' = TRUE
  /\ UNCHANGED <<wanted, restart, listed, stackUp, healthy, runVars, touched, changes>>

---------------------------------------------------------------------------
\* From outside.

Change == changes < MaxChanges /\ changes' = changes + 1

SecretChanges(line) ==
  /\ Change /\ line # wanted /\ wanted' = line /\ restart' = TRUE
  /\ UNCHANGED <<listed, stackUp, healthy, lookup, runVars, touched>>

\* (Mutant) No PartOf=.
StopsAlone ==
  /\ Change /\ stackUp /\ stackUp' = FALSE /\ healthy' = FALSE
  /\ UNCHANGED <<wanted, restart, listed, lookup, runVars, touched>>

\* PartOf= stops this unit with the stack.
StackStops ==
  /\ Change /\ stackUp /\ stackUp' = FALSE /\ healthy' = FALSE /\ Idle("inactive")
  /\ UNCHANGED <<wanted, restart, listed, lookup, touched>>

\* A rollback or a fresh world: another list.
Restored(list) ==
  /\ Change /\ ~ stackUp /\ listed' = list
  /\ UNCHANGED <<wanted, restart, stackUp, healthy, lookup, runVars, touched>>

\* A crash, or a reload that recreates the container.
ServerGone ==
  /\ Change /\ healthy /\ healthy' = FALSE
  /\ UNCHANGED <<wanted, restart, listed, stackUp, lookup, runVars, touched>>

LookupDown ==
  /\ Change /\ lookup /\ lookup' = FALSE
  /\ UNCHANGED <<wanted, restart, listed, stackUp, healthy, runVars, touched>>

OperatorEdits(list) ==
  /\ Change /\ healthy /\ list # listed /\ listed' = list /\ touched' = TRUE
  /\ UNCHANGED <<wanted, restart, stackUp, healthy, lookup, runVars>>

WhitelistNext ==
  \/ SyncStep \/ StackStarts \/ SecretRestarts \/ DeployStarts \/ ServerReady \/ LookupBack
  \/ \E line \in Files : SecretChanges(line)
  \/ StackStops \/ ServerGone \/ LookupDown
  \/ \E list \in SUBSET Range(Spelling) : Restored(list) \/ OperatorEdits(list)

WhitelistSpec == WhitelistInit /\ [][WhitelistNext]_whitelistVars

\* systemd runs what it started; deploys come at least weekly (the updates of the
\* dependencies); the server and the lookup come back.
WhitelistFair ==
  /\ WF_whitelistVars(SyncStep) /\ WF_whitelistVars(StackStarts)
  /\ WF_whitelistVars(SecretRestarts) /\ WF_whitelistVars(DeployStarts)
  /\ WF_whitelistVars(ServerReady) /\ WF_whitelistVars(LookupBack)

---------------------------------------------------------------------------

WhitelistTypeOK ==
  /\ wanted \in Files /\ listed \subseteq Range(Spelling) /\ changes \in 0..MaxChanges
  /\ {restart, stackUp, healthy, lookup, syncFailed, touched} \subseteq BOOLEAN
  /\ sync \in {"inactive", "running", "active", "failed"}
  /\ syncAt \in {"-", "read", "wait", "list", "add", "remove"}
  /\ (sync = "running") = (syncAt # "-")
  /\ want \subseteq Names /\ have \subseteq Range(Spelling) /\ left \subseteq want \cup have
  \* The server and the unit are of the stack.
  /\ (healthy \/ sync # "inactive") => stackUp

\* A unit that is active says that the server's list is the secret's: also after
\* a stop, a rollback or a change of the secret in the middle of a run.  Only a
\* change not deployed yet, and the operator's own edits, come between.
ActiveMeansApplied == sync = "active" /\ ~ restart /\ ~ touched => PlayersOf(listed) = Declared

\* Nobody whom the secret names, in whatever case, is taken off the list by a
\* run, which would kick them: also when a lookup fails.
NamedStay ==
  [][changes' = changes /\ ~ restart =>
       \A n \in listed \ listed' : Player[n] \notin Declared]_whitelistVars

\* The list comes to be the secret's once the changes end, whatever failed before,
\* but for the operator's edits, if the secret names somebody and is in order.
EndsApplied ==
  <>[](\/ touched \/ PlayersOf(listed) = Declared
       \/ Declared = {} \/ ~ Range(wanted) \subseteq Names \/ ~ Declared \subseteq Known)
=============================================================================
