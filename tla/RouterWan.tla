----------------------------- MODULE RouterWan ------------------------------
(***************************************************************************)
(* tenants/network.nix: tenant-router-wan.service, which keeps the         *)
(* router's public address in the nftables set router-wan, with its        *)
(* refresh every five minutes, the ruleset's reloads, which empty the set, *)
(* nft and the lookup failing, and reboots.  A tick is five minutes.       *)
(***************************************************************************)
EXTENDS Naturals

CONSTANTS
  Addresses,       \* what the provider may give the router
  NoAddress,       \* no address saved
  Grace,           \* 30 minutes, in ticks
  RouterEvents,    \* what happens from outside
  MaxDisturbances  \* bound: events from outside

ASSUME RouterAssumption == Grace \in Nat /\ MaxDisturbances \in Nat /\ NoAddress \notin Addresses

VARIABLES
  wan,           \* the router's address
  reachable,     \* the lookup answers
  routerSet,     \* the set router-wan
  saved,         \* $STATE_DIRECTORY/address
  age,           \* ticks since it was written, at most Grace
  uptime,        \* ticks since the boot, at most Grace
  unit,          \* tenant-router-wan.service
  queued,        \* its reload waits for its start
  wanAt,         \* where its script is
  found,         \* `address`
  refreshed,     \* the timer fired in this tick
  emptied,       \* history: a reload left the set empty, and nothing has filled it
  outage,        \* history: ticks since a lookup that answered, or since the boot
  disturbances   \* history: the events from outside

fileAndSet == <<routerSet, saved, age>>
unitVars == <<unit, queued, wanAt, found>>
clockVars == <<uptime, refreshed, outage>>
routerVars == <<wan, reachable, fileAndSet, unitVars, clockVars, emptied, disturbances>>

NoMore(n) == IF n > Grace + 1 THEN Grace + 1 ELSE n

RouterInit ==
  /\ wan \in Addresses /\ reachable \in BOOLEAN
  /\ routerSet = {} /\ saved \in Addresses \cup {NoAddress} /\ age \in {0, Grace + 1}
  /\ unit = "starting" /\ queued = FALSE /\ wanAt = "put" /\ found = NoAddress
  /\ uptime = 0 /\ refreshed = TRUE /\ outage = 0 /\ emptied = FALSE /\ disturbances = 0

---------------------------------------------------------------------------
\* The script, as ExecStart and as ExecReload.

Goto(where, address) == wanAt' = where /\ found' = address /\ UNCHANGED <<unit, queued>>

\* A start that failed leaves the unit failed, a reload active; a reload that
\* waited runs if it is active.
Ends(ok) ==
  LET state == IF ok \/ unit = "reloading" THEN "active" ELSE "failed"
  IN  /\ queued' = FALSE /\ found' = NoAddress
      /\ IF queued /\ state = "active"
         THEN unit' = "reloading" /\ wanAt' = "put"
         ELSE unit' = state /\ wanAt' = "-"

Filled(addresses) == routerSet' = addresses /\ emptied' = (emptied /\ addresses = {})

\* The last address.
PutBack ==
  /\ wanAt = "put"
  /\ Filled(routerSet \cup ({saved} \ {NoAddress})) /\ Goto("lookup", NoAddress)
  /\ UNCHANGED <<wan, reachable, saved, age, clockVars, disturbances>>

LookUp ==
  /\ wanAt = "lookup" /\ reachable /\ Goto("flush", wan) /\ outage' = 0
  /\ UNCHANGED <<wan, reachable, fileAndSet, uptime, refreshed, emptied, disturbances>>

\* Too early for a post.
Early == uptime < Grace \/ age < Grace

LookupFails ==
  /\ wanAt = "lookup" /\ ~ reachable /\ Ends(Early)
  /\ UNCHANGED <<wan, reachable, fileAndSet, clockVars, emptied, disturbances>>

\* (Mutant) The last address stays beside the new one.
NoFlush ==
  /\ wanAt = "flush" /\ Goto("add", found)
  /\ UNCHANGED <<wan, reachable, fileAndSet, clockVars, emptied, disturbances>>

Flush ==
  /\ wanAt = "flush" /\ routerSet' = {} /\ Goto("add", found)
  /\ UNCHANGED <<wan, reachable, saved, age, clockVars, emptied, disturbances>>

AddAddress ==
  /\ wanAt = "add" /\ Filled(routerSet \cup {found}) /\ Goto("write", found)
  /\ UNCHANGED <<wan, reachable, saved, age, clockVars, disturbances>>

WriteAddress ==
  /\ wanAt = "write" /\ saved' = found /\ age' = 0 /\ Ends(TRUE)
  /\ UNCHANGED <<wan, reachable, routerSet, clockVars, emptied, disturbances>>

WanStep == PutBack \/ LookUp \/ LookupFails \/ Flush \/ AddAddress \/ WriteAddress

---------------------------------------------------------------------------
\* The timer.

\* (Mutant) A reload, which leaves the unit active when it fails.
RefreshReloads ==
  /\ ~ refreshed /\ wanAt = "-" /\ refreshed' = TRUE
  /\ unit' = (IF unit = "active" THEN "reloading" ELSE "starting")
  /\ queued' = FALSE /\ wanAt' = "put" /\ found' = NoAddress
  /\ UNCHANGED <<wan, reachable, fileAndSet, uptime, outage, emptied, disturbances>>

\* `systemctl restart`: also of a run under way, which it ends.
Refresh ==
  /\ ~ refreshed /\ refreshed' = TRUE
  /\ unit' = "starting" /\ queued' = FALSE /\ wanAt' = "put" /\ found' = NoAddress
  /\ UNCHANGED <<wan, reachable, fileAndSet, uptime, outage, emptied, disturbances>>

\* The timer fires in each tick, and a run takes seconds.
Tick ==
  /\ refreshed /\ wanAt = "-"
  /\ age' = NoMore(age + 1) /\ uptime' = NoMore(uptime + 1) /\ outage' = NoMore(outage + 1)
  /\ refreshed' = FALSE
  /\ UNCHANGED <<wan, reachable, routerSet, saved, unitVars, emptied, disturbances>>

---------------------------------------------------------------------------
\* From outside.

Disturbance(event) ==
  event \in RouterEvents /\ disturbances < MaxDisturbances /\ disturbances' = disturbances + 1

NewAddress(address) ==
  /\ Disturbance("address") /\ address # wan /\ wan' = address
  /\ UNCHANGED <<reachable, fileAndSet, unitVars, clockVars, emptied>>

Outage ==
  /\ Disturbance("outage") /\ reachable' = ~ reachable
  /\ UNCHANGED <<wan, fileAndSet, unitVars, clockVars, emptied>>

\* A reload of the ruleset, as a deploy that changes it makes, is passed on: to
\* a unit that is active, and perhaps to one that is starting.
ReloadPropagated(kept) ==
  CASE unit = "active" -> unit' = "reloading" /\ wanAt' = "put" /\ UNCHANGED <<queued, found>>
    [] unit \in {"starting", "reloading"} -> queued' = (queued \/ kept) /\ UNCHANGED <<unit, wanAt, found>>
    [] unit = "failed" -> UNCHANGED unitVars

RulesetReload(kept) ==
  /\ Disturbance(IF kept THEN "reload" ELSE "reload lost")
  /\ routerSet' = {} /\ emptied' = TRUE /\ ReloadPropagated(kept)
  /\ UNCHANGED <<wan, reachable, saved, age, clockVars>>

\* (Mutant) No `set -e`: what fails ends in success.
FailsQuietly ==
  /\ Disturbance("nft") /\ wanAt \in {"put", "flush", "add", "write"}
  /\ wanAt = "put" => saved # NoAddress
  /\ Ends(TRUE)
  /\ IF wanAt = "write" THEN saved' = NoAddress /\ age' = 0 ELSE UNCHANGED <<saved, age>>
  /\ emptied' = (emptied \/ (unit = "reloading" /\ routerSet = {}))
  /\ UNCHANGED <<wan, reachable, routerSet, clockVars>>

\* nft refuses, or the file cannot be written: it is then empty, and new.
CommandFails ==
  /\ Disturbance("nft") /\ wanAt \in {"put", "flush", "add", "write"}
  /\ wanAt = "put" => saved # NoAddress
  /\ Ends(FALSE)
  /\ IF wanAt = "write" THEN saved' = NoAddress /\ age' = 0 ELSE UNCHANGED <<saved, age>>
  /\ emptied' = (emptied \/ (unit = "reloading" /\ routerSet = {}))
  /\ UNCHANGED <<wan, reachable, routerSet, clockVars>>

\* The set is lost, and a file that was being written may be.
Reboot ==
  /\ Disturbance("reboot") /\ routerSet' = {} /\ emptied' = FALSE
  /\ saved' \in (IF wanAt = "write" THEN {saved, NoAddress} ELSE {saved}) /\ age' \in {age, NoMore(age + 1)}
  /\ unit' = "starting" /\ queued' = FALSE /\ wanAt' = "put" /\ found' = NoAddress
  /\ uptime' = 0 /\ refreshed' = TRUE /\ outage' = 0
  /\ UNCHANGED <<wan, reachable>>

RouterNext ==
  \/ WanStep \/ Refresh \/ Tick
  \/ \E address \in Addresses : NewAddress(address)
  \/ Outage \/ \E kept \in BOOLEAN : RulesetReload(kept)
  \/ CommandFails \/ Reboot

RouterSpec == RouterInit /\ [][RouterNext]_routerVars

\* The service manager, its timer and the clock.
RouterFair == WF_routerVars(WanStep) /\ WF_routerVars(Refresh) /\ WF_routerVars(Tick)

---------------------------------------------------------------------------

RouterTypeOK ==
  /\ wan \in Addresses /\ routerSet \subseteq Addresses
  /\ {saved, found} \subseteq Addresses \cup {NoAddress}
  /\ {age, uptime, outage} \subseteq 0..(Grace + 1) /\ disturbances \in 0..MaxDisturbances
  /\ {reachable, queued, refreshed, emptied} \subseteq BOOLEAN
  /\ unit \in {"starting", "reloading", "active", "failed"}
  /\ wanAt \in {"-", "put", "lookup", "flush", "add", "write"}
  /\ (unit \in {"starting", "reloading"}) = (wanAt # "-")
  /\ (found # NoAddress) = (wanAt \in {"flush", "add", "write"})

\* While an address is saved, the set is empty at rest only after a run that
\* failed the unit, which posts, or after a reload: the two transactions that
\* replace the address, and what ends a run between them, leave no other gap.
EmptyIsKnown ==
  routerSet = {} /\ saved # NoAddress /\ wanAt = "-" => unit = "failed" \/ emptied

\* After thirty minutes without an answer the unit is failed once the tick's run
\* is over, so that it posts, whatever was reloaded in between.
OutageIsPosted == outage > Grace /\ refreshed /\ wanAt = "-" => unit = "failed"

\* The set comes to hold the router's address alone, and again after each run, if
\* the lookup answers; and what a reload left empty is filled also if it does not,
\* while an address is saved.
SetComesBack ==
  /\ <>[]reachable => []<>(routerSet = {wan})
  /\ emptied /\ saved # NoAddress ~> routerSet # {} \/ saved = NoAddress
=============================================================================
