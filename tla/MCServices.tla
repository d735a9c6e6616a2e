---------------------------- MODULE MCServices -----------------------------
(***************************************************************************)
(* The small services for TLC: the whitelist of the Minecraft server, the  *)
(* set of the router's address and the cap of the query log.  They share   *)
(* nothing, so each behaviour is of one of them.                           *)
(***************************************************************************)
EXTENDS Whitelist, RouterWan, QueryLog, TLC

CONSTANT Services  \* which of them are checked
VARIABLE service   \* the one that runs

---------------------------------------------------------------------------
\* Two players, one of whom is written in two ways and one of whom Mojang may
\* not know; lines with an invalid name and with the same player twice.

TwoPlayers == ("Ann" :> "ann") @@ ("ANN" :> "ann") @@ ("Bob" :> "bob")
AsNamed == ("ann" :> "Ann") @@ ("bob" :> "Bob")
SomeLines == {<<"ANN">>, <<"Bob">>, <<"Ann", "Bob">>, <<"Bob", "x">>, <<"ANN", "Ann">>, <<>>, NoLine}

---------------------------------------------------------------------------

\* A service that does not run stands still.
MCInit ==
  /\ service \in Services
  /\ IF service = "whitelist" THEN WhitelistInit
     ELSE /\ wanted = NoLine /\ restart = FALSE /\ listed = {} /\ stackUp = FALSE /\ healthy = FALSE
          /\ lookup = TRUE /\ sync = "inactive" /\ syncAt = "-" /\ want = {} /\ have = {} /\ left = {}
          /\ syncFailed = FALSE /\ touched = FALSE /\ changes = 0
  /\ IF service = "router" THEN RouterInit
     ELSE /\ wan = CHOOSE address \in Addresses : TRUE
          /\ reachable = FALSE /\ routerSet = {} /\ saved = NoAddress /\ age = 0
          /\ unit = "failed" /\ queued = FALSE /\ wanAt = "-" /\ found = NoAddress
          /\ uptime = 0 /\ refreshed = TRUE /\ outage = 0 /\ emptied = FALSE /\ disturbances = 0
  /\ IF service = "log" THEN LogInit
     ELSE /\ cap \in {CHOOSE c \in Caps : TRUE} /\ width \in {CHOOSE w \in Widths : TRUE}
          /\ rows = <<>> /\ latest = 1 /\ written = 0 /\ dead = 0 /\ fileRows = 0 /\ reltuples = -1
          /\ capAt = "-" /\ estimate = 0 /\ live = 0 /\ cutoff = None /\ kills = 0
          /\ asked = 0 /\ trimmed = -1

MinecraftServer == service = "whitelist" /\ WhitelistNext /\ UNCHANGED <<routerVars, logVars>>
Router == service = "router" /\ RouterNext /\ UNCHANGED <<whitelistVars, logVars>>
Log == service = "log" /\ LogNext /\ UNCHANGED <<whitelistVars, routerVars>>

MCNext == UNCHANGED service /\ (MinecraftServer \/ Router \/ Log)

\* The fairness of the service that runs.
MCFair ==
  /\ service = "whitelist" => WhitelistFair
  /\ service = "router" => RouterFair
  /\ service = "log" => LogFair

MCSpec == MCInit /\ [][MCNext]_<<service, whitelistVars, routerVars, logVars>> /\ MCFair

\* Each variable of the three services keeps its type.
TypeOK == WhitelistTypeOK /\ RouterTypeOK /\ LogTypeOK
=============================================================================
