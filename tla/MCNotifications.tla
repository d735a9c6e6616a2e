-------------------------- MODULE MCNotifications --------------------------
(***************************************************************************)
(* The five posters for TLC.  They share no file, and the first two the    *)
(* clock, so each behaviour is of one of them.                             *)
(***************************************************************************)
EXTENDS CrashWatch, FailureNotify, OnlineMarker, AlertRelay, DeployHooks

CONSTANT Posters   \* which of them are checked
VARIABLE poster    \* the one that moves

\* One group of two alerts and one of one.
TwoAndOne == [two |-> 2, one |-> 1]

\* One of the systems has another kernel.
SomeParts == [system \in Systems |-> system = "kernel"]

MCInit ==
  /\ poster \in Posters
  /\ ClockInit /\ WatchInit /\ NotifyInit /\ OnlineInit /\ RelayInit /\ DeployInit

Watch == poster = "watch" /\ WatchNext /\ UNCHANGED <<notifyVars, onlineVars, relayVars, deployVars>>
Notify == poster = "notify" /\ NotifyNext /\ UNCHANGED <<watchVars, onlineVars, relayVars, deployVars>>
Online == poster = "online" /\ OnlineNext /\ UNCHANGED <<clockVars, watchVars, notifyVars, relayVars, deployVars>>
Relay == poster = "relay" /\ RelayNext /\ UNCHANGED <<clockVars, watchVars, notifyVars, onlineVars, deployVars>>
Hooks == poster = "hooks" /\ DeployNext
         /\ UNCHANGED <<clockVars, watchVars, notifyVars, onlineVars, relayVars>>

MCNext == UNCHANGED poster /\ (Watch \/ Notify \/ Online \/ Relay \/ Hooks)

MCSpec ==
  MCInit /\ [][MCNext]_<<poster, clockVars, watchVars, notifyVars, onlineVars, relayVars, deployVars>>
=============================================================================
