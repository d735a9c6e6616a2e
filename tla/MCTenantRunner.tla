--------------------------- MODULE MCTenantRunner --------------------------
(***************************************************************************)
(* Instances of TenantRunner for TLC: two commits, one reboot, and a       *)
(* commit that may wait for its CI for less than one tick.  Commits are    *)
(* numbers, in the order they are pushed, so no symmetry is declared.      *)
(***************************************************************************)
EXTENDS TenantRunner

\* All but what moves main back or runs CI again (LiveEvents), which take back
\* what PostedOnce and DeployedIsLive promise (README, Findings).
SafeEvents == {"push", "manual", "reboot", "term", "credential",
               "platformFails", "composeFails", "postLost"}

\* What may come back again and again; no TERM and no run by hand, after which
\* OnlyTenantFailuresPosted does not hold (README, Findings).
LiveEvents == {"push", "reset", "rerun", "reboot", "credential", "postFails"}

\* A TERM: the run's timeout, or `systemctl stop`.
TermEvents == {"term"}

\* A bad commit, and main moved back to the one before it.
UndoEvents == {"push", "reset", "composeFails"}
=============================================================================
