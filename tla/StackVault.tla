---------------------------- MODULE StackVault ----------------------------
(***************************************************************************)
(* What the snapshot and rollback programs promise about a stack's data,   *)
(* without locks, units or steps: a live world and a vault of kept worlds. *)
(* The live world is only ever removed once a copy of it is in the vault   *)
(* under a before-rollback name, and the vault only ever loses a nightly   *)
(* copy that has enough newer ones, or the copy an abandoned rollback made *)
(* of what is still live.                                                  *)
(***************************************************************************)
EXTENDS Naturals, FiniteSets

CONSTANTS Times, Keep, None

VARIABLES
  live,   \* the world in the data directory, or None
  vault   \* the kept worlds, by name

vaultVars == <<live, vault>>
VaultNames == {"nightly", "manual", "before"} \X Times

VaultInit == live = None /\ vault = [n \in VaultNames |-> None]

\* A new, empty data directory.
Blank == live = None /\ live' = 0 /\ UNCHANGED vault

\* The containers write.
Write == live # None /\ live' \in Nat /\ live' > live /\ UNCHANGED vault

\* A copy under a name that was not taken.
Archive(n) ==
  /\ live # None /\ vault[n] = None
  /\ vault' = [vault EXCEPT ![n] = live]
  /\ UNCHANGED live

\* A nightly copy with at least Keep newer ones goes.
Prune(n) ==
  /\ n[1] = "nightly" /\ vault[n] # None
  /\ Cardinality({t \in Times : t > n[2] /\ vault[<<"nightly", t>>] # None}) >= Keep
  /\ vault' = [vault EXCEPT ![n] = None]
  /\ UNCHANGED live

\* A rollback that could not keep the configuration takes its copy back.
Abandon(n) ==
  /\ n[1] = "before" /\ vault[n] = live /\ live # None
  /\ vault' = [vault EXCEPT ![n] = None]
  /\ UNCHANGED live

\* The live world goes, with its copy safe.
Remove(n) ==
  /\ n[1] = "before" /\ vault[n] = live /\ live # None
  /\ live' = None
  /\ UNCHANGED vault

\* A kept world comes back.
Restore(n) ==
  /\ live = None /\ vault[n] # None
  /\ live' = vault[n]
  /\ UNCHANGED vault

VaultNext ==
  \/ Blank \/ Write
  \/ \E n \in VaultNames : Archive(n) \/ Prune(n) \/ Abandon(n) \/ Remove(n) \/ Restore(n)

VaultSpec == VaultInit /\ [][VaultNext]_vaultVars
=============================================================================
