----------------------------- MODULE FlakeLock ------------------------------
(***************************************************************************)
(* flake.lock as scripts/flake_update.py reads it: nodes with the commit   *)
(* each is pinned to, and the questions asked of two locks.  A JSON object *)
(* is a function from its keys, so that keys may be missing or too many.   *)
(***************************************************************************)
EXTENDS Naturals

CONSTANTS
  Nixpkgs,     \* the node of nixpkgs
  Follows,     \* an input that follows another one's, with no node of its own
  Missing,     \* what dict.get answers for a key that is not there
  WellFormed,  \* the values that match MOVABLE's formats, and the integers,
               \* by field
  Own          \* what an input brings at a commit: its node's `inputs`, and the
               \* nodes its own lock puts below it

\* (Mutant) The hash is to stay.
MovableRevOnly == {"rev"}

Movable == {"rev", "narHash"}

Get(dict, key) == IF key \in DOMAIN dict THEN dict[key] ELSE Missing

Locked(lock, n) ==
  IF "locked" \in DOMAIN lock.nodes[n] THEN lock.nodes[n].locked ELSE <<>>

Rev(lock, n) == Get(Locked(lock, n), "rev")

\* The inputs of the flake itself, by the names it gives them.
DirectInputs(lock) ==
  LET inputs == lock.nodes.root.inputs
  IN  [name \in {i \in DOMAIN inputs : inputs[i] # Follows} |-> lock.nodes[inputs[name]]]

\* The nodes that the second lock pins to another commit.
Moved(old, new) == {n \in DOMAIN old.nodes : Rev(old, n) # Rev(new, n)}

\* lock_problems, of a node's pin: no problem between these two.
LockedSound(ol, nl) ==
  /\ DOMAIN ol = DOMAIN nl
  /\ \A key \in DOMAIN ol \cup DOMAIN nl :
       IF key \in Movable \cup {"lastModified"}
       THEN Get(nl, key) \in WellFormed[key]
       ELSE Get(ol, key) = Get(nl, key)
  /\ IF Get(ol, "rev") = Get(nl, "rev") THEN ol = nl ELSE Get(ol, "type") = "github"

NodeSound(o, n) ==
  /\ DOMAIN o = DOMAIN n
  /\ \A key \in (DOMAIN o \cup DOMAIN n) \ {"locked"} : Get(o, key) = Get(n, key)
  /\ "locked" \in DOMAIN o => LockedSound(o.locked, n.locked)

\* lock_problems(old, new) = [].
NoLockProblems(old, new) ==
  /\ old.top = new.top
  /\ DOMAIN old.nodes = DOMAIN new.nodes
  /\ \A n \in DOMAIN old.nodes \cap DOMAIN new.nodes : NodeSound(old.nodes[n], new.nodes[n])

\* `carry`: does the second lock move a direct input other than nixpkgs?
Carry(mainLock, prLock) ==
  LET mainIn == DirectInputs(mainLock)
      prIn == DirectInputs(prLock)
  IN  \E name \in (DOMAIN mainIn \cap DOMAIN prIn) \ {Nixpkgs} :
        Get(mainIn[name].locked, "rev") # Get(prIn[name].locked, "rev")

\* The nodes that are below an input at one commit or another.
Below(i) == UNION {DOMAIN Own[i][rev].nodes : rev \in DOMAIN Own[i]}

Repinned(pin, rev, hash, date) ==
  [pin EXCEPT !.rev = rev, !.narHash = hash, !.lastModified = date]

\* What nix writes in an input's node for a commit: with it the hash and the date
\* of its tree, which stand here for the commit, and the inputs it has there.
PinnedNode(node, i, rev) ==
  LET wiring == IF Own[i][rev].inputs = Missing THEN {} ELSE {"inputs"}
  IN  [key \in (DOMAIN node \ {"inputs"}) \cup wiring |->
         IF key = "inputs" THEN Own[i][rev].inputs
         ELSE IF key = "locked" THEN Repinned(node.locked, rev, rev, rev)
         ELSE node[key]]

\* nix pins an input to a commit: what was below the input goes, and what the
\* commit's own lock says comes.
Pin(lock, i, rev) ==
  LET own == Own[i][rev].nodes
  IN  [lock EXCEPT !.nodes =
         [n \in (DOMAIN lock.nodes \ Below(i)) \cup DOMAIN own |->
            IF n \in DOMAIN own THEN own[n]
            ELSE IF n = i THEN PinnedNode(lock.nodes[n], i, rev)
            ELSE lock.nodes[n]]]

---------------------------------------------------------------------------

\* A JSON object: a function that equals what its values say.
IsDict(f) == f = [x \in DOMAIN f |-> f[x]]

\* A lock: its top-level fields and its nodes, all of them JSON objects.
IsLock(lock) ==
  /\ lock = [top |-> lock.top, nodes |-> lock.nodes]
  /\ IsDict(lock.nodes)
  /\ \A n \in DOMAIN lock.nodes :
       /\ IsDict(lock.nodes[n])
       /\ "locked" \in DOMAIN lock.nodes[n] => IsDict(lock.nodes[n].locked)

\* The reference: the new lock is the old one with some GitHub nodes pinned to
\* other commits, with any hash and date, and nothing else.
OnlyPinsMoved(old, new) ==
  /\ new = [old EXCEPT !.nodes = new.nodes]
  /\ DOMAIN new.nodes = DOMAIN old.nodes
  /\ \A n \in DOMAIN old.nodes \ Moved(old, new) : new.nodes[n] = old.nodes[n]
  /\ \A n \in Moved(old, new) :
       /\ Get(old.nodes[n].locked, "type") = "github"
       /\ LET pin == Locked(new, n)
          IN  /\ \A field \in {"rev", "narHash", "lastModified"} \cap DOMAIN pin :
                   pin[field] \in WellFormed[field]
              /\ new.nodes[n] = [old.nodes[n] EXCEPT !.locked =
                                   Repinned(@, pin.rev, pin.narHash, pin.lastModified)]

\* A pin as nix writes it: the hash and the date are the commit's.
OfCommit(pin) ==
  /\ {"rev", "narHash", "lastModified"} \subseteq DOMAIN pin
  /\ pin.narHash = pin.rev /\ pin.lastModified = pin.rev

\* What of a node no update may change.
Frame(node) ==
  [key \in DOMAIN node |->
     IF key = "locked"
     THEN [k \in DOMAIN node.locked \ {"rev", "narHash", "lastModified"} |-> node.locked[k]]
     ELSE node[key]]

\* The reference: at a commit an input has the inputs that the lock has for it,
\* wired as there and from the same places, whatever they are pinned to.
OwnKept(lock, i, rev) ==
  LET own == Own[i][rev].nodes
  IN  /\ Get(lock.nodes[i], "inputs") = Own[i][rev].inputs
      /\ DOMAIN lock.nodes \cap Below(i) = DOMAIN own
      /\ \A n \in DOMAIN own : Frame(lock.nodes[n]) = Frame(own[n])
=============================================================================
