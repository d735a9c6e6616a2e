--------------------------- MODULE MCFlakeUpdate ----------------------------
(***************************************************************************)
(* A small instance of FlakeUpdate for TLC: nixpkgs, comin, and compat, an *)
(* input of comin's as it has in the repository's lock.  The commits are   *)
(* m <- n of nixpkgs, a <- b and a <- c of comin, and d <- e of compat.    *)
(***************************************************************************)
EXTENDS FlakeUpdate, TLC

CONSTANTS m, n, a, b, c, d, e, bad

Order == {<<m, m>>, <<n, n>>, <<a, a>>, <<b, b>>, <<c, c>>, <<d, d>>, <<e, e>>,
           <<m, n>>, <<a, b>>, <<a, c>>, <<d, e>>}

\* What may be pushed, and where the branches are to begin with.
Repos == [nixpkgs |-> {m, n}, comin |-> {a, b, c}, compat |-> {e}]
Heads == [nixpkgs |-> m, comin |-> a, compat |-> d]

Formats == [field \in {"rev", "narHash", "lastModified"} |-> Commits]

Pinned(rev) == [type |-> "github", rev |-> rev, narHash |-> rev, lastModified |-> rev]

Node(rev) == [original |-> "branch", locked |-> Pinned(rev)]

\* At b comin has moved compat, and at c it has gained another input.
Wired == [compat |-> "compat", nixpkgs |-> Follows]

CominOwn(rev) ==
  CASE rev = b -> [inputs |-> Wired, nodes |-> [compat |-> Node(e)]]
    [] rev = c -> [inputs |-> [gained |-> "gained"] @@ Wired,
                   nodes |-> [compat |-> Node(d), gained |-> Node(d)]]
    [] OTHER   -> [inputs |-> Wired, nodes |-> [compat |-> Node(d)]]

NoOwn == [inputs |-> Missing, nodes |-> <<>>]

Owns ==
  [i \in Inputs |-> [rev \in Commits |-> IF i = "comin" THEN CominOwn(rev) ELSE NoOwn]]

Lock(x, y) ==
  [top |-> 7,
   nodes |->
     [root |-> [inputs |-> [nixpkgs |-> "nixpkgs", comin |-> "comin", again |-> Follows]],
      nixpkgs |-> Node(x), compat |-> Node(d),
      comin |-> [inputs |-> Wired, original |-> "branch", locked |-> Pinned(y)]]]

AtFirst == Lock(m, a)

\* A lock that nix would not write, as comin has gained an input at c, and one
\* changed in each of the ways that are to be refused.
ChangedBy(x) ==
  LET l == Lock(n, a)
      pinned == {[Pinned(x) EXCEPT !.narHash = bad], [Pinned(x) EXCEPT !.lastModified = bad],
                 [Pinned(x) EXCEPT !.type = "path"], [Pinned(a) EXCEPT !.narHash = x],
                 [type |-> "github", rev |-> x]}
  IN  {[l EXCEPT !.top = 8],
       [l EXCEPT !.nodes = [root |-> @.root, nixpkgs |-> @.nixpkgs, compat |-> @.compat]],
       [l EXCEPT !.nodes.comin.original = "fork"],
       [l EXCEPT !.nodes.comin = [original |-> "branch"]]}
      \cup {[l EXCEPT !.nodes.comin.locked = pin] : pin \in pinned}

SomeLocks == {Lock(n, c)} \cup ChangedBy(c)
=============================================================================
