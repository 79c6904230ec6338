------------------------------- MODULE Trees -------------------------------
(***************************************************************************)
(* Trees of pages given by a parent function par over a set P of pages.    *)
(* Everything is stated by closed sets and not by recursion: a theorem     *)
(* then needs no induction over the depth of a tree.                       *)
(***************************************************************************)

\* No set of pages is closed under taking parents: every page has a root.
Acyclic(P, par) == \A S \in SUBSET P : (\A p \in S : par[p] \in S) => S = {}

\* The page and its descendants: what is in every set that holds the page and
\* the children of its members.
Below(P, par, p) ==
  {q \in P : \A S \in SUBSET P :
     (p \in S /\ \A c \in P : par[c] \in S => c \in S) => q \in S}

\* The page and its ancestors.
Above(P, par, p) ==
  {q \in P : \A S \in SUBSET P :
     (p \in S /\ \A c \in S : par[c] \in P => par[c] \in S) => q \in S}

=============================================================================
