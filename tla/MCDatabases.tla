---------------------------- MODULE MCDatabases ----------------------------
(* Either the schemas of two databases and of a document that may become   *)
(* one change, with a row in each of the two, or two tabs edit the cells   *)
(* of a row: these share no state, so a behaviour is one of them only.     *)
EXTENDS DatabaseSchema, RowCells, TLC
CONSTANTS d1, d2, d3, n1, n2, n3, p1, p2, v1, v2, v3, v4, r1, r2, j1, j2, t1, t2, u1, u2
VARIABLE scenario

MCNameOf == d1 :> n1 @@ d2 :> n2 @@ d3 :> n3
MCViewOf == d1 :> v1 @@ d2 :> v2 @@ d3 :> v3
MCHome == r1 :> d1 @@ r2 :> d2
MCUserOf == t1 :> u1 @@ t2 :> u2

\* The handlers of a scenario are alike; so are the new properties of the one
\* and the tabs of the other, each with its user, which change places together
\* since no state has both.
Alike == Permutations({j1, j2})
  \cup {p1 :> p2 @@ p2 :> p1 @@ t1 :> t2 @@ t2 :> t1 @@ u1 :> u2 @@ u2 :> u1}

MCInit == Init /\ CellsInit /\ scenario \in {"schema", "cells"}
MCNext ==
  /\ UNCHANGED scenario
  /\ \/ scenario = "schema" /\ Next /\ UNCHANGED cellVars
     \/ scenario = "cells" /\ CellsNext /\ UNCHANGED vars
MCSpec == MCInit /\ [][MCNext]_<<vars, cellVars, scenario>>
=============================================================================
