---------------------------- MODULE MCPageTree ----------------------------
(* Constants of the PageTree runs. *)
EXTENDS PageTree

CONSTANTS p1, p2, p3, p4, r1, r2, w1, w2

MCPage == {p1, p2, p3, p4}
MCInitialPages == {{p1, p2, p3}, {p1}}
MCInitialKeys ==
  [p \in MCPage |-> IF p = p3 THEN KeyUnit ELSE 0]
MCWorkspace == {w1, w2}
MCHome == w1
MCRequest == {r1, r2}

\* Slots are alike: of two requests at once, r1 has the one that comes first here.
Goals == <<"move", "create", "import", "archive", "restore">>
Rank(goal) == CHOOSE i \in DOMAIN Goals : Goals[i] = goal
InOrder ==
  \/ req[r1].pc = "idle"
  \/ req[r2].pc = "idle"
  \/ Rank(req[r1].goal) <= Rank(req[r2].goal)
MCNext == Next /\ InOrder'
MCSpec == Init /\ [][MCNext]_vars
MCFairSpec == MCSpec /\ Fairness
===========================================================================
