--------------------------- MODULE MCPageAccess ---------------------------
(* Constants of the PageAccess runs. *)
EXTENDS PageAccess

CONSTANTS top, mid, leaf, ann, bob, cyd, r1, r2

MCPage == {top, mid, leaf}
MCUser == {ann, bob, cyd}
MCRequest == {r1, r2}
MCAccounts == {ann, bob}
MCMember == [u \in MCUser |-> IF u = ann THEN "owner" ELSE IF u = bob THEN "member" ELSE Null]

NoGrants == [p \in MCPage |-> [s \in Subject |-> Null]]

\* No grant, bob shut out of mid, or bob in charge of mid.
MCGrants ==
  {NoGrants} \cup {[NoGrants EXCEPT ![mid][bob] = role] : role \in {"read", "full"}}

\* leaf below mid below top, or three roots.
MCParents ==
  {[p \in MCPage |-> IF p = leaf THEN mid ELSE IF p = mid THEN top ELSE Null],
   [p \in MCPage |-> Null]}

MCMoves == {<<leaf, top>>, <<leaf, mid>>, <<mid, Null>>}

AskOf(op, u, p, t, role) == [op |-> op, user |-> u, page |-> p, target |-> t, role |-> role]

MCAsks ==
  {AskOf("access", bob, leaf, Null, Null), AskOf("remove", ann, mid, bob, Null)}
  \cup {AskOf("upsert", u, mid, Everyone, "read") : u \in {ann, bob}}
  \cup {AskOf("upsert", ann, mid, bob, "read"), AskOf("upsert", ann, leaf, cyd, "edit")}
  \cup {AskOf("shareInvite", ann, leaf, u, "comment") : u \in {bob, cyd}}
  \cup {AskOf("shareInvite", bob, leaf, cyd, "comment")}
  \cup {AskOf("inviteMember", ann, top, cyd, role) : role \in {"owner", "admin"}}
  \cup {AskOf("inviteMember", ann, top, bob, "guest")}
===========================================================================
