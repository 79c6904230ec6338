----------------------------- MODULE PageAccess -----------------------------
(***************************************************************************)
(* Who may do what with a page: the resolver every service asks            *)
(* (packages/db/src/permissions.ts) and the handlers that change the       *)
(* answer: sharing (apps/api/src/sharing), invitations                     *)
(* (apps/api/src/workspaces/invitations.service.ts) and the one write of a *)
(* page move.  One workspace; its pages are never deleted.                 *)
(*                                                                         *)
(* resolvePageAccess reads the ancestors one query at a time, then the     *)
(* membership, then all the grants, with no transaction: its answer may    *)
(* mix moments.  As in PageTree a handler is a slot that takes one action  *)
(* per query.                                                              *)
(***************************************************************************)
EXTENDS Trees, Naturals, Sequences, FiniteSets

CONSTANTS
  User, Page, Request,
  Everyone,       \* the subject of a grant to the workspace
  Null,           \* no parent, no membership, no grant, no access
  MaxDepth,       \* MAX_ANCESTOR_DEPTH
  Accounts,       \* the users registered at the start
  InitialMember,  \* their workspace roles
  InitialParents, \* bound: the trees a start may have
  InitialGrants,  \* bound: the grants it may have
  Asks,           \* bound: the requests that clients send
  Moves,          \* bound: the page moves, <<page, new parent>>
  MaxRequests,    \* bound: requests served in a behaviour
  MaxMoves        \* bound: page moves in a behaviour

PageRole == {"read", "comment", "edit", "full"}
MemberRole == {"owner", "admin", "member", "guest"}
Subject == User \cup {Everyone}
Grants == [Page -> [Subject -> PageRole \cup {Null}]]

\* A request, and the handler that serves it.
Ask == [op : {"access", "upsert", "remove", "shareInvite", "inviteMember"},
        user : User, page : Page, target : Subject \cup {Null},
        role : PageRole \cup MemberRole \cup {Null}]

ASSUME AccessAssumption ==
  /\ Null \notin Page \cup Subject \cup PageRole \cup MemberRole
  /\ Everyone \notin User
  /\ MaxDepth \in Nat \ {0}
  /\ Accounts \subseteq User
  /\ InitialMember \in [User -> MemberRole \cup {Null}]
  /\ \A u \in User \ Accounts : InitialMember[u] = Null
  /\ InitialParents \subseteq [Page -> Page \cup {Null}]
  /\ \A par \in InitialParents : Acyclic(Page, par)
  /\ InitialGrants \subseteq Grants
  /\ Moves \subseteq Page \X (Page \cup {Null})
  /\ Asks \subseteq Ask
  /\ \A a \in Asks :
       /\ a.op # "access" => a.target \in Subject
       /\ a.op \in {"upsert", "shareInvite"} => a.role \in PageRole
       /\ a.op \in {"shareInvite", "inviteMember"} => a.target \in User
       /\ a.op = "inviteMember" => a.role \in MemberRole
  /\ MaxRequests \in Nat
  /\ MaxMoves \in Nat

VARIABLES
  parent,   \* Page.parentId
  grant,    \* Permission rows: grant[page][subject] is a role or Null
  row,      \* row[page][subject]: how often that row was created, its identity
  member,   \* WorkspaceMember rows: a role or Null
  account,  \* users that have registered
  invited,  \* Invitation rows that wait: <<user, role>>
  aware,    \* <<user, page>>: notified of a grant, or its own author
  req,      \* what each slot's handler holds in its local variables
  held,     \* the roles the resolved user had since the slot's resolution began
  changes,  \* other handlers' writes since then that bear on access
  served, moves

access == <<parent, grant, member>>
store == <<parent, grant, row, member, account, invited, aware>>
ghosts == <<held, changes>>
vars == <<parent, grant, row, member, account, invited, aware, req, held, changes,
          served, moves>>

----------------------------------------------------------------------------
(* Roles. *)

\* ROLE_RANK, with no access below every role.
RoleRank == [read |-> 1, comment |-> 2, edit |-> 3, full |-> 4]
Rank(role) == IF role = Null THEN 0 ELSE RoleRank[role]

Strongest(R) == CHOOSE a \in R : \A b \in R : Rank(b) <= Rank(a)

DefaultRole(m) == IF m \in {"owner", "admin"} THEN "full"
                  ELSE IF m = "member" THEN "edit" ELSE Null

\* The roles granted on page p to u, whose workspace role is m.
Applicable(u, m, p) ==
  {grant[p][s] : s \in {u} \cup (IF m = Null THEN {} ELSE {Everyone})} \ {Null}

\* Slip: the farthest level wins.
ResolveFarthest(u, m, chain) ==
  LET levels == {i \in DOMAIN chain : Applicable(u, m, chain[i]) # {}}
      farthest == CHOOSE i \in levels : \A k \in levels : k <= i
  IN IF levels = {} THEN DefaultRole(m) ELSE Strongest(Applicable(u, m, chain[farthest]))

\* The last part of resolvePageAccess: the nearest level of the chain with a
\* grant that applies decides, the strongest of its grants wins, and without
\* one the workspace role has a default.
Resolve(u, m, chain) ==
  LET levels == {i \in DOMAIN chain : Applicable(u, m, chain[i]) # {}}
      nearest == CHOOSE i \in levels : \A k \in levels : i <= k
  IN IF levels = {} THEN DefaultRole(m) ELSE Strongest(Applicable(u, m, chain[nearest]))

\* Slip: the ranks are not compared.
ShouldWriteGrantAlways(current, asked, explicit) == TRUE

\* share-decision.ts: no grant that is no stronger than what the subject has
\* without one on this very page.
ShouldWriteGrant(current, asked, explicit) ==
  explicit \/ Rank(current) < Rank(asked)

(***************************************************************************)
(* What the resolver promises, without its walk: of the granting pages in  *)
(* the page's lineage, the nearest is the one with all the others above it. *)
(***************************************************************************)
RoleOn(u, p) ==
  LET granting == {q \in Above(Page, parent, p) : Applicable(u, member[u], q) # {}}
      nearest == {q \in granting : granting \subseteq Above(Page, parent, q)}
  IN IF granting = {} THEN DefaultRole(member[u])
     ELSE Strongest(UNION {Applicable(u, member[u], q) : q \in nearest})

----------------------------------------------------------------------------
\* A handler waits at pc for its next query.  ask is the request; who is the
\* user being resolved and goal what the answer is for; chain and cursor are
\* the walk, standing the workspace role read, role the answer; fresh says that
\* no grant existed, found which row was found.
NoAsk == [op |-> "none"]

Idle == [pc |-> "idle", ask |-> NoAsk, who |-> Null, goal |-> "admit", chain |-> <<>>,
         cursor |-> Null, standing |-> Null, role |-> Null, fresh |-> FALSE, found |-> 0]

\* The job of resolving u's access to the page asked about.
Resolution(ask, u, goal, fresh) ==
  [Idle EXCEPT !.pc = "walk", !.ask = ask, !.who = u, !.goal = goal,
               !.cursor = ask.page, !.fresh = fresh]

Init ==
  /\ parent \in InitialParents
  /\ grant \in InitialGrants
  /\ row = [p \in Page |-> [s \in Subject |-> 0]]
  /\ member = InitialMember
  /\ account = Accounts
  /\ invited = {}
  /\ aware = {w \in User \X Page : grant[w[2]][w[1]] # Null}
  /\ req = [r \in Request |-> Idle]
  /\ held = [r \in Request |-> {}]
  /\ changes = [r \in Request |-> 0]
  /\ served = 0
  /\ moves = 0

Goto(r, j) == req' = [req EXCEPT ![r] = j]

\* A step of r's handler that only reads, after which it waits with job j, or
\* has answered.
Read(r, j) == Goto(r, j) /\ UNCHANGED <<store, served, moves>>

----------------------------------------------------------------------------
(* The resolver. *)

Begin(r, ask) ==
  /\ req[r].pc = "idle"
  /\ ask.op # "inviteMember"
  /\ served < MaxRequests
  /\ served' = served + 1
  /\ ask.user \in account
  /\ Goto(r, Resolution(ask, ask.user, "admit", FALSE))
  /\ UNCHANGED <<store, moves>>

\* One turn of the walk: read the node at the cursor and go up, unless there is
\* no parent, it was seen, or the chain is as long as it may be.
Walk(r) ==
  LET j == req[r]
      chain == Append(j.chain, j.cursor)
      up == parent[j.cursor]
      ends == up = Null \/ (\E i \in DOMAIN chain : chain[i] = up) \/ Len(chain) = MaxDepth
  IN /\ j.pc = "walk"
     /\ \/ ~ends /\ Read(r, [j EXCEPT !.chain = chain, !.cursor = up])
        \/ ends /\ Read(r, [j EXCEPT !.chain = chain, !.pc = "standing"])

ReadStanding(r) ==
  LET j == req[r]
  IN /\ j.pc = "standing"
     /\ Read(r, [j EXCEPT !.pc = "grants", !.standing = member[j.who]])

ReadGrants(r) ==
  LET j == req[r]
  IN /\ j.pc = "grants"
     /\ Read(r, [j EXCEPT !.pc = "checked", !.role = Resolve(j.who, j.standing, j.chain)])

\* What the asker's answer lets the handler go on with: access reports it,
\* requireAccess(..., "share") refuses all but canShare.
Admit(r) ==
  LET j == req[r]
      next == IF j.ask.op = "shareInvite" THEN "account"
              ELSE IF j.ask.op = "remove" THEN "find"
              ELSE IF j.ask.target = Everyone THEN "existing" ELSE "subject"
  IN /\ j.pc = "checked"
     /\ j.goal = "admit"
     /\ \/ /\ j.ask.op = "access" \/ j.role # "full"
           /\ Read(r, Idle)
        \/ /\ j.ask.op # "access"
           /\ j.role = "full"
           /\ Read(r, [j EXCEPT !.pc = next])

\* What the invitee's answer lets shareInvite do.
Weigh(r) ==
  LET j == req[r]
      write == ShouldWriteGrant(j.role, j.ask.role, ~j.fresh)
  IN /\ j.pc = "checked"
     /\ j.goal = "weigh"
     /\ \/ write /\ Read(r, [j EXCEPT !.pc = "upsert"])
        \/ ~write /\ Read(r, Idle)

----------------------------------------------------------------------------
(* upsertPermission and removePermission. *)

\* Only members may be granted a page.
ReadSubject(r) ==
  LET j == req[r]
  IN /\ j.pc = "subject"
     /\ \/ /\ member[j.ask.target] # Null
           /\ Read(r, [j EXCEPT !.pc = "existing"])
        \/ /\ member[j.ask.target] = Null
           /\ Read(r, Idle)

\* Is there a grant on this page?  shareInvite resolves the invitee next.
ReadExisting(r) ==
  LET j == req[r]
      fresh == grant[j.ask.page][j.ask.target] = Null
  IN /\ j.pc = "existing"
     /\ \/ /\ j.ask.op = "upsert"
           /\ Read(r, [j EXCEPT !.pc = "upsert", !.fresh = fresh])
        \/ /\ j.ask.op = "shareInvite"
           /\ Read(r, Resolution(j.ask, j.ask.target, "weigh", fresh))

\* Slip: an invitation to a page notifies nobody.
UpsertQuiet(r) ==
  LET j == req[r]
      p == j.ask.page
      t == j.ask.target
      notify == t \in User \ {j.ask.user} /\ j.ask.op = "upsert" /\ j.fresh
  IN /\ j.pc = "upsert"
     /\ grant' = [grant EXCEPT ![p][t] = j.ask.role]
     /\ row' = IF grant[p][t] = Null THEN [row EXCEPT ![p][t] = @ + 1] ELSE row
     /\ aware' = IF t = j.ask.user THEN aware \cup {<<t, p>>} ELSE aware
     /\ Goto(r, IF notify THEN [j EXCEPT !.pc = "notify"] ELSE Idle)
     /\ UNCHANGED <<parent, member, account, invited, served, moves>>

\* prisma.permission.upsert: create the row or change its role.  A grant to
\* somebody else is notified, by upsertPermission only when none existed.
Upsert(r) ==
  LET j == req[r]
      p == j.ask.page
      t == j.ask.target
      notify == t \in User \ {j.ask.user} /\ (j.ask.op = "upsert" => j.fresh)
  IN /\ j.pc = "upsert"
     /\ grant' = [grant EXCEPT ![p][t] = j.ask.role]
     /\ row' = IF grant[p][t] = Null THEN [row EXCEPT ![p][t] = @ + 1] ELSE row
     /\ aware' = IF t = j.ask.user THEN aware \cup {<<t, p>>} ELSE aware
     /\ Goto(r, IF notify THEN [j EXCEPT !.pc = "notify"] ELSE Idle)
     /\ UNCHANGED <<parent, member, account, invited, served, moves>>

Notify(r) ==
  LET j == req[r]
  IN /\ j.pc = "notify"
     /\ aware' = aware \cup {<<j.ask.target, j.ask.page>>}
     /\ Goto(r, Idle)
     /\ UNCHANGED <<parent, grant, row, member, account, invited, served, moves>>

\* The grant asked to be removed is a row of this page, or 404.
Find(r) ==
  LET j == req[r]
      p == j.ask.page
      t == j.ask.target
  IN /\ j.pc = "find"
     /\ \/ /\ grant[p][t] # Null
           /\ Read(r, [j EXCEPT !.pc = "delete", !.found = row[p][t]])
        \/ /\ grant[p][t] = Null
           /\ Read(r, Idle)

\* prisma.permission.delete fails when that row is gone.
Delete(r) ==
  LET j == req[r]
      p == j.ask.page
      t == j.ask.target
      gone == grant[p][t] = Null \/ row[p][t] # j.found
  IN /\ j.pc = "delete"
     /\ grant' = IF gone THEN grant ELSE [grant EXCEPT ![p][t] = Null]
     /\ Goto(r, Idle)
     /\ UNCHANGED <<parent, row, member, account, invited, aware, served, moves>>

----------------------------------------------------------------------------
(* shareInvite, and the invitations of a workspace. *)

\* Is there a user with that address, and is the user a member?
ReadAccount(r) ==
  LET j == req[r]
      next == IF j.ask.target \in account THEN "enrol" ELSE "invite"
  IN /\ j.pc = "account"
     /\ Read(r, [j EXCEPT !.pc = next])

ReadMember(r) ==
  LET j == req[r]
      next == IF member[j.ask.target] = Null THEN "join" ELSE "existing"
  IN /\ j.pc = "enrol"
     /\ Read(r, [j EXCEPT !.pc = next])

\* workspaceMember.create: it fails when the user has become a member since.
Join(r) ==
  LET j == req[r]
      t == j.ask.target
  IN /\ j.pc = "join"
     /\ \/ /\ member[t] = Null
           /\ member' = [member EXCEPT ![t] = "guest"]
           /\ Goto(r, [j EXCEPT !.pc = "existing"])
        \/ /\ member[t] # Null
           /\ member' = member
           /\ Goto(r, Idle)
     /\ UNCHANGED <<parent, grant, row, account, invited, aware, served, moves>>

\* No account: invitations.invite, which asks for a workspace role of its own.
Invite(r) ==
  LET j == req[r]
  IN /\ j.pc = "invite"
     /\ invited' = IF member[j.ask.user] \in {"owner", "admin"}
                   THEN invited \cup {<<j.ask.target, "guest">>} ELSE invited
     /\ Goto(r, Idle)
     /\ UNCHANGED <<parent, grant, row, member, account, aware, served, moves>>

\* invitations.invite: the role check and the row (a member's role never
\* changes, so the two queries are one step).  INVITABLE_ROLES has no owner.
InviteMember(ask) ==
  /\ ask.op = "inviteMember"
  /\ served < MaxRequests
  /\ served' = served + 1
  /\ member[ask.user] \in {"owner", "admin"}
  /\ ask.role # "owner"
  /\ invited' = invited \cup {<<ask.target, ask.role>>}
  /\ UNCHANGED <<parent, grant, row, member, account, aware, req, moves>>

\* accept: one transaction upserts the membership (an existing one is left as
\* it is) and marks the invitation.
Accept(v, role) ==
  /\ <<v, role>> \in invited
  /\ v \in account
  /\ invited' = invited \ {<<v, role>>}
  /\ member' = [member EXCEPT ![v] = IF @ = Null THEN role ELSE @]
  /\ UNCHANGED <<parent, grant, row, account, aware, req, served, moves>>

\* A person signs up.
Register(u) ==
  /\ u \notin account
  /\ account' = account \cup {u}
  /\ UNCHANGED <<parent, grant, row, member, invited, aware, req, served, moves>>

\* The write of a page move (PageTree!MovePlace, whose cycle guard has passed).
Move(p, q) ==
  /\ moves < MaxMoves
  /\ moves' = moves + 1
  /\ parent' = [parent EXCEPT ![p] = q]
  /\ Acyclic(Page, parent')
  /\ UNCHANGED <<grant, row, member, account, invited, aware, req, served>>

----------------------------------------------------------------------------
Step(r) ==
  \/ Walk(r) \/ ReadStanding(r) \/ ReadGrants(r) \/ Admit(r) \/ Weigh(r)
  \/ ReadSubject(r) \/ ReadExisting(r) \/ Upsert(r) \/ Notify(r)
  \/ Find(r) \/ Delete(r)
  \/ ReadAccount(r) \/ ReadMember(r) \/ Join(r) \/ Invite(r)

Act ==
  \/ \E r \in Request, ask \in Asks : Begin(r, ask)
  \/ \E r \in Request : Step(r)
  \/ \E ask \in Asks : InviteMember(ask)
  \/ \E v \in User, role \in MemberRole : Accept(v, role)
  \/ \E u \in User : Register(u)
  \/ \E m \in Moves : Move(m[1], m[2])

\* The ghosts: a slot's watch starts when its resolution does, and ends when
\* the answer has been used.
Starts(r) == req'[r] # req[r] /\ req'[r].pc = "walk" /\ req'[r].chain = <<>>
Watched(r) == req'[r].pc \in {"walk", "standing", "grants", "checked", "upsert"}

Watch ==
  /\ held' = [r \in Request |->
       IF ~Watched(r) THEN {}
       ELSE (IF Starts(r) THEN {} ELSE held[r])
              \cup {RoleOn(w[1], w[2])' : w \in {<<req'[r].who, req'[r].ask.page>>}}]
  /\ changes' = [r \in Request |->
       IF ~Watched(r) \/ Starts(r) THEN 0
       ELSE IF access' # access /\ changes[r] < 2 THEN changes[r] + 1 ELSE changes[r]]

Next == Act /\ Watch

Spec == Init /\ [][Next]_vars

----------------------------------------------------------------------------
\* "The NEAREST level with any matching grant wins; within that level, the most
\* permissive grant wins": the answer of a resolution during which at most one
\* write changed the tree, the grants or the memberships is a role that the user
\* had at some moment of it.  (With two writes it may be one the user never had.)
AnswerWasTrue ==
  \A r \in Request :
    req[r].pc = "checked" /\ changes[r] <= 1 => req[r].role \in held[r]

NeverLowers(u) == \A p \in Page : Rank(RoleOn(u, p)) <= Rank(RoleOn(u, p)')

\* r's handler writes the first grant that u has on the page.
FirstGrant(r, op, u) ==
  /\ req[r].pc = "upsert" /\ req[r].ask.op = op /\ req[r].fresh
  /\ req[r].ask.target = u
  /\ req'[r] # req[r]

\* "No-downgrade guard": sharing a page by address with somebody who had no
\* grant on it never takes a right away, on that page or on any page below it,
\* when no other write came between the check and the grant; and "an existing
\* member keeps their role", whatever invitations and shares race to enrol the
\* same person.
InviteNeverLowers ==
  [][\A u \in User :
       /\ \A r \in Request : FirstGrant(r, "shareInvite", u) /\ changes[r] = 0 => NeverLowers(u)
       /\ member[u] # Null => member'[u] = member[u]]_vars

\* The same of upsertPermission, which share-decision.ts names too: "share-invite
\* (and an upsert) would write an explicit page grant for a subject who ALREADY
\* resolves to an equal-or-higher role".
UpsertNeverLowers ==
  [][\A r \in Request, u \in User :
       FirstGrant(r, "upsert", u) /\ changes[r] = 0 => NeverLowers(u)]_vars

\* "Notify a user the first time they are granted access": who holds a grant on
\* a page made it, has been notified of one there, or is about to be.
GrantedAreTold ==
  \A u \in User, p \in Page :
    grant[p][u] # Null =>
      \/ <<u, p>> \in aware
      \/ \E r \in Request : /\ req[r].pc = "notify"
                            /\ req[r].ask.target = u
                            /\ req[r].ask.page = p
=============================================================================
