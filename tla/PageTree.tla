------------------------------ MODULE PageTree ------------------------------
(***************************************************************************)
(* The page tree of a workspace server: apps/api/src/pages/pages.service.ts *)
(* (create, move, archive, restore) and apps/api/src/publishing/          *)
(* import.service.ts.                                                      *)
(*                                                                         *)
(* Every handler is an asynchronous function that reads the database one   *)
(* query at a time and writes at the end; no transaction spans the reads   *)
(* and the write.  A handler is therefore a request slot that takes one    *)
(* action per query, and the slots interleave.  Reads of data that never   *)
(* changes (a page's workspace; pages are never deleted) are folded into   *)
(* the step that uses them.  A request refused by the access check ends    *)
(* without a write, so only requests that pass it are modelled; the check  *)
(* itself is module PageAccess.                                            *)
(***************************************************************************)
EXTENDS SortKey, Trees, FiniteSets

CONSTANTS
  Page,          \* page ids, the allocated and the fresh ones
  Workspace,
  Request,       \* request slots: how many handlers may be in flight
  InitialPages,  \* bound: the sets of pages a start may have, all in HomeWorkspace
  InitialKeys,   \* their sort keys (ties happen: imported roots share one)
  HomeWorkspace,
  MaxRequests    \* bound: requests served in a behaviour

ASSUME InitialAssumption ==
  /\ InitialPages \subseteq SUBSET Page
  /\ InitialKeys \in [Page -> Int]
  /\ HomeWorkspace \in Workspace
  /\ Null \notin Page
  /\ MaxRequests \in Nat

VARIABLES
  pages,      \* rows of the Page table
  home,       \* Page.workspaceId
  parent,     \* Page.parentId
  archived,   \* the pages whose archivedAt is set
  sortKey,    \* Page.sortKey
  req,        \* what each slot's handler holds in its local variables
  overtaken,  \* slots during whose request another request wrote the tree
  outrun,     \* slots during whose move another move gave a page a new parent
  raced,      \* whether a move of such a slot gave a page a new parent
  served      \* requests begun, up to MaxRequests

tree == <<pages, home, parent, archived, sortKey>>
races == <<outrun, raced>>
vars == <<pages, home, parent, archived, sortKey, req, overtaken, races, served>>

MaybePage == Page \cup {Null}

\* A handler waits at pc for its next query.  id is the page it works on, dest
\* the parent it will write (move) or has read (restore); cursor and seen are
\* the ancestor walk; frontier and ids the breadth-first search; key the sort
\* key it will write; anchor the beforeId/afterId of a move.
PC == {"idle", "create", "walk", "siblings", "place", "children", "ancestors",
       "archive", "restore", "import"}

Goal == {"none", "create", "move", "archive", "restore", "import"}

Anchor == [side : {"end", "before", "after"}, page : MaybePage]
AtEnd == [side |-> "end", page |-> Null]

Job == [pc : PC, goal : Goal, home : Workspace, id : MaybePage, dest : MaybePage,
        cursor : MaybePage, seen : SUBSET Page, frontier : SUBSET Page,
        ids : SUBSET Page, key : MaybeKey, anchor : Anchor]

Idle == [pc |-> "idle", goal |-> "none", home |-> HomeWorkspace, id |-> Null,
         dest |-> Null, cursor |-> Null, seen |-> {}, frontier |-> {},
         ids |-> {}, key |-> Null, anchor |-> AtEnd]

----------------------------------------------------------------------------
\* The page and all of its descendants; the page and all of its ancestors.
Subtree(p) == Below(pages, parent, p)
Lineage(p) == Above(pages, parent, p)

Children(F) == {q \in pages : parent[q] \in F}

\* The siblings() query: other pages of the workspace under the parent,
\* archived ones included.
Siblings(w, p, x) == {q \in pages \ {x} : home[q] = w /\ parent[q] = p}

----------------------------------------------------------------------------
\* Any forest of the initial pages with any of them archived: a history of
\* creates, moves, archives and restores makes each of these.
Init ==
  /\ pages \in InitialPages
  /\ home = [p \in Page |-> HomeWorkspace]
  /\ parent \in [Page -> pages \cup {Null}]
  /\ \A p \in Page \ pages : parent[p] = Null
  /\ Acyclic(pages, parent)
  /\ archived \in SUBSET pages
  /\ sortKey = InitialKeys
  /\ req = [r \in Request |-> Idle]
  /\ overtaken = {}
  /\ outrun = {} /\ raced = FALSE
  /\ served = 0

\* A slot may take a request.
Free(r) == req[r].pc = "idle" /\ served < MaxRequests

\* A free slot takes one: its handler's first query leaves the record j.
Begin(r, j) ==
  /\ served' = served + 1
  /\ req' = [req EXCEPT ![r] = j]
  /\ overtaken' = overtaken \ {r}
  /\ outrun' = outrun \ {r} /\ UNCHANGED raced

\* A read-only step of r's handler.
Continue(r, j) ==
  /\ req' = [req EXCEPT ![r] = j]
  /\ UNCHANGED <<tree, overtaken, races, served>>

\* r's handler has written: every other request in flight is overtaken.
Overtakes(r, j) ==
  /\ req' = [req EXCEPT ![r] = j]
  /\ overtaken' = overtaken \cup {q \in Request \ {r} : req[q].pc # "idle"}
  /\ UNCHANGED served
Wrote(r, j) == Overtakes(r, j) /\ UNCHANGED races

----------------------------------------------------------------------------
(* create: the parent must be in the page's workspace; a fresh page goes   *)
(* last among its siblings.  The parent may be archived: nobody asks.      *)

\* Page is finite, the ids of the program are not: a create or an import takes
\* an id only while enough are left for the creates under way.
Spare == Cardinality(Page \ pages) > Cardinality({q \in Request : req[q].pc = "create"})

CreateRead(r, w, p) ==
  /\ Spare
  /\ p # Null => home[p] = w
  /\ \E k \in SortKeys(Siblings(w, p, Null), sortKey, AtEnd) :
       Begin(r, [Idle EXCEPT !.pc = "create", !.goal = "create", !.home = w,
                             !.dest = p, !.key = k])
  /\ UNCHANGED tree

\* prisma.page.create with a fresh id.
Insert(id, w, p, k) ==
  /\ id \in Page \ pages
  /\ pages' = pages \cup {id}
  /\ home' = [home EXCEPT ![id] = w]
  /\ parent' = [parent EXCEPT ![id] = p]
  /\ sortKey' = [sortKey EXCEPT ![id] = k]
  /\ UNCHANGED archived

CreateInsert(r, id) ==
  /\ req[r].pc = "create"
  /\ Insert(id, req[r].home, req[r].dest, req[r].key)
  /\ Wrote(r, Idle)

----------------------------------------------------------------------------
(* move: load the page (its parent is the default target), check the       *)
(* target's workspace, walk up from the target looking for the page, read  *)
(* the siblings, compute the key, write parent and key.                    *)

\* A move to the root skips the cycle guard.
AfterLoad(p) == IF p = Null THEN "siblings" ELSE "walk"

\* Slips that the properties must notice (see the mutants): the target's
\* workspace is not compared; the siblings are never read, so no key is computed.
MoveBeginAnyWorkspace(r, id, p) ==
  /\ p # id
  /\ Begin(r, [Idle EXCEPT !.pc = AfterLoad(p),
                           !.goal = "move", !.home = home[id], !.id = id,
                           !.dest = p, !.cursor = p])
  /\ UNCHANGED tree

MoveBeginNoKey(r, id, p) ==
  /\ p # Null => home[p] = home[id]
  /\ p # id
  /\ Begin(r, [Idle EXCEPT !.pc = IF p = Null THEN "place" ELSE "walk",
                           !.goal = "move", !.home = home[id], !.id = id,
                           !.dest = p, !.cursor = p])
  /\ UNCHANGED tree

MoveBegin(r, id, p) ==
  /\ p # Null => home[p] = home[id]  \* else 400
  /\ p # id                          \* else 409
  /\ Begin(r, [Idle EXCEPT !.pc = AfterLoad(p),
                           !.goal = "move", !.home = home[id], !.id = id,
                           !.dest = p, !.cursor = p])
  /\ UNCHANGED tree

\* Slip: only the target's own parent is compared.
MoveWalkOnce(r) ==
  LET j == req[r]
  IN /\ j.pc = "walk"
     /\ \/ /\ parent[j.cursor] = j.id
           /\ Continue(r, Idle)
        \/ /\ parent[j.cursor] # j.id
           /\ Continue(r, [j EXCEPT !.pc = "siblings"])

\* One turn of isSelfOrDescendant: read the parent of the cursor, then either
\* reach the page (409), or leave the loop at a root or a page seen before.
MoveWalk(r) ==
  LET j == req[r]
      up == parent[j.cursor]
      seen == j.seen \cup {j.cursor}
  IN /\ j.pc = "walk"
     /\ \/ /\ up = j.id
           /\ Continue(r, Idle)
        \/ /\ up \notin seen \cup {j.id, Null}
           /\ Continue(r, [j EXCEPT !.seen = seen, !.cursor = up])
        \/ /\ up # j.id
           /\ up \in seen \cup {Null}
           /\ Continue(r, [j EXCEPT !.pc = "siblings", !.seen = seen, !.cursor = up])

\* The anchor is part of the request; it is first used here, so choosing it
\* here is choosing it at the start.  computeSortKey may throw: 400.
MoveSiblings(r, anchor) ==
  LET j == req[r]
      S == Siblings(j.home, j.dest, j.id)
  IN /\ j.pc = "siblings"
     /\ \/ \E k \in SortKeys(S, sortKey, anchor) :
             Continue(r, [j EXCEPT !.pc = "place", !.key = k, !.anchor = anchor])
        \/ /\ SortKeyThrows(S, sortKey, anchor)
           /\ Continue(r, Idle)

\* The write gives the page a new parent: it is neither a move to the root nor
\* one among its siblings.
Moving == {"walk", "siblings", "place"}
Adopts(j) == j.dest \notin {Null, parent[j.id]}

MovePlace(r) ==
  LET j == req[r]
  IN /\ j.pc = "place"
     /\ parent' = [parent EXCEPT ![j.id] = j.dest]
     /\ sortKey' = [sortKey EXCEPT ![j.id] = j.key]
     /\ outrun' = outrun \cup {q \in Request \ {r} : Adopts(j) /\ req[q].pc \in Moving}
     /\ raced' = (raced \/ (Adopts(j) /\ r \in outrun))
     /\ UNCHANGED <<pages, home, archived>>
     /\ Overtakes(r, Idle)

----------------------------------------------------------------------------
(* archive and restore: a breadth-first search without a visited set, then *)
(* for restore a walk over the ancestors, then one updateMany.             *)

CascadeBegin(r, goal, id) ==
  /\ Begin(r, [Idle EXCEPT !.pc = "children", !.goal = goal, !.id = id,
                           !.dest = parent[id], !.frontier = {id}, !.ids = {id}])
  /\ UNCHANGED tree

AfterClimb(up) == IF up = Null THEN "restore" ELSE "ancestors"
AfterSearch(goal, up) == IF goal = "archive" THEN "archive" ELSE AfterClimb(up)

\* Slips: the search stops below the direct children; the frontier keeps the
\* levels already expanded.
ReadChildrenOnce(r) ==
  LET j == req[r]
      after == AfterSearch(j.goal, j.dest)
  IN /\ j.pc = "children"
     /\ Continue(r, [j EXCEPT !.pc = after, !.ids = @ \cup Children(j.frontier),
                              !.cursor = j.dest, !.seen = {j.id}])

ReadChildrenAgain(r) ==
  LET j == req[r]
      next == Children(j.frontier)
      after == AfterSearch(j.goal, j.dest)
  IN /\ j.pc = "children"
     /\ \/ /\ next # {}
           /\ Continue(r, [j EXCEPT !.frontier = @ \cup next, !.ids = @ \cup next])
        \/ /\ next = {}
           /\ Continue(r, [j EXCEPT !.pc = after, !.frontier = {},
                                    !.cursor = j.dest, !.seen = {j.id}])

\* One turn of subtreeIds; it ends when a level has no children.
ReadChildren(r) ==
  LET j == req[r]
      next == Children(j.frontier)
      after == AfterSearch(j.goal, j.dest)
  IN /\ j.pc = "children"
     /\ \/ /\ next # {}
           /\ Continue(r, [j EXCEPT !.frontier = next, !.ids = @ \cup next])
        \/ /\ next = {}
           /\ Continue(r, [j EXCEPT !.pc = after, !.frontier = {},
                                    !.cursor = j.dest, !.seen = {j.id}])

\* Slip: the walk stops at the first live ancestor.
ReadAncestorUntilLive(r) ==
  LET j == req[r]
      up == parent[j.cursor]
  IN /\ j.pc = "ancestors"
     /\ \/ /\ j.cursor \notin archived
           /\ Continue(r, [j EXCEPT !.pc = "restore"])
        \/ /\ j.cursor \in archived
           /\ Continue(r, [j EXCEPT !.pc = AfterClimb(up),
                                    !.ids = @ \cup {j.cursor}, !.cursor = up])

\* One turn of restore's walk, which starts at the parent the page had when it
\* was loaded: collect the ancestor if it is archived, and go up.
ReadAncestor(r) ==
  LET j == req[r]
      up == parent[j.cursor]
      seen == j.seen \cup {j.cursor}
      ids == j.ids \cup ({j.cursor} \cap archived)
  IN /\ j.pc = "ancestors"
     /\ \/ /\ j.cursor \in j.seen
           /\ Continue(r, [j EXCEPT !.pc = "restore"])
        \/ /\ j.cursor \notin j.seen
           /\ Continue(r, [j EXCEPT !.pc = AfterClimb(up),
                                    !.seen = seen, !.ids = ids, !.cursor = up])

ArchiveWrite(r) ==
  /\ req[r].pc = "archive"
  /\ archived' = archived \cup req[r].ids
  /\ UNCHANGED <<pages, home, parent, sortKey>>
  /\ Wrote(r, Idle)

RestoreWrite(r) ==
  /\ req[r].pc = "restore"
  /\ archived' = archived \ req[r].ids
  /\ UNCHANGED <<pages, home, parent, sortKey>>
  /\ Wrote(r, Idle)

----------------------------------------------------------------------------
(* import: a root page whose key is generateKeyBetween(null, null) whatever *)
(* the roots there are, then its children from left to right, one create   *)
(* at a time.                                                              *)

ImportRoot(r, w, id) ==
  /\ Spare
  /\ served' = served + 1
  /\ Insert(id, w, Null, KeyBetween(Null, Null))
  /\ req' = [req EXCEPT ![r] = [Idle EXCEPT !.pc = "import", !.goal = "import",
                                            !.home = w, !.id = id]]
  /\ overtaken' = (overtaken \ {r}) \cup {q \in Request \ {r} : req[q].pc # "idle"}
  /\ outrun' = outrun \ {r} /\ UNCHANGED raced

ImportChild(r, id) ==
  LET key == KeyBetween(req[r].key, Null)
  IN /\ req[r].pc = "import"
     /\ Spare
     /\ Insert(id, req[r].home, req[r].id, key)
     /\ Wrote(r, [req[r] EXCEPT !.key = key])

ImportDone(r) ==
  /\ req[r].pc = "import"
  /\ Continue(r, Idle)

----------------------------------------------------------------------------
Anchors == [side : {"before", "after"}, page : pages] \cup {AtEnd}

Take(r) ==
  /\ Free(r)
  /\ \/ \E w \in Workspace, p \in pages \cup {Null} : CreateRead(r, w, p)
     \/ \E id \in pages, p \in pages \cup {Null} : MoveBegin(r, id, p)
     \/ \E goal \in {"archive", "restore"}, id \in pages : CascadeBegin(r, goal, id)
     \/ \E w \in Workspace, id \in Page : ImportRoot(r, w, id)

Step(r) ==
  \/ \E id \in Page : CreateInsert(r, id)
  \/ MoveWalk(r)
  \/ \E anchor \in Anchors : MoveSiblings(r, anchor)
  \/ MovePlace(r)
  \/ ReadChildren(r)
  \/ ReadAncestor(r)
  \/ ArchiveWrite(r)
  \/ RestoreWrite(r)
  \/ \E id \in Page : ImportChild(r, id)
  \/ ImportDone(r)

Next == \E r \in Request : Take(r) \/ Step(r)

\* A handler that has begun is run to its end: the event loop resumes it when
\* its query answers.  Nothing makes a client send a request.
Fairness == \A r \in Request : WF_vars(Step(r))

Spec == Init /\ [][Next]_vars
FairSpec == Spec /\ Fairness

----------------------------------------------------------------------------
TypeOK ==
  /\ pages \subseteq Page
  /\ home \in [Page -> Workspace]
  /\ parent \in [Page -> MaybePage]
  /\ archived \subseteq Page
  /\ sortKey \in [Page -> Int]
  /\ req \in [Request -> Job]
  /\ overtaken \subseteq Request
  /\ outrun \subseteq Request /\ raced \in BOOLEAN
  /\ served \in Nat

\* move's "Cycle guard: cannot move a page under itself or one of its
\* descendants": no move makes a page its own ancestor.  The guard reads the
\* tree one query at a time and no lock is held until the write, so two moves
\* that run at once break this.
NoCycles == Acyclic(pages, parent)

\* What the guard does keep: the tree is a forest, whatever creates, imports,
\* archives, restores, moves to the root, moves among siblings and moves from
\* elsewhere go on during its walk, until a move gives a page a new parent
\* although another did so since its own request began.
Forest == ~raced => NoCycles

\* No edge crosses workspaces: create and move compare the workspaces once, at
\* the start of the request, and write the edge much later.
EdgesStayHome ==
  \A p \in pages : parent[p] # Null => parent[p] \in pages /\ home[parent[p]] = home[p]

Writes(r, pc) == req[r].pc = pc /\ req'[r].pc = "idle"

\* "archive the page and cascade archived state to all descendants": when no
\* other request wrote the tree meanwhile, the level-by-level search has found
\* every descendant by the time archivedAt is written.
ArchiveCascades ==
  [][\A r \in Request \ overtaken :
       Writes(r, "archive") => Subtree(req[r].id) \subseteq archived']_vars

\* "Un-archive archived ancestors so the restored page is reachable in the
\* tree": with no other write meanwhile, the page, everything below it and
\* everything above it is live when restore answers.
RestoreReaches ==
  [][\A r \in Request \ overtaken :
       Writes(r, "restore") =>
         (Subtree(req[r].id) \cup Lineage(req[r].id)) \cap archived' = {}]_vars

\* A move that no other write overtook puts the page where it was asked: right
\* after the beforeId sibling, right before the afterId sibling, or last, with
\* a key no sibling has.
MovePlacesAsAsked ==
  [][\A r \in Request \ overtaken :
       Writes(r, "place") =>
         LET j == req[r]
             key == sortKey'[j.id]
             others == KeysOf(Siblings(j.home, j.dest, j.id), sortKey)
             at == j.anchor.page
         IN /\ key \notin others
            /\ j.anchor.side = "end" => \A k \in others : k < key
            /\ j.anchor.side = "before" =>
                 sortKey[at] < key /\ \A k \in others : k > sortKey[at] => k > key
            /\ j.anchor.side = "after" =>
                 key < sortKey[at] /\ \A k \in others : k < sortKey[at] => k < key]_vars

\* Every handler answers: the ancestor walks and the search end, whatever the
\* other requests do to the tree under them, unless racing moves tied it into a
\* cycle, in which the search goes round for ever.
EveryRequestEnds ==
  \A r \in Request : req[r].pc # "idle" ~> req[r].pc = "idle" \/ ~NoCycles
=============================================================================
