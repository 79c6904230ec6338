--------------------------- MODULE PageTreeProofs ---------------------------
(***************************************************************************)
(* Proofs about the page tree, for any pages, workspaces and requests.     *)
(*                                                                         *)
(* The argument.  What a handler read stays true of the tree until it      *)
(* writes, for one of two reasons: the fact is stable (a page never leaves *)
(* its workspace, rows are never deleted), or nobody changed it meanwhile, *)
(* or so much that the fact is lost.  HeldOK states the facts of the first *)
(* kind and gives EdgesStayHome.  GuardOK holds of a move until another    *)
(* gives a page a new parent, however many run: a move to the root only    *)
(* shortens the way up.  It gives Forest.  SearchOK and ClimbOK hold of    *)
(* requests that no other write overtook, and give ArchiveCascades and     *)
(* RestoreReaches; so does PlacedOK, which gives MovePlacesAsAsked.        *)
(***************************************************************************)
EXTENDS PageTree, TLAPS

\* What the handler of a job holds about workspaces and existing pages.
HeldOK(j) ==
  /\ j.pc = "create" =>
       /\ j.key \in Int
       /\ j.dest # Null => j.dest \in pages /\ home[j.dest] = j.home
  /\ j.pc \in {"walk", "siblings", "place"} =>
       /\ j.id \in pages
       /\ j.home = home[j.id]
       /\ j.dest # Null => j.dest \in pages /\ home[j.dest] = j.home
  /\ j.pc = "import" => j.id \in pages /\ home[j.id] = j.home
  /\ j.pc \in {"children", "ancestors", "archive", "restore"} => j.id \in pages
  /\ j.pc \in {"walk", "ancestors"} => j.cursor \in pages
  /\ j.pc = "place" => j.key \in Int
  /\ j.pc = "children" => j.dest = Null \/ j.dest \in pages

\* What is kept for the sake of the properties.
Bookkept ==
  /\ overtaken \subseteq Request /\ outrun \subseteq Request
  /\ raced \in BOOLEAN /\ served \in Nat

HomeInv == TypeOK /\ EdgesStayHome /\ \A r \in Request : HeldOK(req[r])

\* The walk of isSelfOrDescendant: the pages seen lead to the cursor or end at
\* a root, the page to be moved is not among them, and the target is.
GuardOK(j) ==
  /\ j.pc = "walk" =>
       /\ j.seen \subseteq pages
       /\ j.id \notin j.seen \cup {j.cursor}
       /\ j.dest \in j.seen \cup {j.cursor}
       /\ \A p \in j.seen : parent[p] \in j.seen \cup {j.cursor, Null}
  /\ j.pc \in {"siblings", "place"} /\ j.dest # Null =>
       /\ j.seen \subseteq pages
       /\ j.id \notin j.seen
       /\ j.dest \in j.seen
       /\ \A p \in j.seen : parent[p] \in j.seen \cup {Null}

MoverInv == Forest /\ \A r \in Request \ outrun : GuardOK(req[r])

\* The breadth-first search of a request: children of an expanded page are in.
SearchOK(j) ==
  /\ j.pc = "children" =>
       /\ j.id \in j.ids
       /\ j.dest = parent[j.id]
       /\ \A c \in pages : parent[c] \in j.ids \ j.frontier => c \in j.ids
  /\ j.pc \in {"archive", "ancestors", "restore"} => Subtree(j.id) \subseteq j.ids

\* restore's walk: the pages seen lead to the cursor, and the archived ones
\* among them are collected.
ClimbOK(j) ==
  /\ j.pc = "ancestors" =>
       /\ j.id \in j.seen
       /\ j.seen \cap archived \subseteq j.ids
       /\ \A p \in j.seen : parent[p] \in j.seen \cup {j.cursor}
  /\ j.pc = "restore" =>
       /\ j.id \in j.seen
       /\ j.seen \cap archived \subseteq j.ids
       /\ \A p \in j.seen : parent[p] \in j.seen \cup {Null}

CascadeInv == \A r \in Request \ overtaken : SearchOK(req[r]) /\ ClimbOK(req[r])

\* Key k among the siblings S with keys key[_], where the anchor asked for it.
Beside(k, S, key, anchor) ==
  /\ k \notin KeysOf(S, key)
  /\ anchor.side = "end" => \A o \in KeysOf(S, key) : o < k
  /\ anchor.side = "before" =>
       /\ key[anchor.page] < k
       /\ \A o \in KeysOf(S, key) : o > key[anchor.page] => o > k
  /\ anchor.side = "after" =>
       /\ k < key[anchor.page]
       /\ \A o \in KeysOf(S, key) : o < key[anchor.page] => o < k

\* What a move holds when it is about to write.
PlacedOK(j) ==
  j.pc = "place" => Beside(j.key, Siblings(j.home, j.dest, j.id), sortKey, j.anchor)

PlaceInv == \A r \in Request \ overtaken : PlacedOK(req[r])

\* There is a key between any two different keys of siblings: the library's
\* keys are strings, of which it always finds one, where the model's are
\* integers that a run keeps far enough apart (KeyUnit).
Roomy ==
  \A p, q \in pages :
    /\ home[p] = home[q]
    /\ parent[p] = parent[q]
    /\ sortKey[p] < sortKey[q]
    => sortKey[q] - sortKey[p] > 1

----------------------------------------------------------------------------
(* Sort keys. *)

\* generateKeyBetween returns a key for any two bounds.
LEMMA KeyBetweenType ==
  ASSUME NEW l \in MaybeKey, NEW u \in MaybeKey
  PROVE  KeyBetween(l, u) \in Int
<1>1. KeyUnit \in Nat \ {0}
  BY KeyUnitAssumption
<1>2. \A k \in Int : NextUnit(k) \in Int /\ PrevUnit(k) \in Int
  BY <1>1 DEF NextUnit, PrevUnit
<1>3. \A a, b \in Int : (a + b) \div 2 \in Int
  OBVIOUS
<1> QED
  BY <1>2, <1>3, NullAssumption DEF KeyBetween, MaybeKey

\* computeSortKey returns a key, whatever the siblings and the anchor.
LEMMA SortKeysType ==
  ASSUME NEW S \in SUBSET Page, NEW key \in [Page -> Int], NEW anchor \in Anchor
  PROVE  SortKeys(S, key, anchor) \subseteq Int
<1>1. Bounds(S, key, anchor) \subseteq MaybeKey \X MaybeKey
  <2>1. \A K \in SUBSET Int : Highest(K) \subseteq MaybeKey /\ Lowest(K) \subseteq MaybeKey
    BY DEF Highest, Lowest, MaybeKey
  <2>2. KeysOf(S, key) \subseteq Int
    BY DEF KeysOf
  <2>3. ASSUME NEW a \in S
        PROVE  /\ key[a] \in MaybeKey
               /\ NextKeys(S, key, a) \subseteq MaybeKey
               /\ PrevKeys(S, key, a) \subseteq MaybeKey
    <3>1. Ties(S, key, a) \subseteq MaybeKey
      BY DEF Ties, MaybeKey
    <3>2. /\ {k \in KeysOf(S, key) : k > key[a]} \in SUBSET Int
          /\ {k \in KeysOf(S, key) : k < key[a]} \in SUBSET Int
      BY <2>2
    <3> QED
      BY <2>1, <3>1, <3>2 DEF NextKeys, PrevKeys, MaybeKey
  <2> QED
    BY <2>1, <2>2, <2>3 DEF Bounds, MaybeKey
<1> QED
  BY <1>1, KeyBetweenType DEF SortKeys

\* The next integer part is above a key, the previous one below it.
LEMMA UnitsAround ==
  ASSUME NEW k \in Int
  PROVE  NextUnit(k) \in Int /\ PrevUnit(k) \in Int /\ k < NextUnit(k) /\ PrevUnit(k) < k
<1>1. KeyUnit \in Nat \ {0}
  BY KeyUnitAssumption
<1>2. ASSUME NEW n \in Int
      PROVE  /\ n \div KeyUnit \in Int
             /\ (n \div KeyUnit) * KeyUnit <= n
             /\ n < ((n \div KeyUnit) + 1) * KeyUnit
  BY <1>1
<1> QED
  BY <1>1, <1>2 DEF NextUnit, PrevUnit

\* generateKeyBetween returns a key strictly between its bounds.
LEMMA KeyBetweenBounds ==
  ASSUME NEW l \in MaybeKey, NEW u \in MaybeKey,
         l \in Int /\ u \in Int => u - l > 1
  PROVE  /\ l \in Int => l < KeyBetween(l, u)
         /\ u \in Int => KeyBetween(l, u) < u
<1>1. ASSUME l \in Int, u \in Int
      PROVE  l < (l + u) \div 2 /\ (l + u) \div 2 < u
  BY <1>1
<1> QED
  BY <1>1, UnitsAround, NullAssumption DEF KeyBetween, MaybeKey

\* computeSortKey returns a key that no sibling has, on the side of the anchor
\* that was asked for, with no sibling in between.
LEMMA SortKeysBeside ==
  ASSUME NEW S \in SUBSET Page, NEW key \in [Page -> Int], NEW anchor \in Anchor,
         \A p, q \in S : key[p] < key[q] => key[q] - key[p] > 1,
         NEW k \in SortKeys(S, key, anchor)
  PROVE  Beside(k, S, key, anchor)
<1> DEFINE K == KeysOf(S, key)
           at == key[anchor.page]
<1>1. PICK l, u : /\ <<l, u>> \in Bounds(S, key, anchor)
                  /\ Ordered(l, u)
                  /\ k = KeyBetween(l, u)
  BY DEF SortKeys, Bounds
<1>2. K \subseteq Int /\ \A a, b \in K : a < b => b - a > 1
  BY DEF KeysOf
<1>3. CASE anchor.side = "end"
  <2>1. l \in Highest(K) /\ u = Null
    BY <1>1, <1>3 DEF Bounds
  <2>2. /\ l = Null => K = {}
        /\ l # Null => l \in Int /\ \A o \in K : o <= l
    BY <1>2, <2>1, NullAssumption DEF Highest
  <2>3. l # Null => l < k
    BY <1>1, <2>1, <2>2, KeyBetweenBounds, NullAssumption DEF MaybeKey
  <2>4. k \in Int
    BY <1>1, <2>1, <2>2, KeyBetweenType DEF MaybeKey
  <2>5. \A o \in K : o < k
    BY <1>2, <2>2, <2>3, <2>4
  <2> QED
    BY <1>2, <1>3, <2>4, <2>5 DEF Beside
<1>4. CASE anchor.side = "before"
  <2>1. /\ anchor.page \in S /\ at \in K /\ l = at
        /\ u \in NextKeys(S, key, anchor.page)
    BY <1>1, <1>4 DEF Bounds, KeysOf
  <2>2. u \notin Ties(S, key, anchor.page)
    BY <1>1, <1>2, <2>1, NullAssumption DEF Ties, Ordered
  <2>3. u \in Lowest({o \in K : o > at})
    BY <2>1, <2>2 DEF NextKeys
  <2>4. /\ u = Null => \A o \in K : o <= at
        /\ u # Null => u \in K /\ u > at /\ \A o \in K : o > at => u <= o
    BY <1>2, <2>1, <2>3, NullAssumption DEF Lowest
  <2>5. /\ l < k
        /\ u # Null => k < u
    BY <1>1, <1>2, <2>1, <2>4, KeyBetweenBounds, NullAssumption DEF MaybeKey
  <2>6. k \in Int
    BY <1>1, <1>2, <2>1, <2>4, KeyBetweenType DEF MaybeKey
  <2>7. /\ at < k
        /\ \A o \in K : o # k /\ (o > at => o > k)
    BY <1>2, <2>1, <2>4, <2>5, <2>6
  <2> QED
    BY <1>2, <1>4, <2>1, <2>6, <2>7 DEF Beside
<1>5. CASE anchor.side = "after"
  <2>1. /\ anchor.page \in S /\ at \in K /\ u = at
        /\ l \in PrevKeys(S, key, anchor.page)
    BY <1>1, <1>5 DEF Bounds, KeysOf
  <2>2. l \notin Ties(S, key, anchor.page)
    BY <1>1, <1>2, <2>1, NullAssumption DEF Ties, Ordered
  <2>3. l \in Highest({o \in K : o < at})
    BY <2>1, <2>2 DEF PrevKeys
  <2>4. /\ l = Null => \A o \in K : at <= o
        /\ l # Null => l \in K /\ l < at /\ \A o \in K : o < at => o <= l
    BY <1>2, <2>1, <2>3, NullAssumption DEF Highest
  <2>5. /\ k < u
        /\ l # Null => l < k
    BY <1>1, <1>2, <2>1, <2>4, KeyBetweenBounds, NullAssumption DEF MaybeKey
  <2>6. k \in Int
    BY <1>1, <1>2, <2>1, <2>4, KeyBetweenType DEF MaybeKey
  <2>7. /\ k < at
        /\ \A o \in K : o # k /\ (o < at => o < k)
    BY <1>2, <2>1, <2>4, <2>5, <2>6
  <2> QED
    BY <1>2, <1>5, <2>1, <2>6, <2>7 DEF Beside
<1> QED
  BY <1>3, <1>4, <1>5 DEF Anchor

----------------------------------------------------------------------------
(* Types, workspaces, and what a handler holds. *)

LEMMA HomeInvInit == Init => HomeInv
<1> SUFFICES ASSUME Init PROVE HomeInv
  OBVIOUS
<1>1. Idle \in Job
  BY InitialAssumption DEF Idle, Job, PC, Goal, AtEnd, Anchor, MaybePage, MaybeKey
<1>2. TypeOK
  BY <1>1, InitialAssumption DEF Init, TypeOK, MaybePage
<1>3. EdgesStayHome
  BY InitialAssumption DEF Init, EdgesStayHome
<1>4. \A r \in Request : HeldOK(req[r])
  BY DEF Init, HeldOK, Idle
<1> QED
  BY <1>2, <1>3, <1>4 DEF HomeInv

\* What an Insert does to the tree.
LEMMA InsertHome ==
  ASSUME TypeOK, EdgesStayHome, NEW id, NEW w \in Workspace, NEW p \in MaybePage,
         NEW k \in Int, Insert(id, w, p, k),
         p # Null => p \in pages /\ home[p] = w
  PROVE  /\ pages \subseteq pages'
         /\ \A q \in pages : home'[q] = home[q]
         /\ id \in pages' /\ home'[id] = w
         /\ pages' \subseteq Page
         /\ home' \in [Page -> Workspace]
         /\ parent' \in [Page -> MaybePage]
         /\ archived' \subseteq Page
         /\ sortKey' \in [Page -> Int]
         /\ EdgesStayHome'
<1> USE DEF Insert, TypeOK
<1>1. /\ pages \subseteq pages'
      /\ \A q \in pages : home'[q] = home[q] /\ parent'[q] = parent[q]
      /\ id \in pages' /\ home'[id] = w /\ parent'[id] = p
      /\ pages' = pages \cup {id}
  OBVIOUS
<1>2. EdgesStayHome'
  BY <1>1 DEF EdgesStayHome
<1> QED
  BY <1>1, <1>2

\* A step that leaves the tree's workspaces alone and gives one slot a job that
\* is in order keeps every job in order.
LEMMA OtherJobs ==
  ASSUME TypeOK, \A q \in Request : HeldOK(req[q]),
         NEW r \in Request, NEW j \in Job, req' = [req EXCEPT ![r] = j],
         pages \subseteq pages', \A p \in pages : home'[p] = home[p],
         HeldOK(j)'
  PROVE  req' \in [Request -> Job] /\ \A q \in Request : HeldOK(req[q])'
<1>1. req' \in [Request -> Job]
  BY DEF TypeOK
<1>2. ASSUME NEW q \in Request PROVE HeldOK(req[q])'
  <2>1. CASE q = r
    BY <2>1 DEF TypeOK
  <2>2. CASE q # r
    <3>1. req[q] \in Job /\ req'[q] = req[q]
      BY <2>2 DEF TypeOK
    <3>2. HeldOK(req[q])
      OBVIOUS
    <3>3. HeldOK(req[q])'
      BY <3>1, <3>2 DEF HeldOK
    <3> QED BY <3>3
  <2> QED BY <2>1, <2>2
<1> QED BY <1>1, <1>2

\* The steps that only read: the tree is as it was.
LEMMA ReadStep ==
  ASSUME HomeInv, NEW r \in Request, NEW j \in Job, HeldOK(j),
         UNCHANGED tree, req' = [req EXCEPT ![r] = j],
         Bookkept'
  PROVE  HomeInv'
<1>1. HeldOK(j)'
  BY DEF HeldOK, tree
<1>2. req' \in [Request -> Job] /\ \A q \in Request : HeldOK(req[q])'
  BY <1>1, OtherJobs DEF HomeInv, tree
<1>3. TypeOK' /\ EdgesStayHome'
  BY <1>2 DEF HomeInv, TypeOK, Bookkept, EdgesStayHome, tree
<1> QED
  BY <1>2, <1>3 DEF HomeInv

LEMMA IdleOK == Idle \in Job /\ HeldOK(Idle) /\ HeldOK(Idle)'
BY InitialAssumption
   DEF Idle, Job, PC, Goal, AtEnd, Anchor, MaybePage, MaybeKey, HeldOK

\* Begin, Continue and Wrote keep the bookkeeping typed.
LEMMA BeginType ==
  ASSUME TypeOK, NEW r \in Request, NEW j, Begin(r, j)
  PROVE  Bookkept' /\ req' = [req EXCEPT ![r] = j]
BY DEF TypeOK, Begin, Bookkept

LEMMA ContinueType ==
  ASSUME TypeOK, NEW r \in Request, NEW j, Continue(r, j)
  PROVE  /\ Bookkept'
         /\ req' = [req EXCEPT ![r] = j] /\ UNCHANGED tree
BY DEF TypeOK, Continue, races, tree, Bookkept

LEMMA WroteType ==
  ASSUME TypeOK, NEW r \in Request, NEW j, Wrote(r, j)
  PROVE  Bookkept' /\ req' = [req EXCEPT ![r] = j]
BY DEF TypeOK, Wrote, Overtakes, races, Bookkept

LEMMA TakeHome ==
  ASSUME HomeInv, NEW r \in Request, Take(r)
  PROVE  HomeInv'
<1> USE DEF HomeInv
<1>1. ASSUME NEW w \in Workspace, NEW p \in pages \cup {Null}, CreateRead(r, w, p)
      PROVE  HomeInv'
  <2>1. Siblings(w, p, Null) \in SUBSET Page /\ AtEnd \in Anchor
    BY DEF Siblings, TypeOK, AtEnd, Anchor, MaybePage
  <2>2. PICK k \in SortKeys(Siblings(w, p, Null), sortKey, AtEnd) :
          Begin(r, [Idle EXCEPT !.pc = "create", !.goal = "create", !.home = w,
                                !.dest = p, !.key = k])
    BY <1>1 DEF CreateRead
  <2>3. k \in Int
    BY <2>1, <2>2, SortKeysType DEF TypeOK
  <2> DEFINE j == [Idle EXCEPT !.pc = "create", !.goal = "create", !.home = w,
                               !.dest = p, !.key = k]
  <2>4. j \in Job /\ HeldOK(j)
    BY <1>1, <2>3, IdleOK
    DEF CreateRead, Idle, Job, PC, Goal, MaybePage, MaybeKey, HeldOK, TypeOK
  <2> HIDE DEF j
  <2>5. Begin(r, j)
    BY <2>2 DEF j
  <2>6. UNCHANGED tree
    BY <1>1 DEF CreateRead
  <2> QED
    BY <2>4, <2>5, <2>6, BeginType, ReadStep
<1>2. ASSUME NEW id \in pages, NEW p \in pages \cup {Null}, MoveBegin(r, id, p)
      PROVE  HomeInv'
  <2> DEFINE j == [Idle EXCEPT !.pc = AfterLoad(p),
                               !.goal = "move", !.home = home[id], !.id = id,
                               !.dest = p, !.cursor = p]
  <2>1. j \in Job /\ HeldOK(j)
    <3>1. home[id] \in Workspace /\ id \in MaybePage /\ p \in MaybePage
      BY DEF TypeOK, MaybePage
    <3>2. p # Null => p \in pages /\ home[p] = home[id]
      BY <1>2 DEF MoveBegin
    <3>3. AfterLoad(p) \in {"siblings", "walk"} /\ (AfterLoad(p) = "walk" => p # Null)
      BY DEF AfterLoad
    <3> QED
      BY <3>1, <3>2, <3>3, IdleOK DEF Idle, Job, PC, Goal, HeldOK
  <2>2. Begin(r, j) /\ UNCHANGED tree
    BY <1>2 DEF MoveBegin
  <2> HIDE DEF j
  <2> QED
    BY <2>1, <2>2, BeginType, ReadStep
<1>3. ASSUME NEW goal \in {"archive", "restore"}, NEW id \in pages,
             CascadeBegin(r, goal, id)
      PROVE  HomeInv'
  <2> DEFINE j == [Idle EXCEPT !.pc = "children", !.goal = goal, !.id = id,
                               !.dest = parent[id], !.frontier = {id}, !.ids = {id}]
  <2>1. j \in Job /\ HeldOK(j)
    <3>1. id \in Page /\ id \in MaybePage /\ parent[id] \in MaybePage
      BY DEF TypeOK, MaybePage
    <3>2. parent[id] = Null \/ parent[id] \in pages
      BY DEF EdgesStayHome
    <3> QED
      BY <3>1, <3>2, IdleOK DEF Idle, Job, PC, Goal, HeldOK
  <2>2. Begin(r, j) /\ UNCHANGED tree
    BY <1>3 DEF CascadeBegin
  <2> HIDE DEF j
  <2> QED
    BY <2>1, <2>2, BeginType, ReadStep
<1>4. ASSUME NEW w \in Workspace, NEW id \in Page, ImportRoot(r, w, id)
      PROVE  HomeInv'
  <2> DEFINE j == [Idle EXCEPT !.pc = "import", !.goal = "import", !.home = w, !.id = id]
  <2>1. KeyBetween(Null, Null) \in Int
    BY KeyBetweenType DEF MaybeKey
  <2>2. Insert(id, w, Null, KeyBetween(Null, Null)) /\ req' = [req EXCEPT ![r] = j]
    BY <1>4 DEF ImportRoot
  <2>3. j \in Job
    BY IdleOK DEF Idle, Job, PC, Goal, MaybePage, MaybeKey
  <2>4. /\ pages \subseteq pages' /\ \A q \in pages : home'[q] = home[q]
        /\ id \in pages' /\ home'[id] = w
        /\ pages' \subseteq Page /\ home' \in [Page -> Workspace]
        /\ parent' \in [Page -> MaybePage] /\ archived' \subseteq Page
        /\ sortKey' \in [Page -> Int] /\ EdgesStayHome'
    BY <2>1, <2>2, InsertHome DEF MaybePage
  <2>5. HeldOK(j)'
    BY <2>4, IdleOK DEF HeldOK, Idle
  <2> HIDE DEF j
  <2>6. req' \in [Request -> Job] /\ \A q \in Request : HeldOK(req[q])'
    BY <2>2, <2>3, <2>4, <2>5, OtherJobs
  <2>7. Bookkept'
    BY <1>4 DEF ImportRoot, TypeOK, Bookkept
  <2> QED
    BY <2>4, <2>6, <2>7 DEF TypeOK, Bookkept
<1> QED
  BY <1>1, <1>2, <1>3, <1>4 DEF Take

\* A step of a handler under way keeps HomeInv.
LEMMA ContinueHome ==
  ASSUME HomeInv, NEW r \in Request, NEW j \in Job, HeldOK(j), Continue(r, j)
  PROVE  HomeInv'
BY ContinueType, ReadStep DEF HomeInv

LEMMA CreateInsertHome ==
  ASSUME HomeInv, NEW r \in Request, NEW id \in Page, CreateInsert(r, id)
  PROVE  HomeInv'
<1> USE DEF HomeInv
<1>1. req[r] \in Job /\ HeldOK(req[r]) /\ req[r].pc = "create"
  BY DEF TypeOK, CreateInsert
<1>2. /\ req[r].home \in Workspace /\ req[r].dest \in MaybePage /\ req[r].key \in Int
      /\ req[r].dest # Null => req[r].dest \in pages /\ home[req[r].dest] = req[r].home
  BY <1>1 DEF HeldOK, Job
<1>3. /\ Insert(id, req[r].home, req[r].dest, req[r].key)
      /\ Wrote(r, Idle)
  BY DEF CreateInsert
<1>4. /\ pages \subseteq pages' /\ \A q \in pages : home'[q] = home[q]
      /\ pages' \subseteq Page /\ home' \in [Page -> Workspace]
      /\ parent' \in [Page -> MaybePage] /\ archived' \subseteq Page
      /\ sortKey' \in [Page -> Int] /\ EdgesStayHome'
  BY <1>2, <1>3, InsertHome
<1>5. Bookkept' /\ req' = [req EXCEPT ![r] = Idle]
  BY <1>3, WroteType
<1>6. req' \in [Request -> Job] /\ \A q \in Request : HeldOK(req[q])'
  BY <1>4, <1>5, IdleOK, OtherJobs
<1> QED
  BY <1>4, <1>5, <1>6 DEF TypeOK, Bookkept

LEMMA MoveWalkHome ==
  ASSUME HomeInv, NEW r \in Request, MoveWalk(r)
  PROVE  HomeInv'
<1> USE DEF HomeInv
<1> DEFINE j == req[r]
           up == parent[j.cursor]
           seen == j.seen \cup {j.cursor}
<1>1. j \in Job /\ HeldOK(j) /\ j.pc = "walk" /\ j.cursor \in pages
  BY DEF TypeOK, MoveWalk, HeldOK
<1>2. /\ up \in MaybePage /\ seen \in SUBSET Page
      /\ up # Null => up \in pages
  BY <1>1 DEF TypeOK, EdgesStayHome, Job
<1>3. CASE Continue(r, Idle)
  BY <1>3, IdleOK, ContinueHome
<1>4. CASE up # Null /\ Continue(r, [j EXCEPT !.seen = seen, !.cursor = up])
  <2>1. [j EXCEPT !.seen = seen, !.cursor = up] \in Job
    BY <1>1, <1>2 DEF Job
  <2>2. HeldOK([j EXCEPT !.seen = seen, !.cursor = up])
    BY <1>1, <1>2, <1>4 DEF Job, HeldOK
  <2> QED
    BY <1>4, <2>1, <2>2, ContinueHome
<1>5. CASE Continue(r, [j EXCEPT !.pc = "siblings", !.seen = seen, !.cursor = up])
  <2>1. [j EXCEPT !.pc = "siblings", !.seen = seen, !.cursor = up] \in Job
    BY <1>1, <1>2 DEF Job, PC
  <2>2. HeldOK([j EXCEPT !.pc = "siblings", !.seen = seen, !.cursor = up])
    BY <1>1, <1>2 DEF Job, HeldOK
  <2> QED
    BY <1>5, <2>1, <2>2, ContinueHome
<1> QED
  BY <1>3, <1>4, <1>5 DEF MoveWalk

LEMMA MoveSiblingsHome ==
  ASSUME HomeInv, NEW r \in Request, NEW anchor \in Anchors, MoveSiblings(r, anchor)
  PROVE  HomeInv'
<1> USE DEF HomeInv
<1> DEFINE j == req[r]
           S == Siblings(j.home, j.dest, j.id)
<1>1. j \in Job /\ HeldOK(j) /\ j.pc = "siblings"
  BY DEF TypeOK, MoveSiblings
<1>2. anchor \in Anchor
  BY DEF Anchors, Anchor, AtEnd, TypeOK, MaybePage
<1>3. CASE Continue(r, Idle)
  BY <1>3, IdleOK, ContinueHome
<1>4. ASSUME NEW k \in SortKeys(S, sortKey, anchor),
             Continue(r, [j EXCEPT !.pc = "place", !.key = k, !.anchor = anchor])
      PROVE  HomeInv'
  <2>1. S \in SUBSET Page
    BY DEF Siblings, TypeOK
  <2>2. k \in Int
    BY <1>2, <2>1, SortKeysType DEF TypeOK
  <2>3. [j EXCEPT !.pc = "place", !.key = k, !.anchor = anchor] \in Job
    BY <1>1, <1>2, <2>2 DEF Job, PC, MaybeKey
  <2>4. HeldOK([j EXCEPT !.pc = "place", !.key = k, !.anchor = anchor])
    BY <1>1, <2>2 DEF Job, HeldOK
  <2> QED
    BY <1>4, <2>3, <2>4, ContinueHome
<1> QED
  BY <1>3, <1>4 DEF MoveSiblings

LEMMA MovePlaceHome ==
  ASSUME HomeInv, NEW r \in Request, MovePlace(r)
  PROVE  HomeInv'
<1> USE DEF HomeInv
<1> DEFINE j == req[r]
<1>1. j \in Job /\ HeldOK(j) /\ j.pc = "place"
  BY DEF TypeOK, MovePlace
<1>2. /\ j.id \in pages /\ j.id \in Page /\ j.key \in Int /\ j.dest \in MaybePage
      /\ j.dest # Null => j.dest \in pages /\ home[j.dest] = home[j.id]
  BY <1>1 DEF HeldOK, Job, TypeOK
<1>3. /\ parent' = [parent EXCEPT ![j.id] = j.dest]
      /\ sortKey' = [sortKey EXCEPT ![j.id] = j.key]
      /\ pages' = pages /\ home' = home /\ archived' = archived
      /\ Overtakes(r, Idle)
      /\ outrun' \subseteq outrun \cup Request
      /\ raced' = (raced \/ (Adopts(j) /\ r \in outrun))
  BY DEF MovePlace
<1>4. /\ pages' \subseteq Page /\ home' \in [Page -> Workspace] /\ archived' \subseteq Page
      /\ parent' \in [Page -> MaybePage] /\ sortKey' \in [Page -> Int]
  BY <1>2, <1>3 DEF TypeOK
<1>5. EdgesStayHome'
  BY <1>2, <1>3 DEF EdgesStayHome, TypeOK
<1>6. Bookkept' /\ req' = [req EXCEPT ![r] = Idle]
  <2>1. raced' \in BOOLEAN
    BY <1>3 DEF TypeOK, Adopts
  <2> QED
    BY <1>3, <2>1 DEF TypeOK, Overtakes, Bookkept
<1>7. req' \in [Request -> Job] /\ \A q \in Request : HeldOK(req[q])'
  BY <1>3, <1>6, IdleOK, OtherJobs
<1> QED
  BY <1>4, <1>5, <1>6, <1>7 DEF TypeOK, Bookkept

LEMMA ReadChildrenHome ==
  ASSUME HomeInv, NEW r \in Request, ReadChildren(r)
  PROVE  HomeInv'
<1> USE DEF HomeInv
<1> DEFINE j == req[r]
           next == Children(j.frontier)
           after == AfterSearch(j.goal, j.dest)
<1>1. j \in Job /\ HeldOK(j) /\ j.pc = "children" /\ j.id \in pages
  BY DEF TypeOK, ReadChildren, HeldOK
<1>2. next \in SUBSET Page /\ j.id \in Page
  BY <1>1 DEF Children, TypeOK
<1>3. CASE Continue(r, [j EXCEPT !.frontier = next, !.ids = @ \cup next])
  <2>1. [j EXCEPT !.frontier = next, !.ids = @ \cup next] \in Job
    BY <1>1, <1>2 DEF Job
  <2>2. HeldOK([j EXCEPT !.frontier = next, !.ids = @ \cup next])
    BY <1>1 DEF Job, HeldOK
  <2> QED
    BY <1>3, <2>1, <2>2, ContinueHome
<1>4. CASE Continue(r, [j EXCEPT !.pc = after, !.frontier = {},
                                 !.cursor = j.dest, !.seen = {j.id}])
  <2>1. /\ after \in {"archive", "restore", "ancestors"}
        /\ after = "ancestors" => j.dest \in pages
    BY <1>1 DEF AfterSearch, AfterClimb, HeldOK
  <2> HIDE DEF after
  <2>2. [j EXCEPT !.pc = after, !.frontier = {}, !.cursor = j.dest, !.seen = {j.id}] \in Job
    BY <1>1, <1>2, <2>1 DEF Job, PC
  <2>3. HeldOK([j EXCEPT !.pc = after, !.frontier = {}, !.cursor = j.dest, !.seen = {j.id}])
    BY <1>1, <2>1 DEF Job, HeldOK
  <2> QED
    BY <1>4, <2>2, <2>3, ContinueHome
<1> QED
  BY <1>3, <1>4 DEF ReadChildren

LEMMA ReadAncestorHome ==
  ASSUME HomeInv, NEW r \in Request, ReadAncestor(r)
  PROVE  HomeInv'
<1> USE DEF HomeInv
<1> DEFINE j == req[r]
           up == parent[j.cursor]
           seen == j.seen \cup {j.cursor}
           ids == j.ids \cup ({j.cursor} \cap archived)
           pc == AfterClimb(up)
<1>1. j \in Job /\ HeldOK(j) /\ j.pc = "ancestors" /\ j.id \in pages /\ j.cursor \in pages
  BY DEF TypeOK, ReadAncestor, HeldOK
<1>2. /\ up \in MaybePage /\ seen \in SUBSET Page /\ ids \in SUBSET Page
      /\ up # Null => up \in pages
  BY <1>1 DEF TypeOK, EdgesStayHome, Job
<1>3. CASE Continue(r, [j EXCEPT !.pc = "restore"])
  <2>1. [j EXCEPT !.pc = "restore"] \in Job
    BY <1>1 DEF Job, PC
  <2>2. HeldOK([j EXCEPT !.pc = "restore"])
    BY <1>1 DEF Job, HeldOK
  <2> QED
    BY <1>3, <2>1, <2>2, ContinueHome
<1>4. CASE Continue(r, [j EXCEPT !.pc = pc, !.seen = seen, !.ids = ids, !.cursor = up])
  <2>1. pc \in {"restore", "ancestors"} /\ (pc = "ancestors" => up \in pages)
    BY <1>2 DEF AfterClimb
  <2> HIDE DEF pc
  <2>2. [j EXCEPT !.pc = pc, !.seen = seen, !.ids = ids, !.cursor = up] \in Job
    BY <1>1, <1>2, <2>1 DEF Job, PC
  <2>3. HeldOK([j EXCEPT !.pc = pc, !.seen = seen, !.ids = ids, !.cursor = up])
    BY <1>1, <2>1 DEF Job, HeldOK
  <2> QED
    BY <1>4, <2>2, <2>3, ContinueHome
<1> QED
  BY <1>3, <1>4 DEF ReadAncestor

\* archive and restore change nothing but the marks.
LEMMA MarksHome ==
  ASSUME HomeInv, NEW r \in Request, ArchiveWrite(r) \/ RestoreWrite(r)
  PROVE  HomeInv'
<1> USE DEF HomeInv
<1>1. req[r] \in Job
  BY DEF TypeOK
<1>2. /\ archived' \subseteq Page
      /\ pages' = pages /\ home' = home /\ parent' = parent /\ sortKey' = sortKey
      /\ Wrote(r, Idle)
  BY <1>1 DEF ArchiveWrite, RestoreWrite, TypeOK, Job
<1>3. Bookkept' /\ req' = [req EXCEPT ![r] = Idle]
  BY <1>2, WroteType
<1>4. req' \in [Request -> Job] /\ \A q \in Request : HeldOK(req[q])'
  BY <1>2, <1>3, IdleOK, OtherJobs
<1> QED
  BY <1>2, <1>3, <1>4 DEF TypeOK, Bookkept, EdgesStayHome

LEMMA ImportHome ==
  ASSUME HomeInv, NEW r \in Request, (\E id \in Page : ImportChild(r, id)) \/ ImportDone(r)
  PROVE  HomeInv'
<1> USE DEF HomeInv
<1>1. CASE ImportDone(r)
  BY <1>1, IdleOK, ContinueHome DEF ImportDone
<1>2. ASSUME NEW id \in Page, ImportChild(r, id)
      PROVE  HomeInv'
  <2> DEFINE j == req[r]
             key == KeyBetween(j.key, Null)
  <2>1. j \in Job /\ HeldOK(j) /\ j.pc = "import" /\ j.id \in pages /\ home[j.id] = j.home
    BY <1>2 DEF TypeOK, ImportChild, HeldOK
  <2>2. key \in Int
    BY <2>1, KeyBetweenType DEF MaybeKey, Job
  <2>3. Insert(id, j.home, j.id, key) /\ Wrote(r, [j EXCEPT !.key = key])
    BY <1>2 DEF ImportChild
  <2> HIDE DEF key
  <2>4. /\ pages \subseteq pages' /\ \A q \in pages : home'[q] = home[q]
        /\ pages' \subseteq Page /\ home' \in [Page -> Workspace]
        /\ parent' \in [Page -> MaybePage] /\ archived' \subseteq Page
        /\ sortKey' \in [Page -> Int] /\ EdgesStayHome'
    BY <2>1, <2>2, <2>3, InsertHome DEF Job, MaybePage, TypeOK
  <2>5. PICK new \in Job : new = [j EXCEPT !.key = key]
    <3>1. key \in MaybeKey
      BY <2>2 DEF MaybeKey
    <3> QED
      BY <2>1, <3>1 DEF Job
  <2>6. /\ Bookkept'
        /\ req' = [req EXCEPT ![r] = new]
    BY <2>3, <2>5, WroteType
  <2>7. HeldOK(new)'
    <3>1. new.pc = "import" /\ new.id = j.id /\ new.home = j.home
      BY <2>1, <2>5 DEF Job
    <3> QED
      BY <2>1, <2>4, <3>1 DEF HeldOK
  <2>8. req' \in [Request -> Job] /\ \A q \in Request : HeldOK(req[q])'
    BY <2>4, <2>6, <2>7, OtherJobs
  <2> QED
    BY <2>4, <2>6, <2>8 DEF TypeOK, Bookkept
<1> QED
  BY <1>1, <1>2

LEMMA HomeInvNext == HomeInv /\ [Next]_vars => HomeInv'
<1> SUFFICES ASSUME HomeInv, [Next]_vars PROVE HomeInv'
  OBVIOUS
<1>1. CASE UNCHANGED vars
  BY <1>1 DEF vars, races, HomeInv, TypeOK, EdgesStayHome, HeldOK
<1>2. ASSUME NEW r \in Request, Take(r) PROVE HomeInv'
  BY <1>2, TakeHome
<1>3. ASSUME NEW r \in Request, Step(r) PROVE HomeInv'
  BY <1>3, CreateInsertHome, MoveWalkHome, MoveSiblingsHome, MovePlaceHome,
     ReadChildrenHome, ReadAncestorHome, MarksHome, ImportHome DEF Step
<1> QED
  BY <1>1, <1>2, <1>3 DEF Next

\* Workspaces: whatever requests run at once and however their queries
\* interleave, no page gets a parent of another workspace.
THEOREM HomeInvariant == Spec => []HomeInv
BY HomeInvInit, HomeInvNext, PTL DEF Spec

\* The tables and the handlers' variables keep their types.
THEOREM TypeCorrect == Spec => []TypeOK
<1>1. HomeInv => TypeOK
  BY DEF HomeInv
<1> QED
  BY HomeInvariant, <1>1, PTL

\* EdgesStayHome for any number of requests and movers.
THEOREM WorkspaceIsolation == Spec => []EdgesStayHome
<1>1. HomeInv => EdgesStayHome
  BY DEF HomeInv
<1> QED
  BY HomeInvariant, <1>1, PTL

----------------------------------------------------------------------------
(* The forest. *)

\* A handler whose reads of the tree are still true keeps its guard.
LEMMA GuardStable ==
  ASSUME NEW j \in Job, GuardOK(j), pages \subseteq pages',
         \A p \in pages : parent'[p] \in {parent[p], Null}
  PROVE  GuardOK(j)'
BY DEF GuardOK

\* A new page below an existing page, or a new root, leaves a forest a forest.
LEMMA InsertForest ==
  ASSUME HomeInv, Forest, NEW id, NEW w, NEW p \in pages \cup {Null}, NEW k,
         Insert(id, w, p, k), raced' = raced
  PROVE  /\ Forest' /\ pages \subseteq pages'
         /\ \A q \in pages : parent'[q] = parent[q]
<1>1. /\ id \in Page \ pages /\ pages' = pages \cup {id} /\ parent'[id] = p
      /\ \A q \in pages : parent'[q] = parent[q]
  BY DEF Insert, HomeInv, TypeOK
<1>2. ASSUME ~raced, NEW S \in SUBSET pages', \A q \in S : parent'[q] \in S
      PROVE  S = {}
  <2>1. \A q \in S \ {id} : parent[q] \in S \ {id}
    BY <1>1, <1>2, InitialAssumption DEF HomeInv, EdgesStayHome
  <2>2. S \ {id} = {}
    BY <1>1, <1>2, <2>1 DEF Forest, NoCycles, Acyclic
  <2>3. p # id
    BY <1>1, InitialAssumption
  <2> QED
    BY <1>1, <1>2, <2>2, <2>3
<1> QED
  BY <1>1, <1>2 DEF Forest, NoCycles, Acyclic

\* The write of a move whose guard still holds: a set closed under the new
\* parents either avoids the page, and was closed before, or meets the pages
\* its walk has seen in a set that was.
LEMMA PlaceForest ==
  ASSUME HomeInv, Acyclic(pages, parent), NEW r \in Request, MovePlace(r),
         Adopts(req[r]) => GuardOK(req[r])
  PROVE  Acyclic(pages, parent)'
<1> DEFINE j == req[r]
<1>1. j \in Job /\ j.id \in pages /\ j.pc = "place"
  BY DEF HomeInv, HeldOK, MovePlace, TypeOK
<1>2. pages' = pages /\ parent' = [parent EXCEPT ![j.id] = j.dest]
  BY DEF MovePlace
<1>3. pages \subseteq Page /\ Null \notin pages /\ parent \in [Page -> MaybePage]
  BY InitialAssumption DEF HomeInv, TypeOK
<1>4. ASSUME NEW S \in SUBSET pages, \A q \in S : parent'[q] \in S
      PROVE  S = {}
  <2>1. CASE j.id \notin S \/ j.dest = parent[j.id]
    <3>1. \A q \in S : parent[q] \in S
      BY <1>2, <1>3, <1>4, <2>1
    <3> QED
      BY <3>1 DEF Acyclic
  <2>2. CASE j.id \in S /\ j.dest # parent[j.id]
    <3>1. j.dest \in S
      BY <1>1, <1>2, <1>3, <1>4, <2>2
    <3>0. GuardOK(j)
      BY <1>3, <2>2, <3>1 DEF Adopts
    <3>2. /\ j.id \notin j.seen /\ j.dest \in j.seen
          /\ \A p \in j.seen : parent[p] \in j.seen \cup {Null}
      BY <1>1, <1>3, <3>0, <3>1 DEF GuardOK
    <3>3. \A q \in S \cap j.seen : parent[q] \in S \cap j.seen
      BY <1>2, <1>3, <1>4, <3>2
    <3>4. S \cap j.seen = {}
      BY <3>3 DEF Acyclic
    <3> QED
      BY <3>1, <3>2, <3>4
  <2> QED
    BY <2>1, <2>2
<1> QED
  BY <1>2, <1>4 DEF Acyclic

\* A step of slot r that leaves a forest, every edge and a job whose guard
\* holds keeps MoverInv.
LEMMA MoverStep ==
  ASSUME HomeInv, MoverInv, NEW r \in Request, NEW j \in Job,
         req' = [req EXCEPT ![r] = j], r \notin outrun' => GuardOK(j)',
         outrun \subseteq outrun' \cup {r},
         Forest', pages \subseteq pages', \A p \in pages : parent'[p] = parent[p]
  PROVE  MoverInv'
<1>1. ASSUME NEW q \in Request \ outrun'
      PROVE  GuardOK(req[q])'
  <2>1. CASE q = r
    BY <2>1 DEF HomeInv, TypeOK
  <2>2. CASE q # r
    <3>1. req[q] \in Job /\ req'[q] = req[q] /\ GuardOK(req[q])
      BY <2>2 DEF HomeInv, MoverInv, TypeOK
    <3>2. PICK other \in Job : other = req[q]
      BY <3>1
    <3>3. GuardOK(other)'
      BY <3>1, <3>2, GuardStable
    <3> QED
      BY <3>1, <3>2, <3>3 DEF GuardOK
  <2> QED
    BY <2>1, <2>2
<1> QED
  BY <1>1 DEF MoverInv

\* A step that gives the slot a job outside a move and leaves a forest.
LEMMA QuietStep ==
  ASSUME HomeInv, MoverInv, NEW r \in Request, NEW j \in Job, j.pc \notin Moving,
         req' = [req EXCEPT ![r] = j], outrun \subseteq outrun' \cup {r},
         Forest', pages \subseteq pages', \A p \in pages : parent'[p] = parent[p]
  PROVE  MoverInv'
<1>1. GuardOK(j)'
  BY DEF GuardOK, Moving
<1> QED
  BY <1>1, MoverStep

\* A read-only step outside a move.
LEMMA QuietRead ==
  ASSUME HomeInv, MoverInv, NEW r \in Request, NEW j \in Job, j.pc \notin Moving,
         req' = [req EXCEPT ![r] = j], pages' = pages, parent' = parent,
         outrun \subseteq outrun' \cup {r}, raced' = raced
  PROVE  MoverInv'
<1>1. Forest'
  BY DEF MoverInv, Forest, NoCycles, Acyclic
<1> QED
  BY <1>1, QuietStep

LEMMA TakeMover ==
  ASSUME HomeInv, MoverInv, NEW r \in Request, Take(r)
  PROVE  MoverInv'
<1>1. Idle \in Job /\ Idle.pc \notin Moving
  BY IdleOK DEF Idle, Moving
<1>2. ASSUME NEW w \in Workspace, NEW p \in pages \cup {Null}, CreateRead(r, w, p)
      PROVE  MoverInv'
  <2>1. Siblings(w, p, Null) \in SUBSET Page /\ AtEnd \in Anchor
    BY DEF Siblings, HomeInv, TypeOK, AtEnd, Anchor, MaybePage
  <2>2. PICK k \in SortKeys(Siblings(w, p, Null), sortKey, AtEnd) :
          Begin(r, [Idle EXCEPT !.pc = "create", !.goal = "create", !.home = w,
                                !.dest = p, !.key = k])
    BY <1>2 DEF CreateRead
  <2>3. k \in Int
    BY <2>1, <2>2, SortKeysType DEF HomeInv, TypeOK
  <2> DEFINE j == [Idle EXCEPT !.pc = "create", !.goal = "create", !.home = w,
                               !.dest = p, !.key = k]
  <2>4. j \in Job /\ j.pc \notin Moving
    BY <2>3, IdleOK DEF Idle, Job, PC, Goal, MaybePage, MaybeKey, Moving, HomeInv, TypeOK
  <2> HIDE DEF j
  <2>5. /\ req' = [req EXCEPT ![r] = j] /\ pages' = pages /\ parent' = parent
        /\ outrun' = outrun \ {r} /\ raced' = raced
    BY <1>2, <2>2 DEF j, CreateRead, Begin, tree
  <2> QED
    BY <2>4, <2>5, QuietRead
<1>3. ASSUME NEW id \in pages, NEW p \in pages \cup {Null}, MoveBegin(r, id, p)
      PROVE  MoverInv'
  <2>1. /\ p # id /\ pages' = pages /\ parent' = parent
        /\ outrun' = outrun \ {r} /\ raced' = raced
        /\ req' = [req EXCEPT ![r] = [Idle EXCEPT !.pc = AfterLoad(p), !.goal = "move",
                                                  !.home = home[id], !.id = id,
                                                  !.dest = p, !.cursor = p]]
    BY <1>3 DEF MoveBegin, Begin, tree
  <2>2. PICK j \in Job : j = [Idle EXCEPT !.pc = AfterLoad(p), !.goal = "move",
                                          !.home = home[id], !.id = id,
                                          !.dest = p, !.cursor = p]
    <3>1. home[id] \in Workspace /\ id \in MaybePage /\ p \in MaybePage
      BY DEF HomeInv, TypeOK, MaybePage
    <3>2. AfterLoad(p) \in {"siblings", "walk"}
      BY DEF AfterLoad
    <3> QED
      BY <3>1, <3>2, IdleOK DEF Idle, Job, PC, Goal
  <2>3. /\ j.id = id /\ j.dest = p /\ j.cursor = p /\ j.seen = {} /\ j.pc = AfterLoad(p)
    BY <2>2, IdleOK DEF Idle
  <2>4. AfterLoad(p) = IF p = Null THEN "siblings" ELSE "walk"
    BY DEF AfterLoad
  <2>5. GuardOK(j)'
    BY <2>1, <2>3, <2>4 DEF GuardOK
  <2>6. Forest'
    BY <2>1 DEF MoverInv, Forest, NoCycles, Acyclic
  <2> QED
    BY <2>1, <2>2, <2>5, <2>6, MoverStep
<1>4. ASSUME NEW goal \in {"archive", "restore"}, NEW id \in pages,
             CascadeBegin(r, goal, id)
      PROVE  MoverInv'
  <2> DEFINE j == [Idle EXCEPT !.pc = "children", !.goal = goal, !.id = id,
                               !.dest = parent[id], !.frontier = {id}, !.ids = {id}]
  <2>1. j \in Job /\ j.pc \notin Moving
    <3>1. id \in Page /\ id \in MaybePage /\ parent[id] \in MaybePage
      BY DEF HomeInv, TypeOK, MaybePage
    <3> QED
      BY <3>1, IdleOK DEF Idle, Job, PC, Goal, Moving
  <2>2. /\ req' = [req EXCEPT ![r] = j] /\ pages' = pages /\ parent' = parent
        /\ outrun' = outrun \ {r} /\ raced' = raced
    BY <1>4 DEF CascadeBegin, Begin, tree
  <2> HIDE DEF j
  <2> QED
    BY <2>1, <2>2, QuietRead
<1>5. ASSUME NEW w \in Workspace, NEW id \in Page, ImportRoot(r, w, id)
      PROVE  MoverInv'
  <2> DEFINE j == [Idle EXCEPT !.pc = "import", !.goal = "import", !.home = w, !.id = id]
  <2>1. /\ Insert(id, w, Null, KeyBetween(Null, Null)) /\ req' = [req EXCEPT ![r] = j]
        /\ outrun' = outrun \ {r} /\ raced' = raced
    BY <1>5 DEF ImportRoot
  <2>2. j \in Job /\ j.pc \notin Moving
    BY IdleOK DEF Idle, Job, PC, Goal, MaybePage, MaybeKey, Moving
  <2> HIDE DEF j
  <2>3. Forest' /\ pages \subseteq pages' /\ \A q \in pages : parent'[q] = parent[q]
    BY <2>1, InsertForest DEF MoverInv
  <2> QED
    BY <2>1, <2>2, <2>3, QuietStep
<1> QED
  BY <1>2, <1>3, <1>4, <1>5 DEF Take

LEMMA StepMover ==
  ASSUME HomeInv, MoverInv, HomeInv', NEW r \in Request, Step(r)
  PROVE  MoverInv'
<1> DEFINE j == req[r]
<1>1. Idle \in Job /\ Idle.pc \notin Moving
  BY IdleOK DEF Idle, Moving
<1>2. /\ j \in Job /\ HeldOK(j) /\ req'[r] \in Job
      /\ r \notin outrun => GuardOK(j)
  BY DEF HomeInv, TypeOK, MoverInv
<1>3. ASSUME NEW id \in Page, CreateInsert(r, id)
      PROVE  MoverInv'
  <2>1. /\ Insert(id, j.home, j.dest, j.key) /\ req' = [req EXCEPT ![r] = Idle]
        /\ j.pc = "create" /\ outrun' = outrun /\ raced' = raced
    BY <1>3 DEF CreateInsert, Wrote, Overtakes, races
  <2>2. j.dest \in pages \cup {Null}
    BY <1>2, <2>1 DEF HeldOK
  <2>3. Forest' /\ pages \subseteq pages' /\ \A q \in pages : parent'[q] = parent[q]
    BY <2>1, <2>2, InsertForest DEF MoverInv
  <2> QED
    BY <1>1, <2>1, <2>3, QuietStep
<1>4. ASSUME NEW id \in Page, ImportChild(r, id)
      PROVE  MoverInv'
  <2> DEFINE key == KeyBetween(j.key, Null)
  <2>1. /\ Insert(id, j.home, j.id, key) /\ req' = [req EXCEPT ![r] = [j EXCEPT !.key = key]]
        /\ j.pc = "import" /\ outrun' = outrun /\ raced' = raced
    BY <1>4 DEF ImportChild, Wrote, Overtakes, races
  <2> HIDE DEF key
  <2>2. j.id \in pages \cup {Null}
    BY <1>2, <2>1 DEF HeldOK
  <2>3. Forest' /\ pages \subseteq pages' /\ \A q \in pages : parent'[q] = parent[q]
    BY <2>1, <2>2, InsertForest DEF MoverInv
  <2>4. PICK new \in Job : new = req'[r]
    BY <1>2
  <2>5. new.pc \notin Moving /\ req' = [req EXCEPT ![r] = new]
    BY <1>2, <2>1, <2>4 DEF Moving, Job, HomeInv, TypeOK
  <2> QED
    BY <2>1, <2>3, <2>5, QuietStep
<1>5. CASE MovePlace(r)
  <2>0. /\ req' = [req EXCEPT ![r] = Idle] /\ pages' = pages
        /\ parent' = [parent EXCEPT ![j.id] = j.dest]
        /\ outrun' = outrun \cup {q \in Request \ {r} : Adopts(j) /\ req[q].pc \in Moving}
        /\ raced' = (raced \/ (Adopts(j) /\ r \in outrun))
    BY <1>5 DEF MovePlace, Overtakes
  <2>1. Forest'
    <3>1. ASSUME ~raced' PROVE Acyclic(pages, parent)'
      <4>1. Acyclic(pages, parent) /\ (Adopts(j) => GuardOK(j))
        BY <1>2, <2>0, <3>1 DEF MoverInv, Forest, NoCycles
      <4> QED
        BY <1>5, <4>1, PlaceForest
    <3> QED
      BY <3>1 DEF Forest, NoCycles
  \* Another move is outrun, or keeps its guard: an edge went at most.
  <2>2. ASSUME NEW q \in Request \ outrun' PROVE GuardOK(req[q])'
    <3>1. CASE q = r
      BY <1>1, <2>0, <3>1 DEF GuardOK, Moving, HomeInv, TypeOK
    <3>2. CASE q # r
      <4>1. req[q] \in Job /\ req'[q] = req[q] /\ GuardOK(req[q])
        BY <2>0, <3>2 DEF HomeInv, MoverInv, TypeOK
      <4>2. CASE req[q].pc \notin Moving
        BY <4>1, <4>2 DEF GuardOK, Moving
      <4>3. CASE ~Adopts(j)
        <5>1. \A p \in pages : parent'[p] \in {parent[p], Null}
          BY <2>0, <4>3 DEF Adopts, HomeInv, TypeOK
        <5>2. PICK other \in Job : other = req[q]
          BY <4>1
        <5>3. GuardOK(other)'
          BY <2>0, <4>1, <5>1, <5>2, GuardStable
        <5> QED
          BY <4>1, <5>2, <5>3 DEF GuardOK
      <4> QED
        BY <2>0, <3>2, <4>2, <4>3
    <3> QED
      BY <3>1, <3>2
  <2> QED
    BY <2>1, <2>2 DEF MoverInv
<1>6. CASE \/ ReadChildren(r) \/ ReadAncestor(r) \/ ArchiveWrite(r)
           \/ RestoreWrite(r) \/ ImportDone(r)
  <2>1. pages' = pages /\ parent' = parent /\ outrun' = outrun /\ raced' = raced
    BY <1>6 DEF ReadChildren, ReadAncestor, ArchiveWrite, RestoreWrite, ImportDone,
                Continue, Wrote, Overtakes, races, tree
  <2>2. \E new : req' = [req EXCEPT ![r] = new] /\ new.pc \notin Moving
    <3>1. CASE ReadChildren(r)
      <4> DEFINE next == Children(j.frontier)
                 after == AfterSearch(j.goal, j.dest)
      <4>1. /\ j.pc = "children"
            /\ \/ req' = [req EXCEPT ![r] = [j EXCEPT !.frontier = next, !.ids = @ \cup next]]
               \/ req' = [req EXCEPT ![r] = [j EXCEPT !.pc = after, !.frontier = {},
                                                    !.cursor = j.dest, !.seen = {j.id}]]
        BY <3>1, Zenon DEF ReadChildren, Continue
      <4>2. after \notin Moving
        BY DEF AfterSearch, AfterClimb, Moving
      <4> HIDE DEF next, after
      <4>3. /\ [j EXCEPT !.frontier = next, !.ids = @ \cup next].pc = j.pc
            /\ [j EXCEPT !.pc = after, !.frontier = {}, !.cursor = j.dest, !.seen = {j.id}].pc = after
        BY <1>2 DEF Job
      <4>4. j.pc \notin Moving
        BY <4>1 DEF Moving
      <4> QED
        BY <4>1, <4>2, <4>3, <4>4, Zenon
    <3>2. CASE ReadAncestor(r)
      <4> DEFINE up == parent[j.cursor]
                 seen == j.seen \cup {j.cursor}
                 ids == j.ids \cup ({j.cursor} \cap archived)
                 pc == AfterClimb(up)
      <4>1. \/ req' = [req EXCEPT ![r] = [j EXCEPT !.pc = "restore"]]
            \/ req' = [req EXCEPT ![r] = [j EXCEPT !.pc = pc, !.seen = seen,
                                                  !.ids = ids, !.cursor = up]]
        BY <3>2, Zenon DEF ReadAncestor, Continue
      <4>2. pc \notin Moving /\ "restore" \notin Moving
        BY DEF AfterClimb, Moving
      <4> HIDE DEF up, seen, ids, pc
      <4>3. /\ [j EXCEPT !.pc = "restore"].pc = "restore"
            /\ [j EXCEPT !.pc = pc, !.seen = seen, !.ids = ids, !.cursor = up].pc = pc
        BY <1>2 DEF Job
      <4> QED
        BY <4>1, <4>2, <4>3, Zenon
    <3>3. CASE ArchiveWrite(r) \/ RestoreWrite(r) \/ ImportDone(r)
      BY <1>1, <3>3 DEF ArchiveWrite, RestoreWrite, ImportDone, Wrote, Overtakes, Continue
    <3> QED
      BY <1>6, <3>1, <3>2, <3>3
  <2>3. PICK new : req' = [req EXCEPT ![r] = new] /\ new.pc \notin Moving
    BY <2>2
  <2>4. new \in Job
    BY <1>2, <2>3 DEF HomeInv, TypeOK
  <2> QED
    BY <2>1, <2>3, <2>4, QuietRead
<1>7. CASE MoveWalk(r)
  <2> DEFINE up == parent[j.cursor]
             seen == j.seen \cup {j.cursor}
  <2>1. /\ j.pc = "walk" /\ pages' = pages /\ parent' = parent
        /\ j.id \in pages /\ j.cursor \in pages
        /\ outrun' = outrun /\ raced' = raced
    BY <1>2, <1>7 DEF MoveWalk, Continue, tree, races, HeldOK
  <2>2. Forest'
    BY <2>1 DEF MoverInv, Forest, NoCycles, Acyclic
  <2>3. CASE req' = [req EXCEPT ![r] = Idle]
    BY <1>1, <2>1, <2>3, QuietRead
  <2>4. ASSUME NEW pc \in {"walk", "siblings"}, up # j.id,
               pc = "siblings" => up \in seen \cup {Null},
               req' = [req EXCEPT ![r] = [j EXCEPT !.pc = pc, !.seen = seen, !.cursor = up]]
        PROVE  MoverInv'
    <3>1. PICK new \in Job : new = req'[r]
      BY <1>2
    <3>2. req' = [req EXCEPT ![r] = new]
      BY <2>4, <3>1 DEF HomeInv, TypeOK
    <3>3. /\ new.pc = pc /\ new.seen = seen /\ new.cursor = up
          /\ new.id = j.id /\ new.dest = j.dest
      BY <1>2, <2>4, <3>1 DEF HomeInv, TypeOK, Job
    <3>4. r \notin outrun =>
            /\ seen \subseteq pages /\ j.id \notin seen /\ j.dest \in seen
            /\ \A p \in seen : parent[p] \in seen \cup {up, Null}
      BY <1>2, <2>1 DEF GuardOK
    <3>5. r \notin outrun => GuardOK(new)
      BY <2>1, <2>4, <3>3, <3>4 DEF GuardOK
    <3>6. r \notin outrun' => GuardOK(new)'
      BY <2>1, <3>5, GuardStable
    <3> QED
      BY <2>1, <2>2, <3>2, <3>6, MoverStep
  <2>5. [j EXCEPT !.seen = seen, !.cursor = up]
          = [j EXCEPT !.pc = "walk", !.seen = seen, !.cursor = up]
    BY <1>2, <2>1 DEF Job
  <2>6. \/ req' = [req EXCEPT ![r] = Idle]
        \/ /\ up # j.id
           /\ req' = [req EXCEPT ![r] = [j EXCEPT !.seen = seen, !.cursor = up]]
        \/ /\ up # j.id /\ up \in seen \cup {Null}
           /\ req' = [req EXCEPT ![r] = [j EXCEPT !.pc = "siblings", !.seen = seen, !.cursor = up]]
    BY <1>7, Zenon DEF MoveWalk, Continue
  <2> QED
    BY <2>3, <2>4, <2>5, <2>6
<1>8. ASSUME NEW anchor \in Anchors, MoveSiblings(r, anchor)
      PROVE  MoverInv'
  <2>1. /\ j.pc = "siblings" /\ pages' = pages /\ parent' = parent
        /\ outrun' = outrun /\ raced' = raced
    BY <1>8 DEF MoveSiblings, Continue, tree, races
  <2>2. Forest'
    BY <2>1 DEF MoverInv, Forest, NoCycles, Acyclic
  <2>3. CASE req' = [req EXCEPT ![r] = Idle]
    BY <1>1, <2>1, <2>3, QuietRead
  <2>4. ASSUME NEW k,
               req' = [req EXCEPT ![r] = [j EXCEPT !.pc = "place", !.key = k, !.anchor = anchor]]
        PROVE  MoverInv'
    <3>1. PICK new \in Job : new = req'[r]
      BY <1>2
    <3>2. req' = [req EXCEPT ![r] = new]
      BY <2>4, <3>1 DEF HomeInv, TypeOK
    <3>3. new.pc = "place" /\ new.seen = j.seen /\ new.id = j.id /\ new.dest = j.dest
      BY <1>2, <2>4, <3>1 DEF HomeInv, TypeOK, Job
    <3>4. r \notin outrun => GuardOK(new)
      BY <1>2, <2>1, <3>3 DEF GuardOK
    <3>5. r \notin outrun' => GuardOK(new)'
      BY <2>1, <3>4, GuardStable
    <3> QED
      BY <2>1, <2>2, <3>2, <3>5, MoverStep
  <2> QED
    BY <1>8, <2>3, <2>4 DEF MoveSiblings, Continue
<1> QED
  BY <1>3, <1>4, <1>5, <1>6, <1>7, <1>8 DEF Step

\* move's cycle guard, for any number of moves at once: however creates, moves,
\* archives, restores and imports interleave, no page is its own ancestor until
\* a move gives a page a new parent although another did so since its request
\* began.
THEOREM ForestInvariant == Spec => []Forest
<1>1. Init => HomeInv /\ MoverInv
  BY HomeInvInit DEF Init, Idle, MoverInv, GuardOK, Forest, NoCycles
<1>2. HomeInv /\ MoverInv /\ [Next]_vars => (HomeInv /\ MoverInv)'
  <2> SUFFICES ASSUME HomeInv, MoverInv, [Next]_vars PROVE MoverInv'
    BY HomeInvNext
  <2>1. CASE UNCHANGED vars
    BY <2>1 DEF vars, races, MoverInv, Forest, NoCycles, Acyclic, GuardOK
  <2>2. ASSUME NEW r \in Request, Take(r) PROVE MoverInv'
    BY <2>2, TakeMover
  <2>3. ASSUME NEW r \in Request, Step(r) PROVE MoverInv'
    BY <2>3, StepMover, HomeInvNext DEF Next
  <2> QED
    BY <2>1, <2>2, <2>3 DEF Next
<1>3. HomeInv /\ MoverInv => Forest
  BY DEF MoverInv
<1> QED
  BY <1>1, <1>2, <1>3, PTL DEF Spec

----------------------------------------------------------------------------
(* The cascades of archive and restore. *)

\* A set with the page and the children of its members holds the subtree; one
\* with the page and the parents of its members holds the lineage.
LEMMA SubtreeLeast ==
  ASSUME NEW p \in pages, NEW K, p \in K, \A c \in pages : parent[c] \in K => c \in K
  PROVE  Subtree(p) \subseteq K
<1> DEFINE S == K \cap pages
<1>1. S \in SUBSET pages /\ p \in S
  OBVIOUS
<1>2. \A c \in pages : parent[c] \in S => c \in S
  OBVIOUS
<1> QED
  BY <1>1, <1>2 DEF Subtree, Below

LEMMA LineageLeast ==
  ASSUME NEW p \in pages, NEW K, p \in K,
         \A c \in K : parent[c] \in pages => parent[c] \in K
  PROVE  Lineage(p) \subseteq K
<1> DEFINE S == K \cap pages
<1>1. S \in SUBSET pages /\ p \in S
  OBVIOUS
<1>2. \A c \in S : parent[c] \in pages => parent[c] \in S
  OBVIOUS
<1> QED
  BY <1>1, <1>2 DEF Lineage, Above

\* A read: only slot r's job changes, and no other becomes un-overtaken.
LEMMA CascadeRead ==
  ASSUME HomeInv, CascadeInv, NEW r \in Request, NEW j \in Job, UNCHANGED tree,
         req' = [req EXCEPT ![r] = j], overtaken \subseteq overtaken' \cup {r},
         r \notin overtaken' => SearchOK(j) /\ ClimbOK(j)
  PROVE  CascadeInv'
<1>1. ASSUME NEW q \in Request, q \notin overtaken'
      PROVE  SearchOK(req[q])' /\ ClimbOK(req[q])'
  <2>1. CASE q = r
    <3>1. req'[q] = j
      BY <2>1 DEF HomeInv, TypeOK
    <3> QED
      BY <1>1, <2>1, <3>1 DEF SearchOK, ClimbOK, Subtree, Below, tree
  <2>2. CASE q # r
    <3>1. req'[q] = req[q] /\ q \notin overtaken
      BY <1>1, <2>2 DEF HomeInv, TypeOK
    <3>2. SearchOK(req[q]) /\ ClimbOK(req[q])
      BY <3>1 DEF CascadeInv
    <3> QED
      BY <3>1, <3>2 DEF SearchOK, ClimbOK, Subtree, Below, tree
  <2> QED
    BY <2>1, <2>2
<1> QED
  BY <1>1 DEF CascadeInv

\* A write: every other handler under way is overtaken.
LEMMA CascadeWrite ==
  ASSUME HomeInv, NEW r \in Request, NEW j,
         req' = [req EXCEPT ![r] = j], j.pc \in {"idle", "import"},
         \A q \in Request \ {r} : q \notin overtaken' => req[q].pc = "idle"
  PROVE  CascadeInv'
<1>1. ASSUME NEW q \in Request, q \notin overtaken'
      PROVE  req'[q].pc \in {"idle", "import"}
  BY <1>1 DEF HomeInv, TypeOK
<1> QED
  BY <1>1 DEF CascadeInv, SearchOK, ClimbOK

LEMMA TakeCascade ==
  ASSUME HomeInv, CascadeInv, HomeInv', NEW r \in Request, Take(r)
  PROVE  CascadeInv'
<1>1. ASSUME NEW w \in Workspace, NEW p \in pages \cup {Null}, CreateRead(r, w, p)
      PROVE  CascadeInv'
  <2>1. PICK k : Begin(r, [Idle EXCEPT !.pc = "create", !.goal = "create", !.home = w,
                                       !.dest = p, !.key = k])
    BY <1>1 DEF CreateRead
  <2> DEFINE j == [Idle EXCEPT !.pc = "create", !.goal = "create", !.home = w,
                               !.dest = p, !.key = k]
  <2>2. j.pc = "create"
    BY DEF Idle
  <2> HIDE DEF j
  <2>3. req' = [req EXCEPT ![r] = j] /\ overtaken' = overtaken \ {r} /\ UNCHANGED tree
    BY <1>1, <2>1 DEF j, CreateRead, Begin
  <2>4. j \in Job
    BY <2>3 DEF HomeInv, TypeOK
  <2> QED
    BY <2>2, <2>3, <2>4, CascadeRead DEF SearchOK, ClimbOK
<1>2. ASSUME NEW id \in pages, NEW p \in pages \cup {Null}, MoveBegin(r, id, p)
      PROVE  CascadeInv'
  <2> DEFINE j == [Idle EXCEPT !.pc = AfterLoad(p), !.goal = "move",
                               !.home = home[id], !.id = id,
                               !.dest = p, !.cursor = p]
  <2>1. j.pc \in {"siblings", "walk"}
    BY DEF Idle, AfterLoad
  <2>2. Begin(r, j) /\ UNCHANGED tree
    BY <1>2 DEF MoveBegin
  <2> HIDE DEF j
  <2>3. req' = [req EXCEPT ![r] = j] /\ overtaken' = overtaken \ {r}
    BY <2>2 DEF Begin
  <2>4. j \in Job
    BY <2>3 DEF HomeInv, TypeOK
  <2> QED
    BY <2>1, <2>2, <2>3, <2>4, CascadeRead DEF SearchOK, ClimbOK
<1>3. ASSUME NEW goal \in {"archive", "restore"}, NEW id \in pages,
             CascadeBegin(r, goal, id)
      PROVE  CascadeInv'
  <2> DEFINE j == [Idle EXCEPT !.pc = "children", !.goal = goal, !.id = id,
                               !.dest = parent[id], !.frontier = {id}, !.ids = {id}]
  <2>1. /\ j.pc = "children" /\ j.id = id /\ j.dest = parent[id]
        /\ j.frontier = {id} /\ j.ids = {id}
    BY DEF Idle
  <2>2. Begin(r, j) /\ UNCHANGED tree
    BY <1>3 DEF CascadeBegin
  <2> HIDE DEF j
  <2>3. req' = [req EXCEPT ![r] = j] /\ overtaken' = overtaken \ {r}
    BY <2>2 DEF Begin
  <2>4. j \in Job
    BY <2>3 DEF HomeInv, TypeOK
  <2>5. SearchOK(j) /\ ClimbOK(j)
    BY <2>1 DEF SearchOK, ClimbOK
  <2> QED
    BY <2>2, <2>3, <2>4, <2>5, CascadeRead
<1>4. ASSUME NEW w \in Workspace, NEW id \in Page, ImportRoot(r, w, id)
      PROVE  CascadeInv'
  <2> DEFINE j == [Idle EXCEPT !.pc = "import", !.goal = "import", !.home = w, !.id = id]
  <2>1. j.pc = "import"
    BY DEF Idle
  <2>2. /\ req' = [req EXCEPT ![r] = j]
        /\ \A q \in Request \ {r} : q \notin overtaken' => req[q].pc = "idle"
    BY <1>4 DEF ImportRoot
  <2> HIDE DEF j
  <2> QED
    BY <2>1, <2>2, CascadeWrite
<1> QED
  BY <1>1, <1>2, <1>3, <1>4 DEF Take

LEMMA StepCascade ==
  ASSUME HomeInv, CascadeInv, HomeInv', NEW r \in Request, Step(r)
  PROVE  CascadeInv'
<1> DEFINE j == req[r]
<1>1. j \in Job /\ HeldOK(j) /\ req'[r] \in Job
  BY DEF HomeInv, TypeOK
<1>2. r \notin overtaken => SearchOK(j) /\ ClimbOK(j)
  BY DEF CascadeInv
<1>3. Idle.pc = "idle"
  BY DEF Idle
<1>4. CASE (\E id \in Page : CreateInsert(r, id)) \/ MovePlace(r) \/ ArchiveWrite(r) \/ RestoreWrite(r)
  <2>1. Overtakes(r, Idle)
    BY <1>4 DEF CreateInsert, MovePlace, ArchiveWrite, RestoreWrite, Wrote
  <2> QED
    BY <1>3, <2>1, CascadeWrite DEF Overtakes
<1>5. ASSUME NEW id \in Page, ImportChild(r, id)
      PROVE  CascadeInv'
  <2> DEFINE key == KeyBetween(j.key, Null)
  <2>1. j.pc = "import" /\ Wrote(r, [j EXCEPT !.key = key])
    BY <1>5 DEF ImportChild
  <2> HIDE DEF key
  <2>2. [j EXCEPT !.key = key].pc = "import"
    BY <1>1, <2>1 DEF Job
  <2> QED
    BY <2>1, <2>2, CascadeWrite DEF Wrote, Overtakes
<1>6. CASE MoveWalk(r) \/ ImportDone(r) \/ \E anchor \in Anchors : MoveSiblings(r, anchor)
  <2>1. /\ UNCHANGED tree /\ overtaken' = overtaken
        /\ \E new : req' = [req EXCEPT ![r] = new] /\ new.pc \in {"idle", "walk", "siblings", "place"}
    BY <1>1, <1>3, <1>6 DEF MoveWalk, ImportDone, MoveSiblings, Continue, Job
  <2>2. PICK new : /\ req' = [req EXCEPT ![r] = new]
                   /\ new.pc \in {"idle", "walk", "siblings", "place"}
    BY <2>1
  <2>3. new \in Job
    BY <2>2 DEF HomeInv, TypeOK
  <2> QED
    BY <2>1, <2>2, <2>3, CascadeRead DEF SearchOK, ClimbOK
<1>7. CASE ReadChildren(r)
  <2> DEFINE next == Children(j.frontier)
             after == AfterSearch(j.goal, j.dest)
  <2>1. /\ UNCHANGED tree /\ overtaken' = overtaken /\ j.pc = "children"
        /\ \/ req' = [req EXCEPT ![r] = [j EXCEPT !.frontier = next, !.ids = @ \cup next]]
           \/ /\ next = {}
              /\ req' = [req EXCEPT ![r] = [j EXCEPT !.pc = after, !.frontier = {},
                                                     !.cursor = j.dest, !.seen = {j.id}]]
    BY <1>7, Zenon DEF ReadChildren, Continue
  <2>2. /\ after \in {"archive", "restore", "ancestors"}
        /\ after = "restore" => j.dest = Null
    BY DEF AfterSearch, AfterClimb
  <2>3. \A c \in pages : parent[c] \in j.frontier => c \in next
    BY DEF Children
  <2>4. j.id \in pages
    BY <1>1, <2>1 DEF HeldOK
  <2> HIDE DEF next, after
  <2>5. PICK new \in Job : new = req'[r]
    BY <1>1
  <2>6. req' = [req EXCEPT ![r] = new]
    BY <2>1, <2>5 DEF HomeInv, TypeOK
  <2>7. CASE req' = [req EXCEPT ![r] = [j EXCEPT !.frontier = next, !.ids = @ \cup next]]
    <3>1. /\ new.pc = "children" /\ new.id = j.id /\ new.dest = j.dest
          /\ new.frontier = next /\ new.ids = j.ids \cup next
      BY <1>1, <2>1, <2>5, <2>7 DEF HomeInv, TypeOK, Job
    <3>2. r \notin overtaken => SearchOK(new) /\ ClimbOK(new)
      BY <1>2, <2>1, <2>3, <3>1 DEF SearchOK, ClimbOK
    <3> QED
      BY <2>1, <2>6, <3>2, CascadeRead
  <2>8. CASE /\ next = {}
             /\ req' = [req EXCEPT ![r] = [j EXCEPT !.pc = after, !.frontier = {},
                                                    !.cursor = j.dest, !.seen = {j.id}]]
    <3>1. /\ new.pc = after /\ new.id = j.id /\ new.ids = j.ids
          /\ new.cursor = j.dest /\ new.seen = {j.id}
      BY <1>1, <2>1, <2>5, <2>8 DEF HomeInv, TypeOK, Job
    <3>2. ASSUME r \notin overtaken
          PROVE  SearchOK(new) /\ ClimbOK(new)
      <4>1. /\ j.id \in j.ids /\ j.dest = parent[j.id]
            /\ \A c \in pages : parent[c] \in j.ids => c \in j.ids
        BY <1>2, <2>1, <2>3, <2>8, <3>2 DEF SearchOK
      <4>2. Subtree(j.id) \subseteq j.ids
        BY <2>4, <4>1, SubtreeLeast
      <4> QED
        BY <2>2, <3>1, <4>1, <4>2 DEF SearchOK, ClimbOK
    <3> QED
      BY <2>1, <2>6, <3>2, CascadeRead
  <2> QED
    BY <2>1, <2>7, <2>8
<1>8. CASE ReadAncestor(r)
  <2> DEFINE up == parent[j.cursor]
             seen == j.seen \cup {j.cursor}
             ids == j.ids \cup ({j.cursor} \cap archived)
             pc == AfterClimb(up)
  <2>1. /\ UNCHANGED tree /\ overtaken' = overtaken /\ j.pc = "ancestors"
        /\ \/ /\ j.cursor \in j.seen
              /\ req' = [req EXCEPT ![r] = [j EXCEPT !.pc = "restore"]]
           \/ req' = [req EXCEPT ![r] = [j EXCEPT !.pc = pc, !.seen = seen,
                                                  !.ids = ids, !.cursor = up]]
    BY <1>8, Zenon DEF ReadAncestor, Continue
  <2>2. pc \in {"restore", "ancestors"} /\ (pc = "restore" => up = Null)
    BY DEF AfterClimb
  <2>3. PICK new \in Job : new = req'[r]
    BY <1>1
  <2>4. req' = [req EXCEPT ![r] = new]
    BY <2>1, <2>3 DEF HomeInv, TypeOK
  <2>5. CASE j.cursor \in j.seen /\ req' = [req EXCEPT ![r] = [j EXCEPT !.pc = "restore"]]
    <3>1. new.pc = "restore" /\ new.id = j.id /\ new.ids = j.ids /\ new.seen = j.seen
      BY <1>1, <2>3, <2>5 DEF HomeInv, TypeOK, Job
    <3>2. r \notin overtaken => SearchOK(new) /\ ClimbOK(new)
      BY <1>2, <2>1, <2>5, <3>1 DEF SearchOK, ClimbOK
    <3> QED
      BY <2>1, <2>4, <3>2, CascadeRead
  <2>6. CASE req' = [req EXCEPT ![r] = [j EXCEPT !.pc = pc, !.seen = seen,
                                                 !.ids = ids, !.cursor = up]]
    <3> HIDE DEF pc
    <3>1. /\ new.pc = pc /\ new.id = j.id /\ new.ids = ids /\ new.seen = seen
          /\ new.cursor = up
      BY <1>1, <2>3, <2>6 DEF HomeInv, TypeOK, Job
    <3>2. r \notin overtaken => SearchOK(new) /\ ClimbOK(new)
      BY <1>2, <2>1, <2>2, <3>1 DEF SearchOK, ClimbOK
    <3> QED
      BY <2>1, <2>4, <3>2, CascadeRead
  <2> QED
    BY <2>1, <2>5, <2>6
<1> QED
  BY <1>4, <1>5, <1>6, <1>7, <1>8 DEF Step

LEMMA CascadeInit == Init => CascadeInv
BY DEF Init, Idle, CascadeInv, SearchOK, ClimbOK

LEMMA CascadeNext == HomeInv /\ CascadeInv /\ [Next]_vars => CascadeInv'
<1> SUFFICES ASSUME HomeInv, CascadeInv, [Next]_vars PROVE CascadeInv'
  OBVIOUS
<1>1. CASE UNCHANGED vars
  BY <1>1 DEF vars, CascadeInv, SearchOK, ClimbOK, Subtree, Below
<1>2. ASSUME NEW r \in Request, Take(r) PROVE CascadeInv'
  BY <1>2, TakeCascade, HomeInvNext DEF Next
<1>3. ASSUME NEW r \in Request, Step(r) PROVE CascadeInv'
  BY <1>3, StepCascade, HomeInvNext DEF Next
<1> QED
  BY <1>1, <1>2, <1>3 DEF Next

\* Only the slot's own last step writes what it has computed.
LEMMA WritesMarks ==
  ASSUME HomeInv, [Next]_vars, NEW r \in Request,
         NEW pc \in {"archive", "restore", "place"}, Writes(r, pc)
  PROVE  /\ pc = "archive" => ArchiveWrite(r)
         /\ pc = "restore" => RestoreWrite(r)
         /\ pc = "place" => MovePlace(r)
<1>1. req[r].pc = pc /\ req'[r].pc = "idle" /\ req[r] \in Job
  BY DEF Writes, HomeInv, TypeOK
<1>2. req' # req
  BY <1>1
<1>3. PICK q \in Request : Take(q) \/ Step(q)
  BY <1>2 DEF Next, vars
<1>4. \E new : req' = [req EXCEPT ![q] = new]
  <2>1. CASE Take(q)
    BY <2>1 DEF Take, CreateRead, MoveBegin, CascadeBegin, ImportRoot, Begin
  <2>2. CASE Step(q)
    BY <2>2, Zenon
    DEF Step, CreateInsert, MoveWalk, MoveSiblings, MovePlace, ReadChildren,
        ReadAncestor, ArchiveWrite, RestoreWrite, ImportChild, ImportDone, Continue,
        Wrote, Overtakes
  <2> QED
    BY <1>3, <2>1, <2>2
<1>5. q = r
  BY <1>1, <1>4 DEF HomeInv, TypeOK
<1>6. ~Take(r)
  BY <1>1 DEF Take, Free
<1> QED
  BY <1>1, <1>3, <1>5, <1>6
  DEF Step, CreateInsert, MoveWalk, MoveSiblings, MovePlace, ReadChildren,
      ReadAncestor, ArchiveWrite, RestoreWrite, ImportChild, ImportDone

\* archive: when no other write overtook the request, every descendant of the
\* page is archived when it answers, however deep the tree is.
THEOREM ArchiveIsComplete == Spec => ArchiveCascades
<1>1. HomeInv /\ CascadeInv /\ [Next]_vars =>
        \A r \in Request \ overtaken :
          Writes(r, "archive") => Subtree(req[r].id) \subseteq archived'
  <2> SUFFICES ASSUME HomeInv, CascadeInv, [Next]_vars,
                      NEW r \in Request \ overtaken, Writes(r, "archive")
               PROVE  Subtree(req[r].id) \subseteq archived'
    OBVIOUS
  <2>1. ArchiveWrite(r)
    BY WritesMarks
  <2>2. Subtree(req[r].id) \subseteq req[r].ids
    BY <2>1 DEF ArchiveWrite, CascadeInv, SearchOK
  <2> QED
    BY <2>1, <2>2 DEF ArchiveWrite
<1> QED
  BY <1>1, HomeInvInit, HomeInvNext, CascadeInit, CascadeNext, PTL DEF Spec, ArchiveCascades

\* restore: when no other write overtook the request, no page below or above
\* the restored one is archived when it answers.
THEOREM RestoreIsReachable == Spec => RestoreReaches
<1>1. HomeInv /\ CascadeInv /\ [Next]_vars =>
        \A r \in Request \ overtaken :
          Writes(r, "restore") =>
            (Subtree(req[r].id) \cup Lineage(req[r].id)) \cap archived' = {}
  <2> SUFFICES ASSUME HomeInv, CascadeInv, [Next]_vars,
                      NEW r \in Request \ overtaken, Writes(r, "restore")
               PROVE  (Subtree(req[r].id) \cup Lineage(req[r].id)) \cap archived' = {}
    OBVIOUS
  <2> DEFINE j == req[r]
  <2>1. RestoreWrite(r)
    BY WritesMarks
  <2>2. /\ j.id \in pages /\ Null \notin pages /\ j.pc = "restore"
        /\ archived' = archived \ j.ids
    BY <2>1, InitialAssumption DEF RestoreWrite, HomeInv, HeldOK, TypeOK
  <2>3. /\ Subtree(j.id) \subseteq j.ids /\ j.id \in j.seen
        /\ j.seen \cap archived \subseteq j.ids
        /\ \A p \in j.seen : parent[p] \in j.seen \cup {Null}
    BY <2>2 DEF CascadeInv, SearchOK, ClimbOK
  <2>4. Lineage(j.id) \subseteq j.seen
    BY <2>2, <2>3, LineageLeast
  <2> QED
    BY <2>2, <2>3, <2>4
<1> QED
  BY <1>1, HomeInvInit, HomeInvNext, CascadeInit, CascadeNext, PTL DEF Spec, RestoreReaches
----------------------------------------------------------------------------
(* Where a move puts its page. *)

LEMMA PlaceInit == Init => PlaceInv
BY DEF Init, Idle, PlaceInv, PlacedOK

\* A slot reaches the write of a move only from the siblings query.  Any other
\* step leaves the tree alone, or overtakes every other handler under way.
LEMMA StepLeavesPlaces ==
  ASSUME HomeInv, HomeInv', NEW r \in Request, Take(r) \/ Step(r)
  PROVE  /\ \A q \in Request \ {r} : req'[q] = req[q]
         /\ \A q \in Request \ {r} : q \notin overtaken' =>
              \/ req[q].pc = "idle"
              \/ q \notin overtaken /\ UNCHANGED tree
         /\ req'[r].pc = "place" => \E anchor \in Anchors : MoveSiblings(r, anchor)
<1>1. req \in [Request -> Job] /\ req' \in [Request -> Job]
  BY DEF HomeInv, TypeOK
<1>2. Idle.pc = "idle" /\ DOMAIN Idle = DOMAIN req[r]
  BY <1>1 DEF Idle, Job
<1>3. CASE Take(r)
  <2>1. ASSUME NEW w \in Workspace, NEW p \in pages \cup {Null}, CreateRead(r, w, p)
        PROVE  /\ UNCHANGED tree /\ overtaken' = overtaken \ {r}
               /\ \E j : req' = [req EXCEPT ![r] = j] /\ j.pc # "place"
    <3>1. PICK k : Begin(r, [Idle EXCEPT !.pc = "create", !.goal = "create", !.home = w,
                                         !.dest = p, !.key = k])
      BY <2>1 DEF CreateRead
    <3> DEFINE j == [Idle EXCEPT !.pc = "create", !.goal = "create", !.home = w,
                                 !.dest = p, !.key = k]
    <3>2. j.pc # "place"
      BY DEF Idle
    <3> HIDE DEF j
    <3> QED
      BY <2>1, <3>1, <3>2 DEF j, CreateRead, Begin
  <2>2. ASSUME NEW id \in pages, NEW p \in pages \cup {Null}, MoveBegin(r, id, p)
        PROVE  /\ UNCHANGED tree /\ overtaken' = overtaken \ {r}
               /\ \E j : req' = [req EXCEPT ![r] = j] /\ j.pc # "place"
    <3> DEFINE j == [Idle EXCEPT !.pc = AfterLoad(p), !.goal = "move",
                                 !.home = home[id], !.id = id,
                                 !.dest = p, !.cursor = p]
    <3>1. j.pc # "place"
      BY DEF Idle, AfterLoad
    <3>2. Begin(r, j) /\ UNCHANGED tree
      BY <2>2 DEF MoveBegin
    <3> HIDE DEF j
    <3> QED
      BY <3>1, <3>2 DEF Begin
  <2>3. ASSUME NEW goal \in {"archive", "restore"}, NEW id \in pages,
               CascadeBegin(r, goal, id)
        PROVE  /\ UNCHANGED tree /\ overtaken' = overtaken \ {r}
               /\ \E j : req' = [req EXCEPT ![r] = j] /\ j.pc # "place"
    <3> DEFINE j == [Idle EXCEPT !.pc = "children", !.goal = goal, !.id = id,
                                 !.dest = parent[id], !.frontier = {id}, !.ids = {id}]
    <3>1. j.pc # "place"
      BY DEF Idle
    <3>2. Begin(r, j) /\ UNCHANGED tree
      BY <2>3 DEF CascadeBegin
    <3> HIDE DEF j
    <3> QED
      BY <3>1, <3>2 DEF Begin
  <2>4. ASSUME NEW w \in Workspace, NEW id \in Page, ImportRoot(r, w, id)
        PROVE  /\ \A q \in Request \ {r} : q \notin overtaken' => req[q].pc = "idle"
               /\ \E j : req' = [req EXCEPT ![r] = j] /\ j.pc # "place"
    <3> DEFINE j == [Idle EXCEPT !.pc = "import", !.goal = "import", !.home = w, !.id = id]
    <3>1. j.pc # "place"
      BY DEF Idle
    <3>2. /\ req' = [req EXCEPT ![r] = j]
          /\ \A q \in Request \ {r} : q \notin overtaken' => req[q].pc = "idle"
      BY <2>4 DEF ImportRoot
    <3> HIDE DEF j
    <3> QED
      BY <3>1, <3>2
  <2>5. /\ \A q \in Request \ {r} : q \notin overtaken' =>
              \/ req[q].pc = "idle"
              \/ q \notin overtaken /\ UNCHANGED tree
        /\ \E j : req' = [req EXCEPT ![r] = j] /\ j.pc # "place"
    BY <1>3, <2>1, <2>2, <2>3, <2>4 DEF Take
  <2> QED
    BY <1>1, <2>5
<1>4. CASE Step(r)
  <2>1. CASE \/ \E id \in Page : CreateInsert(r, id) \/ ImportChild(r, id)
             \/ MovePlace(r) \/ ArchiveWrite(r) \/ RestoreWrite(r)
    <3>1. \E j : Overtakes(r, j) /\ j.pc \in {"idle", "import"}
      BY <1>1, <1>2, <2>1
      DEF CreateInsert, ImportChild, MovePlace, ArchiveWrite, RestoreWrite, Wrote, Job
    <3> QED
      BY <1>1, <3>1 DEF Overtakes
  <2>2. CASE MoveWalk(r) \/ ReadChildren(r) \/ ReadAncestor(r) \/ ImportDone(r)
    <3>1. /\ UNCHANGED tree /\ overtaken' = overtaken
          /\ \E j : req' = [req EXCEPT ![r] = j]
      BY <2>2, Zenon DEF MoveWalk, ReadChildren, ReadAncestor, ImportDone, Continue
    <3>2. AfterSearch(req[r].goal, req[r].dest) # "place" /\ \A up : AfterClimb(up) # "place"
      BY DEF AfterSearch, AfterClimb
    <3>3. req'[r].pc # "place"
      <4>1. CASE MoveWalk(r)
        BY <1>1, <1>2, <4>1 DEF MoveWalk, Continue, Job
      <4>2. CASE ReadChildren(r)
        BY <1>1, <3>2, <4>2 DEF ReadChildren, Continue, Job
      <4>3. CASE ReadAncestor(r)
        <5> DEFINE j == req[r]
                   up == parent[j.cursor]
                   seen == j.seen \cup {j.cursor}
                   ids == j.ids \cup ({j.cursor} \cap archived)
                   pc == AfterClimb(up)
        <5>1. \/ req' = [req EXCEPT ![r] = [j EXCEPT !.pc = "restore"]]
              \/ req' = [req EXCEPT ![r] = [j EXCEPT !.pc = pc, !.seen = seen,
                                                     !.ids = ids, !.cursor = up]]
          BY <4>3, Zenon DEF ReadAncestor, Continue
        <5>2. pc # "place"
          BY <3>2
        <5> HIDE DEF up, seen, ids, pc
        <5> QED
          BY <1>1, <5>1, <5>2 DEF Job
      <4>4. CASE ImportDone(r)
        BY <1>1, <1>2, <4>4 DEF ImportDone, Continue
      <4> QED
        BY <2>2, <4>1, <4>2, <4>3, <4>4
    <3> QED
      BY <1>1, <3>1, <3>3
  <2>3. CASE \E anchor \in Anchors : MoveSiblings(r, anchor)
    <3>1. /\ UNCHANGED tree /\ overtaken' = overtaken
          /\ \E j : req' = [req EXCEPT ![r] = j]
      BY <2>3, Zenon DEF MoveSiblings, Continue
    <3> QED
      BY <1>1, <2>3, <3>1
  <2> QED
    BY <1>4, <2>1, <2>2, <2>3, Zenon DEF Step
<1> QED
  BY <1>3, <1>4

\* The siblings query gives a move the place it asked for.
LEMMA SiblingsPlace ==
  ASSUME HomeInv, HomeInv', Roomy, NEW r \in Request, NEW anchor \in Anchors,
         MoveSiblings(r, anchor), req'[r].pc = "place"
  PROVE  PlacedOK(req[r])'
<1> DEFINE j == req[r]
           S == Siblings(j.home, j.dest, j.id)
<1>1. /\ j \in Job /\ anchor \in Anchor /\ sortKey \in [Page -> Int]
      /\ S \in SUBSET Page /\ Idle.pc = "idle"
  BY DEF HomeInv, TypeOK, Anchors, Anchor, AtEnd, MaybePage, Siblings, Idle
<1>2. UNCHANGED tree
  BY DEF MoveSiblings, Continue
<1>3. PICK k \in SortKeys(S, sortKey, anchor) :
        req' = [req EXCEPT ![r] = [j EXCEPT !.pc = "place", !.key = k, !.anchor = anchor]]
  BY <1>1 DEF MoveSiblings, Continue, HomeInv, TypeOK
<1>4. \A p, q \in S : sortKey[p] < sortKey[q] => sortKey[q] - sortKey[p] > 1
  BY DEF Roomy, Siblings
<1>5. Beside(k, S, sortKey, anchor)
  BY <1>1, <1>4, SortKeysBeside
<1>6. /\ req'[r].home = j.home /\ req'[r].dest = j.dest /\ req'[r].id = j.id
      /\ req'[r].key = k /\ req'[r].anchor = anchor
  BY <1>1, <1>3 DEF HomeInv, TypeOK, Job
<1> QED
  BY <1>2, <1>5, <1>6 DEF PlacedOK, Beside, KeysOf, Siblings, tree

LEMMA PlaceNext == HomeInv /\ Roomy /\ PlaceInv /\ [Next]_vars => PlaceInv'
<1> SUFFICES ASSUME HomeInv, Roomy, PlaceInv, [Next]_vars PROVE PlaceInv'
  OBVIOUS
<1>1. CASE UNCHANGED vars
  BY <1>1 DEF vars, PlaceInv, PlacedOK, Beside, KeysOf, Siblings
<1>2. ASSUME NEW r \in Request, Take(r) \/ Step(r),
             NEW q \in Request, q \notin overtaken', req'[q].pc = "place"
      PROVE  PlacedOK(req[q])'
  <2>1. HomeInv'
    BY <1>2, HomeInvNext DEF Next
  <2>2. CASE q = r
    BY <1>2, <2>1, <2>2, StepLeavesPlaces, SiblingsPlace
  <2>3. CASE q # r
    <3>1. req'[q] = req[q] /\ q \notin overtaken /\ UNCHANGED tree
      BY <1>2, <2>1, <2>3, StepLeavesPlaces
    <3>2. PlacedOK(req[q])
      BY <3>1 DEF PlaceInv
    <3> QED
      BY <3>1, <3>2 DEF PlacedOK, Beside, KeysOf, Siblings, tree
  <2> QED
    BY <2>2, <2>3
<1>3. ASSUME NEW r \in Request, Take(r) \/ Step(r) PROVE PlaceInv'
  BY <1>2, <1>3 DEF PlaceInv, PlacedOK
<1> QED
  BY <1>1, <1>3 DEF Next

\* move: where keys leave room, a page that no other write overtook is placed
\* right after its beforeId sibling, right before its afterId sibling, or last,
\* under a key no sibling has, however many siblings there are.
THEOREM MovesLandAsAsked == Spec /\ []Roomy => MovePlacesAsAsked
<1> DEFINE Lands(r) ==
      LET j == req[r]
          key == sortKey'[j.id]
          others == KeysOf(Siblings(j.home, j.dest, j.id), sortKey)
          at == j.anchor.page
      IN /\ key \notin others
         /\ j.anchor.side = "end" => \A k \in others : k < key
         /\ j.anchor.side = "before" =>
              sortKey[at] < key /\ \A k \in others : k > sortKey[at] => k > key
         /\ j.anchor.side = "after" =>
              key < sortKey[at] /\ \A k \in others : k < sortKey[at] => k < key
<1>1. HomeInv /\ PlaceInv /\ [Next]_vars =>
        \A r \in Request \ overtaken : Writes(r, "place") => Lands(r)
  <2> SUFFICES ASSUME HomeInv, PlaceInv, [Next]_vars,
                      NEW r \in Request \ overtaken, Writes(r, "place")
               PROVE  Lands(r)
    OBVIOUS
  <2>1. MovePlace(r)
    BY WritesMarks
  <2>2. /\ req[r].pc = "place" /\ req[r].id \in Page
        /\ sortKey'[req[r].id] = req[r].key
    BY <2>1 DEF MovePlace, HomeInv, HeldOK, TypeOK
  <2>3. Beside(req[r].key, Siblings(req[r].home, req[r].dest, req[r].id), sortKey, req[r].anchor)
    BY <2>2 DEF PlaceInv, PlacedOK
  <2>4. \A k \in KeysOf(Siblings(req[r].home, req[r].dest, req[r].id), sortKey) : k \in Int
    BY DEF KeysOf, Siblings, HomeInv, TypeOK
  <2> QED
    BY <2>2, <2>3, <2>4 DEF Beside
<1> QED
  BY <1>1, HomeInvInit, HomeInvNext, PlaceInit, PlaceNext, PTL DEF Spec, MovePlacesAsAsked
=============================================================================
