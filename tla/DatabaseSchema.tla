--------------------------- MODULE DatabaseSchema ---------------------------
(***************************************************************************)
(* The schema of databases: which pages are databases, their properties    *)
(* and which one is primary, relations in pairs and the links between      *)
(* rows, views and the default one (apps/api/src/databases).               *)
(*                                                                         *)
(* A request is a job.  It reads what it checks first (database-access,    *)
(* the service's own look-ups) and writes in a transaction later; inside a *)
(* transaction each statement sees what was committed when it started      *)
(* (read committed) and waits for rows another transaction has written.    *)
(* Who may write a database is PageAccess's matter: every caller here may. *)
(* The order of columns and of views, names and the configurations of      *)
(* other types are left out.                                               *)
(***************************************************************************)
EXTENDS Integers, FiniteSets

CONSTANTS Database,      \* container pages
          Existing,      \* those that are databases already
          Property, View, Row,
          NameOf,        \* the first property and the first view a database gets
          ViewOf,
          Home,          \* the database each row is under
          Job, MaxRequests, None,
          Unused,        \* an id no row has had
          Gone           \* of a deleted row

\* A value of a row is told from the marks of one that is not there.
ASSUME SchemaAssumption ==
  /\ Existing \subseteq Database
  /\ NameOf \in [Database -> Property] /\ ViewOf \in [Database -> View]
  /\ \A d, e \in Database : NameOf[d] = NameOf[e] \/ ViewOf[d] = ViewOf[e] => d = e
  /\ Home \in [Row -> Database]
  /\ None \notin Property \cup View /\ Unused # Gone
  /\ Database \cap {Unused, Gone} = {}
  /\ [db : Database, type : {"text", "relation"}, primary : BOOLEAN,
      target : Database \cup {None}, paired : Property \cup {None}] \cap {Unused, Gone} = {}

VARIABLES database,      \* its default view and whether it is one
          property, view, link, job, requests,
          strained       \* what requests that crossed, or asked for it, have left loose
vars == <<database, property, view, link, job, requests, strained>>

Idle == [kind |-> "idle", at |-> "idle"]
Column(d, type, primary, target, paired) ==
  [db |-> d, type |-> type, primary |-> primary, target |-> target, paired |-> paired]
Exists(p) == property[p] \notin {Unused, Gone}
Shown(v) == view[v] \notin {Unused, Gone}
IsDatabase(d) == database[d].is
PropertiesOf(d) == {p \in Property : Exists(p) /\ property[p].db = d}
ViewsOf(d) == {v \in View : Shown(v) /\ view[v] = d}

Init ==
  /\ database = [d \in Database |-> [is |-> d \in Existing, default |-> IF d \in Existing THEN ViewOf[d] ELSE None]]
  /\ property = [p \in Property |->
       IF \E d \in Existing : p = NameOf[d]
       THEN Column(CHOOSE d \in Existing : p = NameOf[d], "text", TRUE, None, None) ELSE Unused]
  /\ view = [v \in View |-> IF \E d \in Existing : v = ViewOf[d] THEN CHOOSE d \in Existing : v = ViewOf[d] ELSE Unused]
  /\ link = {}
  /\ job = [j \in Job |-> Idle]
  /\ requests = 0
  /\ strained = {}

\* What two requests that are under way together put at risk: the one primary
\* of a database, the links of two properties, the default of a database.
Linking(r) == r.kind \in {"link", "unlink"}
MakesPrimary(r) == r.kind = "primary" \/ (r.kind = "create" /\ r.column.primary)
SetsDefault(r) == r.kind \in {"default", "removeView"}
Crossed(r, s) ==
  CASE r.kind = "idle" \/ s.kind = "idle" -> {}
    [] MakesPrimary(r) /\ MakesPrimary(s) /\ "create" \in {r.kind, s.kind} -> {r.db} \cap {s.db}
    [] {r.kind, s.kind} = {"primary", "remove"} -> IF r.id = s.id THEN {r.db} ELSE {}
    [] {r.kind, s.kind} = {"link", "unlink"} -> ({r.id, r.paired} \cap {s.id, s.paired}) \ {None}
    [] SetsDefault(r) /\ SetsDefault(s) -> IF r.db = s.db THEN {<<"default", r.db>>} ELSE {}
    [] OTHER -> {}

\* A request arrives and passes its checks; what it read goes with it.
Start(j, request) ==
  /\ job[j] = Idle /\ requests < MaxRequests
  /\ requests' = requests + 1
  /\ job' = [job EXCEPT ![j] = request]
  /\ strained' = strained \cup UNION {Crossed(request, job[k]) : k \in Job}
  /\ UNCHANGED <<database, property, view, link>>
Go(j, stage) == job' = [job EXCEPT ![j].at = stage]
End(j) == job' = [job EXCEPT ![j] = Idle]
At(j, kind, stage) == job[j].kind = kind /\ job[j].at = stage
\* Fails after its checks; a transaction leaves nothing.
Fails(j) == End(j) /\ UNCHANGED <<database, property, view, link, requests, strained>>

\* The next ids: gen_random_uuid hands out new ones.
Pending(p) == \E j \in Job : job[j].kind = "create" /\ p \in {job[j].id, job[j].mirror}
Fresh == {p \in Property : property[p] = Unused /\ ~Pending(p) /\ \A d \in Database : p # NameOf[d]}

-----------------------------------------------------------------------------
(* databases.service create, convert                                       *)
ConvertRead(j) ==
  \E d \in Database :
    /\ ~IsDatabase(d)
    /\ Start(j, [kind |-> "convert", at |-> "write", db |-> d])

\* One transaction; the second of two conversions hits the key of Database.
Convert(j) ==
  LET d == job[j].db
  IN  /\ At(j, "convert", "write") /\ ~IsDatabase(d)
      /\ database' = [database EXCEPT ![d] = [is |-> TRUE, default |-> ViewOf[d]]]
      /\ property' = [property EXCEPT ![NameOf[d]] = Column(d, "text", TRUE, None, None)]
      /\ view' = [view EXCEPT ![ViewOf[d]] = d]
      /\ End(j) /\ UNCHANGED <<link, requests, strained>>
ConvertFails(j) == At(j, "convert", "write") /\ IsDatabase(job[j].db) /\ Fails(j)

-----------------------------------------------------------------------------
(* properties.service create                                               *)
\* A text property, perhaps primary, or a relation to a database, this one or
\* another, perhaps paired with a property that is said to be there.
CreateInputs(d) ==
  {Column(d, "text", primary, None, None) : primary \in BOOLEAN}
    \cup UNION {{Column(d, "relation", FALSE, t, paired) : paired \in Property \cup {None}} :
                  t \in {u \in Database : IsDatabase(u)}}

CreateRead(j) ==
  \E d \in Database, p \in Fresh : \E column \in CreateInputs(d) :
    /\ IsDatabase(d)
    /\ \E mirror \in IF column.type = "relation" /\ column.paired = None THEN Fresh \ {p} ELSE {p} :
         Start(j, [kind |-> "create", at |-> IF column.primary THEN "clear" ELSE "commit",
                   id |-> p, db |-> d, mirror |-> mirror, column |-> column, sees |-> {}])

\* wireRelationPair: what the pair looks like once both sides are written.
PairOk(column) ==
  /\ Exists(column.paired)
  /\ property[column.paired].db = column.target
  /\ property[column.paired].type = "relation"
Wired(p, mirror, column) ==
  IF column.type # "relation" THEN [property EXCEPT ![p] = column]
  ELSE IF column.paired = None
  THEN [property EXCEPT ![p] = [column EXCEPT !.paired = mirror],
                        ![mirror] = Column(column.target, "relation", FALSE, column.db, p)]
  ELSE [property EXCEPT ![p] = column,
                        ![column.paired].target = column.db, ![column.paired].paired = p]

\* A property that gets another partner leaves its old one behind.
Rewires(column) ==
  IF column.type = "relation" /\ column.paired # None
  THEN {column.paired} \cup ({property[column.paired].paired} \cap Property) ELSE {}

Create(j) ==
  LET column == job[j].column
  IN  /\ At(j, "create", "commit") /\ ~column.primary
      /\ column.type = "relation" /\ column.paired # None => PairOk(column)
      /\ property' = Wired(job[j].id, job[j].mirror, column)
      /\ strained' = strained \cup Rewires(column) \cup (IF Rewires(column) = {} THEN {} ELSE {job[j].id})
      /\ End(j) /\ UNCHANGED <<database, view, link, requests>>
CreateFails(j) ==
  LET column == job[j].column
  IN  At(j, "create", "commit") /\ column.type = "relation" /\ column.paired # None /\ ~PairOk(column) /\ Fails(j)

-----------------------------------------------------------------------------
(* properties.service update.  PATCH { isPrimary } and PATCH { config }.   *)
\* Making a property primary writes it, which locks it, then clears the flag
\* of the others its second statement sees.
Locked(j, S) ==
  \E k \in Job \ {j} : job[k].kind = "primary" /\ job[k].at \in {"clear", "commit"} /\ job[k].id \in S

UpdateRead(j) ==
  \E p \in Property :
    /\ Exists(p)
    /\ \/ Start(j, [kind |-> "primary", at |-> "write", id |-> p, db |-> property[p].db, sees |-> {}])
       \/ Start(j, [kind |-> "unmark", at |-> "write", id |-> p])
       \/ /\ property[p].type = "relation"
          /\ \E target \in Database, paired \in Property \cup {None} :
               Start(j, [kind |-> "configure", at |-> "write", id |-> p, target |-> target, paired |-> paired])

MakePrimary(j) ==
  /\ At(j, "primary", "write") /\ Exists(job[j].id) /\ ~Locked(j, {job[j].id})
  /\ Go(j, "clear")
  /\ UNCHANGED <<database, property, view, link, requests, strained>>

ClearOthers(j) ==
  /\ MakesPrimary(job[j]) /\ job[j].at = "clear"
  /\ job' = [job EXCEPT ![j].at = "commit", ![j].sees = PropertiesOf(job[j].db) \ {job[j].id}]
  /\ UNCHANGED <<database, property, view, link, requests, strained>>

\* [The flag is cleared of what was there when the handler began.]
PrimaryAlone(j) ==
  [property EXCEPT ![job[j].id] = IF job[j].kind = "create" THEN job[j].column ELSE [@ EXCEPT !.primary = TRUE]]
Primary(j) ==
  LET p == job[j].id
      made == IF job[j].kind = "create" THEN job[j].column ELSE [property[p] EXCEPT !.primary = TRUE]
  IN  [q \in Property |-> IF q = p THEN made
                          ELSE IF q \in job[j].sees /\ Exists(q) THEN [property[q] EXCEPT !.primary = FALSE]
                          ELSE property[q]]

CommitPrimary(j) ==
  /\ job[j].at = "commit" /\ ~Locked(j, job[j].sees)
  /\ property' = Primary(j)
  /\ End(j) /\ UNCHANGED <<database, view, link, requests, strained>>
CreatePrimary(j) == job[j].kind = "create" /\ job[j].column.primary /\ CommitPrimary(j)
UpdatePrimary(j) == job[j].kind = "primary" /\ CommitPrimary(j)

\* Each of two transactions waits for a row of the other: one is rolled back.
Deadlock(j) ==
  /\ At(j, "primary", "commit") /\ Locked(j, job[j].sees)
  /\ \E k \in Job \ {j} : At(k, "primary", "commit") /\ job[j].id \in job[k].sees
  /\ Fails(j)

\* isPrimary false asks for a database without one.
Unmark(j) ==
  LET p == job[j].id
  IN  /\ At(j, "unmark", "write") /\ Exists(p) /\ ~Locked(j, {p})
      /\ property' = [property EXCEPT ![p].primary = FALSE]
      /\ strained' = IF property[p].primary THEN strained \cup {property[p].db} ELSE strained
      /\ End(j) /\ UNCHANGED <<database, view, link, requests>>

\* The new configuration replaces the old one, whatever partner it names; that
\* one may have another, and is not asked.
Configure(j) ==
  LET p == job[j].id
  IN  /\ At(j, "configure", "write") /\ Exists(p) /\ ~Locked(j, {p})
      /\ property' = [property EXCEPT ![p].target = job[j].target, ![p].paired = job[j].paired]
      /\ strained' = strained \cup ({p, job[j].paired} \ {None})
      /\ End(j) /\ UNCHANGED <<database, view, link, requests>>
UpdateFails(j) ==
  /\ job[j].kind \in {"primary", "unmark", "configure"} /\ job[j].at = "write" /\ ~Exists(job[j].id)
  /\ Fails(j)

-----------------------------------------------------------------------------
(* properties.service remove: the check and the deletion are apart.        *)
MayRemove(p) == Exists(p) /\ ~property[p].primary
RemoveRead(j) ==
  \E p \in Property :
    /\ MayRemove(p)
    /\ Start(j, [kind |-> "remove", at |-> "write", id |-> p, db |-> property[p].db])

\* Its links go with it; its partner keeps naming it.
Remove(j) ==
  LET p == job[j].id
  IN  /\ At(j, "remove", "write") /\ Exists(p) /\ ~Locked(j, {p})
      /\ property' = [property EXCEPT ![p] = Gone]
      /\ link' = {l \in link : l[1] # p}
      /\ End(j) /\ UNCHANGED <<database, view, requests, strained>>
RemoveFails(j) == At(j, "remove", "write") /\ ~Exists(job[j].id) /\ Fails(j)

-----------------------------------------------------------------------------
(* rows.service link, unlink                                               *)
\* resolveRelationProperty: from a row of the property's database to one of
\* its target; the partner's name goes with the request.
LinkRead(j) ==
  \E p \in Property, kind \in {"link", "unlink"} : \E a, b \in Row :
    /\ Exists(p) /\ property[p].type = "relation"
    /\ Home[a] = property[p].db /\ Home[b] = property[p].target
    /\ Start(j, [kind |-> kind, at |-> "first", id |-> p, paired |-> property[p].paired, edge |-> <<a, b>>])

\* [The partner's edge is written the same way round.]
EdgesAlike(r) == {<<q, r.edge[1], r.edge[2]>> : q \in {r.id, r.paired} \ {None}}
Edges(r) ==
  {<<r.id, r.edge[1], r.edge[2]>>}
    \cup (IF r.paired = None THEN {} ELSE {<<r.paired, r.edge[2], r.edge[1]>>})

\* The upserts of one transaction appear together, each under a property
\* that must be there.
Link(j) ==
  /\ At(j, "link", "first")
  /\ \A e \in Edges(job[j]) : Exists(e[1])
  /\ link' = link \cup Edges(job[j])
  /\ End(j) /\ UNCHANGED <<database, property, view, requests, strained>>
LinkFails(j) == At(j, "link", "first") /\ (\E e \in Edges(job[j]) : ~Exists(e[1])) /\ Fails(j)

\* The first deletion takes the edge if it is there yet, the second its mirror.
UnlinkOne(j) ==
  /\ At(j, "unlink", "first")
  /\ job' = [job EXCEPT ![j] = [kind |-> "unlink", at |-> "second", id |-> @.id, paired |-> @.paired,
                                 edge |-> @.edge,
                                 took |-> link \cap {<<@.id, @.edge[1], @.edge[2]>>}]]
  /\ UNCHANGED <<database, property, view, link, requests, strained>>
UnlinkBoth(j) ==
  /\ At(j, "unlink", "second")
  /\ link' = link \ (job[j].took \cup (Edges(job[j]) \ {<<job[j].id, job[j].edge[1], job[j].edge[2]>>}))
  /\ End(j) /\ UNCHANGED <<database, property, view, requests, strained>>

-----------------------------------------------------------------------------
(* views.service create, remove, setDefault; databases.service update      *)
CreateView(j) ==
  \E v \in View, d \in Database :
    /\ IsDatabase(d) /\ view[v] = Unused /\ \A e \in Database : v # ViewOf[e]
    /\ job[j] = Idle /\ requests < MaxRequests
    /\ requests' = requests + 1
    /\ view' = [view EXCEPT ![v] = d]
    /\ UNCHANGED <<database, property, link, job, strained>>

RemoveViewRead(j) ==
  \E v \in View :
    /\ Shown(v)
    /\ Start(j, [kind |-> "removeView", at |-> "write", id |-> v, db |-> view[v],
                 wasDefault |-> database[view[v]].default = v])

\* When the view was the default the first that is left takes its place.
Fallback(d, v) == IF ViewsOf(d) \ {v} = {} THEN {None} ELSE ViewsOf(d) \ {v}

RemoveView(j) ==
  LET v == job[j].id
      d == job[j].db
  IN  /\ At(j, "removeView", "write") /\ Shown(v)
      /\ view' = [view EXCEPT ![v] = Gone]
      /\ \E next \in IF job[j].wasDefault THEN Fallback(d, v) ELSE {database[d].default} :
           database' = [database EXCEPT ![d].default = next]
      /\ End(j) /\ UNCHANGED <<property, link, requests, strained>>
RemoveViewFails(j) == At(j, "removeView", "write") /\ ~Shown(job[j].id) /\ Fails(j)

\* A view of this database, or with databases.update none.
DefaultRead(j) ==
  \E d \in Database : \E v \in ViewsOf(d) \cup {None} :
    /\ IsDatabase(d)
    /\ Start(j, [kind |-> "default", at |-> "write", id |-> v, db |-> d])
SetDefault(j) ==
  /\ At(j, "default", "write")
  /\ database' = [database EXCEPT ![job[j].db].default = job[j].id]
  /\ End(j) /\ UNCHANGED <<property, view, link, requests, strained>>

-----------------------------------------------------------------------------
Next == \E j \in Job :
  \/ ConvertRead(j) \/ Convert(j) \/ ConvertFails(j)
  \/ CreateRead(j) \/ Create(j) \/ CreateFails(j)
  \/ UpdateRead(j) \/ MakePrimary(j) \/ ClearOthers(j)
  \/ CreatePrimary(j) \/ UpdatePrimary(j) \/ Deadlock(j)
  \/ Unmark(j) \/ Configure(j) \/ UpdateFails(j)
  \/ RemoveRead(j) \/ Remove(j) \/ RemoveFails(j)
  \/ LinkRead(j) \/ Link(j) \/ LinkFails(j) \/ UnlinkOne(j) \/ UnlinkBoth(j)
  \/ CreateView(j) \/ RemoveViewRead(j) \/ RemoveView(j) \/ RemoveViewFails(j)
  \/ DefaultRead(j) \/ SetDefault(j)
Spec == Init /\ [][Next]_vars

-----------------------------------------------------------------------------
(* "Enforces exactly one primary property" (properties.service), and the   *)
(* default view is one there is ("Clear defaultViewId if it pointed at the *)
(* deleted view", views.service; the column has no foreign key): however   *)
(* creations, PATCHes and deletions interleave, a database has exactly one *)
(* primary property, unless a PATCH took the flag off it, a creation of a  *)
(* primary crossed another change of the primary, or a deletion crossed    *)
(* the promotion of its property; and its default view is one of its views *)
(* or none, unless a change of it crossed another or the deletion of a     *)
(* view.                                                                   *)
MainOnesExist ==
  \A d \in Database : IsDatabase(d) =>
    /\ d \notin strained =>
         /\ \E p \in PropertiesOf(d) : property[p].primary
         /\ \A p, q \in PropertiesOf(d) : property[p].primary /\ property[q].primary => p = q
    /\ <<"default", d>> \notin strained => database[d].default \in ViewsOf(d) \cup {None}

(* "Relations are bidirectional and maintained as a pair" (rows.service):  *)
(* two properties that name each other show the same links from both       *)
(* sides, whatever was created, linked, unlinked and deleted around them,  *)
(* unless one of them was given another partner, a PATCH made a third      *)
(* property name it, or a link of theirs was made and unmade at once.      *)
LinksMirrored ==
  \A p, q \in Property :
    /\ Exists(p) /\ Exists(q) /\ {p, q} \cap strained = {}
    /\ property[p].paired = q /\ property[q].paired = p
    => \A a, b \in Row : <<p, a, b>> \in link <=> <<q, b, a>> \in link
=============================================================================
