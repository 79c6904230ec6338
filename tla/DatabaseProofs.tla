--------------------------- MODULE DatabaseProofs ---------------------------
(***************************************************************************)
(* Proofs about the schema of databases, for any databases, properties,    *)
(* views and rows, and about the cells of a row and the tabs that show     *)
(* them, for any tabs, users and values; any number of requests under way, *)
(* and without the bounds on requests, writes and faults.                  *)
(*                                                                         *)
(* The schema.  A request acts on what it read.  RequestOk says what of    *)
(* that still holds when it acts (the ids it was given are unused, what it *)
(* saw is all there is, the partner it was told is the partner yet), and   *)
(* Apart what two requests under way owe each other (different ids, one of *)
(* two promotions has seen the other, whatever crossed is marked).  With   *)
(* these each write keeps the properties of the schema.                    *)
(*                                                                         *)
(* The cells.  The copies on the server follow the cells because what      *)
(* would break them is marked: a clear that is under way has an empty cell *)
(* before it (crossed), the one sync under way has read the last write     *)
(* (torn).  A tab that nothing was kept from shows the server's value of a *)
(* property or will be told of it: the property's last write is still to   *)
(* be announced, or its event is on the way, behind any that would set the *)
(* value back (TabInv).                                                    *)
(***************************************************************************)
EXTENDS DatabaseSchema, RowCells, FiniteSetTheorems, SequenceTheorems, TLAPS

Columns == [db : Database, type : {"text", "relation"}, primary : BOOLEAN,
            target : Database \cup {None}, paired : Property \cup {None}]

Converting == [kind : {"convert"}, at : {"write"}, db : Database]
Creating == [kind : {"create"}, at : {"clear", "commit"}, id : Property, db : Database,
             mirror : Property, column : Columns, sees : SUBSET Property]
Promoting == [kind : {"primary"}, at : {"write", "clear", "commit"}, id : Property,
              db : Database, sees : SUBSET Property]
Unmarking == [kind : {"unmark"}, at : {"write"}, id : Property]
Configuring == [kind : {"configure"}, at : {"write"}, id : Property,
                target : Database, paired : Property \cup {None}]
Removing == [kind : {"remove"}, at : {"write"}, id : Property, db : Database]
Edge == Row \X Row
PairRequest == [kind : {"link", "unlink"}, at : {"first"}, id : Property,
                paired : Property \cup {None}, edge : Edge]
Unlinking == [kind : {"unlink"}, at : {"second"}, id : Property,
              paired : Property \cup {None}, edge : Edge, took : SUBSET (Property \X Row \X Row)]
RemovingView == [kind : {"removeView"}, at : {"write"}, id : View, db : Database,
                 wasDefault : BOOLEAN]
SettingDefault == [kind : {"default"}, at : {"write"}, id : View \cup {None}, db : Database]
Requested == Converting \cup Creating \cup Promoting \cup Unmarking \cup Configuring \cup Removing
             \cup PairRequest \cup Unlinking \cup RemovingView \cup SettingDefault

SchemaOK ==
  /\ database \in [Database -> [is : BOOLEAN, default : View \cup {None}]]
  /\ property \in [Property -> Columns \cup {Unused, Gone}]
  /\ view \in [View -> Database \cup {Unused, Gone}]
  /\ link \subseteq Property \X Row \X Row
  /\ job \in [Job -> Requested \cup {Idle}]

\* The row of p, if there is one, belongs to d; p is not an id yet to be given.
Under(p, d) == property[p] # Unused /\ (Exists(p) => property[p].db = d)
Named(p) == \E d \in Database : p = NameOf[d]

\* The first property and view of a page are unused until it is a database; there
\* is no row without a database or a property.
RowsInv ==
  /\ \A d \in Database : ~IsDatabase(d) => property[NameOf[d]] = Unused /\ view[ViewOf[d]] = Unused
  /\ \A p \in Property : Exists(p) => IsDatabase(property[p].db)
  /\ \A v \in View : Shown(v) => IsDatabase(view[v])
  /\ \A l \in link : Exists(l[1])

\* A partner that nobody interfered with names the property back, and is not an id
\* yet to be given.
PartnerOf(p, q) == q # None /\ q \notin strained
                     => property[q] # Unused /\ (Exists(q) => property[q].paired = p)
PartnersInv == \A p \in Property : Exists(p) => PartnerOf(p, property[p].paired)

\* What a request took from its checks holds when it acts.
CreateOk(r) ==
  r.kind = "create" =>
    /\ IsDatabase(r.db) /\ r.column.db = r.db
    /\ \A q \in {r.id, r.mirror} : property[q] = Unused /\ ~Named(q)
    /\ r.column.type = "text" => r.column.paired = None
    /\ r.column.type = "relation" =>
         /\ ~r.column.primary /\ (r.column.paired = None => r.mirror # r.id)
         /\ r.column.target \in Database /\ IsDatabase(r.column.target)
PromoteOk(r) ==
  /\ r.kind = "primary" => Under(r.id, r.db) /\ IsDatabase(r.db)
  /\ r.kind = "primary" /\ r.at \in {"clear", "commit"} => Exists(r.id)
SeesOk(r) ==
  MakesPrimary(r) =>
    /\ \A q \in r.sees : Under(q, r.db) /\ q # r.id
    /\ r.at = "commit" /\ r.db \notin strained
         => \A q \in PropertiesOf(r.db) : property[q].primary => q \in r.sees \cup {r.id}
RemoveOk(r) ==
  r.kind = "remove" =>
    /\ Under(r.id, r.db)
    /\ r.db \notin strained /\ Exists(r.id) => ~property[r.id].primary
PairRequestOk(r) ==
  Linking(r) =>
    /\ property[r.id] # Unused
    /\ r.id \notin strained /\ Exists(r.id) => property[r.id].paired = r.paired
    /\ PartnerOf(r.id, r.paired)
    /\ r.at = "second" /\ r.id \notin strained
         => link \cap {<<r.id, r.edge[1], r.edge[2]>>} \subseteq r.took
    /\ r.at = "second" => r.took \subseteq {<<r.id, r.edge[1], r.edge[2]>>}
DefaultOk(r) ==
  /\ r.kind = "removeView" =>
       /\ view[r.id] # Unused /\ (Shown(r.id) => view[r.id] = r.db) /\ IsDatabase(r.db)
       /\ <<"default", r.db>> \notin strained /\ ~r.wasDefault => database[r.db].default # r.id
  /\ r.kind = "default" =>
       /\ IsDatabase(r.db)
       /\ <<"default", r.db>> \notin strained => r.id \in ViewsOf(r.db) \cup {None}
RequestOk(r) ==
  CreateOk(r) /\ PromoteOk(r) /\ SeesOk(r) /\ RemoveOk(r) /\ PairRequestOk(r) /\ DefaultOk(r)

\* Two creations have different ids, two promotions different properties, one of
\* which has seen the other, and what crossed is marked.
Apart(r, s) ==
  /\ r.kind = "create" /\ s.kind = "create" => {r.id, r.mirror} \cap {s.id, s.mirror} = {}
  /\ r.kind = "primary" /\ s.kind = "primary" /\ {r.at, s.at} \subseteq {"clear", "commit"}
       => /\ r.id # s.id
          /\ r.at = "commit" /\ s.at = "commit" /\ r.db = s.db => r.id \in s.sees \/ s.id \in r.sees
  /\ MakesPrimary(r) /\ MakesPrimary(s) /\ r.kind = "create" /\ r.db = s.db => r.db \in strained
  /\ r.kind = "primary" /\ s.kind = "remove" /\ r.id = s.id => r.db \in strained
  /\ r.kind = "link" /\ s.kind = "unlink"
       => ({r.id, r.paired} \cap {s.id, s.paired}) \ {None} \subseteq strained
  /\ SetsDefault(r) /\ SetsDefault(s) /\ r.db = s.db => <<"default", r.db>> \in strained

RequestsInv ==
  /\ \A j \in Job : RequestOk(job[j])
  /\ \A j, k \in Job : j # k => Apart(job[j], job[k])

SchemaInv == SchemaOK /\ RowsInv /\ PartnersInv /\ RequestsInv /\ MainOnesExist /\ LinksMirrored

-----------------------------------------------------------------------------
(* What kind of request it is says which fields it has.                    *)
LEMMA Shapes ==
  ASSUME NEW r \in Requested \cup {Idle}
  PROVE  /\ r.kind = "convert" => r \in Converting
         /\ r.kind = "create" => r \in Creating
         /\ r.kind = "primary" => r \in Promoting
         /\ r.kind = "unmark" => r \in Unmarking
         /\ r.kind = "configure" => r \in Configuring
         /\ r.kind = "remove" => r \in Removing
         /\ r.kind = "link" => r \in PairRequest
         /\ r.kind = "unlink" => r \in PairRequest \/ r \in Unlinking
         /\ r.kind = "removeView" => r \in RemovingView
         /\ r.kind = "default" => r \in SettingDefault
         /\ r.kind = "idle" => r = Idle
BY DEF Requested, Idle, Converting, Creating, Promoting, Unmarking, Configuring, Removing,
       PairRequest, Unlinking, RemovingView, SettingDefault

\* A row is not one of the marks of a missing one.
LEMMA StepValues ==
  /\ Unused # Gone
  /\ \A c \in Columns : c # Unused /\ c # Gone
  /\ \A d \in Database : d # Unused /\ d # Gone
  /\ \A d \in Database, t \in {"text", "relation"}, b \in BOOLEAN,
        target \in Database \cup {None}, q \in Property \cup {None} :
       Column(d, t, b, target, q) \in Columns
BY SchemaAssumption DEF Columns, Column

\* More marks leave a request as right as it was, if the rows it is about stay.
LEMMA SameProperties ==
  ASSUME NEW r \in Requested \cup {Idle}, RequestOk(r), strained \subseteq strained',
         UNCHANGED property, \A d \in Database : IsDatabase(d) => IsDatabase(d)'
  PROVE  (CreateOk(r) /\ PromoteOk(r) /\ SeesOk(r) /\ RemoveOk(r))'
<1>1. r.kind \in {"create", "primary"} => r.db \in Database
  BY Shapes DEF Creating, Promoting
<1>2. CreateOk(r)' /\ PromoteOk(r)' /\ RemoveOk(r)'
  BY <1>1 DEF RequestOk, CreateOk, PromoteOk, RemoveOk, Under, Exists, Named
<1>3. SeesOk(r)'
  BY DEF RequestOk, SeesOk, MakesPrimary, Under, Exists, PropertiesOf
<1> QED BY <1>2, <1>3

LEMMA SameLinks ==
  ASSUME NEW r \in Requested \cup {Idle}, RequestOk(r), strained \subseteq strained',
         UNCHANGED <<property, link>>
  PROVE  PairRequestOk(r)'
BY DEF RequestOk, PairRequestOk, Linking, PartnerOf, Exists

LEMMA SameViews ==
  ASSUME NEW r \in Requested \cup {Idle}, RequestOk(r), strained \subseteq strained',
         UNCHANGED <<database, view>>
  PROVE  DefaultOk(r)'
BY DEF RequestOk, DefaultOk, Shown, IsDatabase, ViewsOf

LEMMA MoreStrained ==
  ASSUME NEW r \in Requested \cup {Idle}, RequestOk(r), strained \subseteq strained',
         UNCHANGED <<database, property, view, link>>
  PROVE  RequestOk(r)'
<1>1. \A d \in Database : IsDatabase(d) => IsDatabase(d)'
  BY DEF IsDatabase
<1> QED BY <1>1, SameProperties, SameLinks, SameViews DEF RequestOk

LEMMA StayApart ==
  ASSUME NEW r, NEW s, Apart(r, s), strained \subseteq strained'
  PROVE  Apart(r, s)'
BY DEF Apart, MakesPrimary, SetsDefault

LEMMA IdleIsFine ==
  /\ RequestOk(Idle)
  /\ \A r : Apart(Idle, r) /\ Apart(r, Idle)
BY DEF Idle, RequestOk, CreateOk, PromoteOk, SeesOk, RemoveOk, PairRequestOk, DefaultOk, Apart,
       MakesPrimary, SetsDefault, Linking

\* When a request ends, those about the others are left to be shown.
LEMMA RequestEnded ==
  ASSUME SchemaOK, RequestsInv, NEW j \in Job, End(j), strained \subseteq strained',
         \A k \in Job \ {j} : RequestOk(job[k])'
  PROVE  RequestsInv' /\ job' \in [Job -> Requested \cup {Idle}]
<1>1. job' \in [Job -> Requested \cup {Idle}] /\ job'[j] = Idle /\ \A k \in Job \ {j} : job'[k] = job[k]
  BY DEF SchemaOK, End
<1>2. ASSUME NEW k \in Job PROVE RequestOk(job[k])'
  <2>1. CASE k = j
    BY <2>1, <1>1 DEF Idle, RequestOk, CreateOk, PromoteOk, SeesOk, RemoveOk, PairRequestOk,
       DefaultOk,
       MakesPrimary, Linking
  <2> QED BY <2>1
<1>3. ASSUME NEW k \in Job, NEW l \in Job, k # l PROVE Apart(job[k], job[l])'
  <2>1. CASE k = j \/ l = j
    BY <2>1, <1>1 DEF Idle, Apart, MakesPrimary, SetsDefault
  <2>2. CASE k # j /\ l # j
    BY <2>2, <1>1, <1>3, StayApart DEF RequestsInv
  <2> QED BY <2>1, <2>2
<1> QED BY <1>1, <1>2, <1>3 DEF RequestsInv

\* What the schema shows does not depend on the requests, and marks only excuse.
LEMMA SameSchema ==
  ASSUME RowsInv, PartnersInv, MainOnesExist, LinksMirrored,
         UNCHANGED <<database, property, view, link>>, strained \subseteq strained'
  PROVE  (RowsInv /\ PartnersInv /\ MainOnesExist /\ LinksMirrored)'
<1>1. RowsInv' /\ PartnersInv'
  BY DEF RowsInv, PartnersInv, PartnerOf, IsDatabase, Exists, Shown
<1>2. MainOnesExist'
  BY DEF MainOnesExist, IsDatabase, PropertiesOf, ViewsOf, Exists, Shown
<1>3. LinksMirrored'
  BY DEF LinksMirrored, Exists
<1> QED BY <1>1, <1>2, <1>3


-----------------------------------------------------------------------------
LEMMA SamePair ==
  ASSUME NEW a, NEW b, NEW c, NEW d
  PROVE  {a, b} = {c, d} <=> (a = c /\ b = d) \/ (a = d /\ b = c)
<1>1. ASSUME {a, b} = {c, d} PROVE (a = c /\ b = d) \/ (a = d /\ b = c)
  <2>1. a \in {c, d} /\ b \in {c, d} /\ c \in {a, b} /\ d \in {a, b}
    BY <1>1
  <2> QED BY <2>1
<1>2. ASSUME (a = c /\ b = d) \/ (a = d /\ b = c) PROVE {a, b} = {c, d}
  BY <1>2
<1> QED BY <1>1, <1>2

(* What two requests put at risk, by their kinds.                          *)
LEMMA WhatCrosses ==
  ASSUME NEW r, NEW s
  PROVE  /\ MakesPrimary(r) /\ MakesPrimary(s) /\ (r.kind = "create" \/ s.kind = "create")
              => Crossed(r, s) = {r.db} \cap {s.db}
         /\ (r.kind = "primary" /\ s.kind = "remove") \/ (s.kind = "primary" /\ r.kind = "remove")
              => Crossed(r, s) = IF r.id = s.id THEN {r.db} ELSE {}
         /\ (r.kind = "link" /\ s.kind = "unlink") \/ (r.kind = "unlink" /\ s.kind = "link")
              => Crossed(r, s) = ({r.id, r.paired} \cap {s.id, s.paired}) \ {None}
         /\ SetsDefault(r) /\ SetsDefault(s)
              => Crossed(r, s) = IF r.db = s.db THEN {<<"default", r.db>>} ELSE {}
<1>1. /\ {r.kind, s.kind} = {"primary", "remove"}
           <=> ((r.kind = "primary" /\ s.kind = "remove") \/ (s.kind = "primary" /\ r.kind = "remove"))
      /\ {r.kind, s.kind} = {"link", "unlink"}
           <=> ((r.kind = "link" /\ s.kind = "unlink") \/ (r.kind = "unlink" /\ s.kind = "link"))
      /\ "create" \in {r.kind, s.kind} <=> (r.kind = "create" \/ s.kind = "create")
  BY SamePair
<1>2. ASSUME MakesPrimary(r) /\ MakesPrimary(s) /\ (r.kind = "create" \/ s.kind = "create")
      PROVE  Crossed(r, s) = {r.db} \cap {s.db}
  BY <1>1, <1>2 DEF Crossed, MakesPrimary, SetsDefault
<1>3. ASSUME (r.kind = "primary" /\ s.kind = "remove") \/ (s.kind = "primary" /\ r.kind = "remove")
      PROVE  Crossed(r, s) = IF r.id = s.id THEN {r.db} ELSE {}
  BY <1>1, <1>3 DEF Crossed, MakesPrimary, SetsDefault
<1>4. ASSUME (r.kind = "link" /\ s.kind = "unlink") \/ (r.kind = "unlink" /\ s.kind = "link")
      PROVE  Crossed(r, s) = ({r.id, r.paired} \cap {s.id, s.paired}) \ {None}
  BY <1>1, <1>4 DEF Crossed, MakesPrimary, SetsDefault
<1>5. ASSUME SetsDefault(r) /\ SetsDefault(s)
      PROVE  Crossed(r, s) = IF r.db = s.db THEN {<<"default", r.db>>} ELSE {}
  BY <1>1, <1>5 DEF Crossed, MakesPrimary, SetsDefault
<1> QED BY <1>2, <1>3, <1>4, <1>5

(* Reading: a request that is right, and whose ids are its own, starts.    *)
LEMMA Started ==
  ASSUME SchemaInv, NEW j \in Job, NEW r \in Requested, Start(j, r), RequestOk(r),
         r.kind = "create" =>
           \A k \in Job : job[k].kind = "create"
                            => {r.id, r.mirror} \cap {job[k].id, job[k].mirror} = {},
         r.kind = "primary" => r.at = "write",
         r.kind \in {"primary", "remove"} => Exists(r.id)
  PROVE  SchemaInv'
<1>1. /\ UNCHANGED <<database, property, view, link>>
      /\ job' \in [Job -> Requested \cup {Idle}]
      /\ job'[j] = r /\ \A k \in Job \ {j} : job'[k] = job[k]
      /\ strained \subseteq strained'
  BY DEF Start, SchemaInv, SchemaOK
<1>2. \A k \in Job : Crossed(r, job[k]) \subseteq strained'
  BY DEF Start
<1>3. ASSUME NEW k \in Job PROVE RequestOk(job[k])'
  BY <1>1, <1>3, MoreStrained DEF SchemaInv, SchemaOK, RequestsInv
<1>4. ASSUME NEW k \in Job, k # j PROVE Apart(r, job[k])' /\ Apart(job[k], r)'
  <2> DEFINE s == job[k]
  <2>1. s' = s /\ Crossed(r, s) \subseteq strained' /\ s \in Requested \cup {Idle} /\ RequestOk(s)
    BY <1>1, <1>2, <1>4 DEF SchemaInv, SchemaOK, RequestsInv
  <2>2. r.kind = "create" /\ s.kind = "create" => {r.id, r.mirror} \cap {s.id, s.mirror} = {}
    BY <1>4
  <2>3. MakesPrimary(r) /\ MakesPrimary(s) /\ (r.kind = "create" \/ s.kind = "create") /\ r.db = s.db
          => r.db \in strained'
    BY <2>1, WhatCrosses DEF MakesPrimary
  <2>4. (r.kind = "primary" /\ s.kind = "remove") \/ (s.kind = "primary" /\ r.kind = "remove")
          => (r.id = s.id => r.db \in strained' /\ s.db = r.db)
    <3>1. SUFFICES ASSUME (r.kind = "primary" /\ s.kind = "remove") \/ (s.kind = "primary" /\ r.kind = "remove"),
                          r.id = s.id
                   PROVE  r.db \in strained' /\ s.db = r.db
      OBVIOUS
    <3>2. Crossed(r, s) = {r.db}
      BY <3>1, WhatCrosses
    <3>3. s.db = r.db
      BY <3>1, <2>1 DEF RequestOk, PromoteOk, RemoveOk, Under
    <3> QED BY <3>2, <3>3, <2>1
  <2>5. (r.kind = "link" /\ s.kind = "unlink") \/ (r.kind = "unlink" /\ s.kind = "link")
          => ({r.id, r.paired} \cap {s.id, s.paired}) \ {None} \subseteq strained'
    BY <2>1, WhatCrosses
  <2>6. SetsDefault(r) /\ SetsDefault(s) /\ r.db = s.db => <<"default", r.db>> \in strained'
    BY <2>1, WhatCrosses
  <2>7. Apart(r, s)'
    BY <2>1, <2>2, <2>3, <2>4, <2>5, <2>6 DEF Apart, MakesPrimary, SetsDefault
  <2>8. Apart(s, r)'
    BY <2>1, <2>2, <2>3, <2>4, <2>5, <2>6 DEF Apart, MakesPrimary, SetsDefault
  <2> QED BY <2>7, <2>8
<1>5. ASSUME NEW k \in Job, NEW l \in Job, k # l PROVE Apart(job[k], job[l])'
  <2>1. CASE k = j
    BY <2>1, <1>1, <1>4, <1>5
  <2>2. CASE l = j
    BY <2>2, <1>1, <1>4, <1>5
  <2>3. CASE k # j /\ l # j
    BY <2>3, <1>1, <1>5, StayApart DEF SchemaInv, RequestsInv
  <2> QED BY <2>1, <2>2, <2>3
<1>6. SchemaOK'
  BY <1>1 DEF SchemaInv, SchemaOK
<1> QED BY <1>1, <1>3, <1>5, <1>6, SameSchema DEF SchemaInv, RequestsInv

LEMMA ConvertReads ==
  ASSUME SchemaInv, NEW j \in Job, ConvertRead(j)
  PROVE  SchemaInv'
<1>1. PICK d \in Database : Start(j, [kind |-> "convert", at |-> "write", db |-> d])
  BY DEF ConvertRead
<1> DEFINE r == [kind |-> "convert", at |-> "write", db |-> d]
<1>2. r \in Requested
  BY DEF Requested, Converting
<1>3. RequestOk(r)
  BY DEF RequestOk, CreateOk, PromoteOk, SeesOk, RemoveOk, PairRequestOk, DefaultOk, MakesPrimary,
     Linking
<1> QED BY <1>1, <1>2, <1>3, Started

\* An id that is fresh is neither another request's nor to be given to a page.
LEMMA CreateReads ==
  ASSUME SchemaInv, NEW j \in Job, CreateRead(j)
  PROVE  SchemaInv'
<1>0. PICK d \in Database, p \in Fresh : \E column \in CreateInputs(d) :
        /\ IsDatabase(d)
        /\ \E mirror \in IF column.type = "relation" /\ column.paired = None THEN Fresh \ {p} ELSE {p} :
             Start(j, [kind |-> "create", at |-> IF column.primary THEN "clear" ELSE "commit",
                       id |-> p, db |-> d, mirror |-> mirror, column |-> column, sees |-> {}])
  BY DEF CreateRead
<1>1. PICK column \in CreateInputs(d) :
        /\ IsDatabase(d)
        /\ \E mirror \in IF column.type = "relation" /\ column.paired = None THEN Fresh \ {p} ELSE {p} :
             Start(j, [kind |-> "create", at |-> IF column.primary THEN "clear" ELSE "commit",
                       id |-> p, db |-> d, mirror |-> mirror, column |-> column, sees |-> {}])
  BY <1>0
<1>2. PICK mirror \in IF column.type = "relation" /\ column.paired = None THEN Fresh \ {p} ELSE {p} :
        Start(j, [kind |-> "create", at |-> IF column.primary THEN "clear" ELSE "commit",
                  id |-> p, db |-> d, mirror |-> mirror, column |-> column, sees |-> {}])
  BY <1>1
<1> DEFINE r == [kind |-> "create", at |-> IF column.primary THEN "clear" ELSE "commit",
                 id |-> p, db |-> d, mirror |-> mirror, column |-> column, sees |-> {}]
<1>3. /\ p \in Fresh /\ mirror \in Fresh
      /\ column.type = "relation" /\ column.paired = None => mirror # p
  BY <1>1, <1>2
<1>4. /\ column \in Columns
      /\ column.db = d
      /\ column.type = "text" => column.paired = None
      /\ column.type = "relation"
           => ~column.primary /\ column.target \in Database /\ IsDatabase(column.target)
  <2>1. CASE \E primary \in BOOLEAN : column = Column(d, "text", primary, None, None)
    BY <2>1 DEF Column, Columns
  <2>2. CASE \E target \in Database, paired \in Property \cup {None} :
               IsDatabase(target) /\ column = Column(d, "relation", FALSE, target, paired)
    BY <2>2 DEF Column, Columns
  <2>3. \/ \E primary \in BOOLEAN : column = Column(d, "text", primary, None, None)
        \/ \E target \in Database, paired \in Property \cup {None} :
             IsDatabase(target) /\ column = Column(d, "relation", FALSE, target, paired)
    BY DEF CreateInputs
  <2> QED BY <2>1, <2>2, <2>3
<1>5. r \in Requested
  BY <1>3, <1>4 DEF Requested, Creating, Fresh, Columns
<1>6. RequestOk(r)
  <2>1. CreateOk(r)
    BY <1>1, <1>3, <1>4 DEF CreateOk, Fresh, Named
  <2>2. SeesOk(r)
    BY <1>4 DEF SeesOk, MakesPrimary
  <2> QED BY <2>1, <2>2 DEF RequestOk, PromoteOk, RemoveOk, PairRequestOk, DefaultOk, Linking
<1>7. \A k \in Job : job[k].kind = "create" => {r.id, r.mirror} \cap {job[k].id, job[k].mirror} = {}
  BY <1>3 DEF Fresh, Pending
<1> QED BY <1>2, <1>5, <1>6, <1>7, Started

LEMMA UpdateReads ==
  ASSUME SchemaInv, NEW j \in Job, UpdateRead(j)
  PROVE  SchemaInv'
<1>1. PICK p \in Property :
        /\ Exists(p)
        /\ \/ Start(j, [kind |-> "primary", at |-> "write", id |-> p, db |-> property[p].db, sees |-> {}])
           \/ Start(j, [kind |-> "unmark", at |-> "write", id |-> p])
           \/ \E target \in Database, paired \in Property \cup {None} :
                Start(j, [kind |-> "configure", at |-> "write", id |-> p, target |-> target, paired |-> paired])
  BY DEF UpdateRead
<1>2. property[p] \in Columns /\ property[p].db \in Database /\ IsDatabase(property[p].db)
  BY <1>1 DEF SchemaInv, SchemaOK, RowsInv, Exists, Columns
<1>3. CASE Start(j, [kind |-> "primary", at |-> "write", id |-> p, db |-> property[p].db, sees |-> {}])
  <2> DEFINE r == [kind |-> "primary", at |-> "write", id |-> p, db |-> property[p].db, sees |-> {}]
  <2>1. r \in Requested
    BY <1>2 DEF Requested, Promoting
  <2>2. PromoteOk(r) /\ SeesOk(r)
    BY <1>1, <1>2 DEF PromoteOk, SeesOk, MakesPrimary, Under, Exists
  <2>3. RequestOk(r)
    BY <2>2 DEF RequestOk, CreateOk, RemoveOk, PairRequestOk, DefaultOk, Linking
  <2> QED BY <1>1, <1>3, <2>1, <2>3, Started
<1>4. CASE Start(j, [kind |-> "unmark", at |-> "write", id |-> p])
  <2> DEFINE r == [kind |-> "unmark", at |-> "write", id |-> p]
  <2>1. r \in Requested
    BY DEF Requested, Unmarking
  <2>2. RequestOk(r)
    BY DEF RequestOk, CreateOk, PromoteOk, SeesOk, RemoveOk, PairRequestOk, DefaultOk,
       MakesPrimary, Linking
  <2> QED BY <1>4, <2>1, <2>2, Started
<1>5. ASSUME NEW target \in Database, NEW paired \in Property \cup {None},
             Start(j, [kind |-> "configure", at |-> "write", id |-> p, target |-> target, paired |-> paired])
      PROVE  SchemaInv'
  <2> DEFINE r == [kind |-> "configure", at |-> "write", id |-> p, target |-> target, paired |-> paired]
  <2>1. r \in Requested
    BY DEF Requested, Configuring
  <2>2. RequestOk(r)
    BY DEF RequestOk, CreateOk, PromoteOk, SeesOk, RemoveOk, PairRequestOk, DefaultOk,
       MakesPrimary, Linking
  <2> QED BY <1>5, <2>1, <2>2, Started
<1> QED BY <1>1, <1>3, <1>4, <1>5

LEMMA RemoveReads ==
  ASSUME SchemaInv, NEW j \in Job, RemoveRead(j)
  PROVE  SchemaInv'
<1>1. PICK p \in Property :
        MayRemove(p) /\ Start(j, [kind |-> "remove", at |-> "write", id |-> p, db |-> property[p].db])
  BY DEF RemoveRead
<1> DEFINE r == [kind |-> "remove", at |-> "write", id |-> p, db |-> property[p].db]
<1>2. r \in Requested
  BY <1>1 DEF Requested, Removing, SchemaInv, SchemaOK, MayRemove, Exists, Columns
<1>3. RemoveOk(r)
  BY <1>1 DEF RemoveOk, Under, MayRemove, Exists
<1>4. RequestOk(r)
  BY <1>3 DEF RequestOk, CreateOk, PromoteOk, SeesOk, PairRequestOk, DefaultOk, MakesPrimary,
     Linking
<1> QED BY <1>1, <1>2, <1>4, Started DEF MayRemove

LEMMA LinkReads ==
  ASSUME SchemaInv, NEW j \in Job, LinkRead(j)
  PROVE  SchemaInv'
<1>1. PICK p \in Property, kind \in {"link", "unlink"}, a \in Row, b \in Row :
        /\ Exists(p)
        /\ Start(j, [kind |-> kind, at |-> "first", id |-> p, paired |-> property[p].paired, edge |-> <<a, b>>])
  BY DEF LinkRead
<1> DEFINE r == [kind |-> kind, at |-> "first", id |-> p, paired |-> property[p].paired, edge |-> <<a, b>>]
<1>2. r \in Requested
  BY <1>1 DEF Requested, PairRequest, Edge, SchemaInv, SchemaOK, Exists, Columns
<1>3. PairRequestOk(r)
  BY <1>1 DEF PairRequestOk, Exists, SchemaInv, PartnersInv
<1>4. RequestOk(r)
  BY <1>3 DEF RequestOk, CreateOk, PromoteOk, SeesOk, RemoveOk, DefaultOk, MakesPrimary
<1> QED BY <1>1, <1>2, <1>4, Started

LEMMA ViewReads ==
  ASSUME SchemaInv, NEW j \in Job, RemoveViewRead(j) \/ DefaultRead(j)
  PROVE  SchemaInv'
<1>1. ASSUME NEW v \in View, Shown(v),
             Start(j, [kind |-> "removeView", at |-> "write", id |-> v, db |-> view[v],
                       wasDefault |-> database[view[v]].default = v])
      PROVE  SchemaInv'
  <2> DEFINE r == [kind |-> "removeView", at |-> "write", id |-> v, db |-> view[v],
                   wasDefault |-> database[view[v]].default = v]
  <2>1. r \in Requested
    BY <1>1 DEF Requested, RemovingView, SchemaInv, SchemaOK, Shown
  <2>2. DefaultOk(r)
    BY <1>1 DEF DefaultOk, SchemaInv, RowsInv, Shown
  <2>3. RequestOk(r)
    BY <2>2 DEF RequestOk, CreateOk, PromoteOk, SeesOk, RemoveOk, PairRequestOk, MakesPrimary,
       Linking
  <2> QED BY <1>1, <2>1, <2>3, Started
<1>2. ASSUME NEW d \in Database, NEW v \in ViewsOf(d) \cup {None}, IsDatabase(d),
             Start(j, [kind |-> "default", at |-> "write", id |-> v, db |-> d])
      PROVE  SchemaInv'
  <2> DEFINE r == [kind |-> "default", at |-> "write", id |-> v, db |-> d]
  <2>1. r \in Requested
    BY DEF Requested, SettingDefault, ViewsOf
  <2>2. DefaultOk(r)
    BY <1>2 DEF DefaultOk
  <2>3. RequestOk(r)
    BY <2>2 DEF RequestOk, CreateOk, PromoteOk, SeesOk, RemoveOk, PairRequestOk, MakesPrimary,
       Linking
  <2> QED BY <1>2, <2>1, <2>3, Started
<1> QED BY <1>1, <1>2 DEF RemoveViewRead, DefaultRead


-----------------------------------------------------------------------------
(* Steps that change no row of the schema.                                 *)
LEMMA Failed ==
  ASSUME SchemaInv, NEW j \in Job, Fails(j)
  PROVE  SchemaInv'
<1>1. UNCHANGED <<database, property, view, link, strained>> /\ End(j)
  BY DEF Fails
<1>2. \A k \in Job \ {j} : job'[k] = job[k]
  BY <1>1 DEF End, SchemaInv, SchemaOK
<1>3. ASSUME NEW k \in Job \ {j} PROVE RequestOk(job[k])'
  BY <1>1, <1>2, <1>3, MoreStrained DEF SchemaInv, SchemaOK, RequestsInv
<1>4. RequestsInv' /\ job' \in [Job -> Requested \cup {Idle}]
  BY <1>1, <1>3, RequestEnded DEF SchemaInv
<1>5. SchemaOK'
  BY <1>1, <1>4 DEF SchemaInv, SchemaOK
<1> QED BY <1>1, <1>4, <1>5, SameSchema DEF SchemaInv

LEMMA Advanced ==
  ASSUME SchemaInv, NEW j \in Job, NEW r \in Requested,
         job'[j] = r, \A k \in Job \ {j} : job'[k] = job[k], job' \in [Job -> Requested \cup {Idle}],
         UNCHANGED <<database, property, view, link, strained>>,
         RequestOk(r), \A k \in Job \ {j} : Apart(r, job[k]) /\ Apart(job[k], r)
  PROVE  SchemaInv'
<1>1. ASSUME NEW k \in Job PROVE RequestOk(job[k])'
  BY <1>1, MoreStrained DEF SchemaInv, SchemaOK, RequestsInv
<1>2. ASSUME NEW k \in Job, NEW l \in Job, k # l PROVE Apart(job[k], job[l])'
  BY <1>2, StayApart DEF SchemaInv, RequestsInv
<1>3. SchemaOK'
  BY DEF SchemaInv, SchemaOK
<1> QED BY <1>1, <1>2, <1>3, SameSchema DEF SchemaInv, RequestsInv

\* The lock keeps two requests off the same property.
LEMMA MakePrimaryKeeps ==
  ASSUME SchemaInv, NEW j \in Job, MakePrimary(j)
  PROVE  SchemaInv'
<1> DEFINE r == [job[j] EXCEPT !.at = "clear"]
<1>1. job[j].kind = "primary" /\ job[j] \in Promoting /\ RequestOk(job[j])
  BY Shapes DEF MakePrimary, At, SchemaInv, SchemaOK, RequestsInv
<1>2. /\ r \in Promoting /\ r \in Requested
      /\ r.kind = "primary" /\ r.at = "clear" /\ r.id = job[j].id /\ r.db = job[j].db
      /\ r.sees = job[j].sees
  BY <1>1 DEF Promoting, Requested
<1>3. /\ job'[j] = r /\ \A k \in Job \ {j} : job'[k] = job[k]
      /\ job' \in [Job -> Requested \cup {Idle}]
      /\ UNCHANGED <<database, property, view, link, strained>>
  BY <1>2 DEF MakePrimary, Go, SchemaInv, SchemaOK
<1>4. RequestOk(r)
  <2>1. PromoteOk(r) /\ SeesOk(r)
    BY <1>1, <1>2 DEF MakePrimary, RequestOk, PromoteOk, SeesOk, MakesPrimary
  <2> QED BY <2>1, <1>2 DEF RequestOk, CreateOk, RemoveOk, PairRequestOk, DefaultOk, Linking
<1>5. ASSUME NEW k \in Job \ {j} PROVE Apart(r, job[k]) /\ Apart(job[k], r)
  <2>1. Apart(job[j], job[k]) /\ Apart(job[k], job[j])
    BY <1>5 DEF SchemaInv, RequestsInv
  <2>2. job[k].kind = "primary" /\ job[k].at \in {"clear", "commit"} => job[k].id # r.id
    BY <1>2, <1>5 DEF MakePrimary, Locked
  <2> QED BY <2>1, <2>2, <1>1, <1>2 DEF Apart, MakesPrimary, SetsDefault
<1> QED BY <1>2, <1>3, <1>4, <1>5, Advanced

\* What it sees is all there is; a promotion that has come as far is among it.
LEMMA ClearOthersKeeps ==
  ASSUME SchemaInv, NEW j \in Job, ClearOthers(j)
  PROVE  SchemaInv'
<1> DEFINE S == PropertiesOf(job[j].db) \ {job[j].id}
           r == [job[j] EXCEPT !.at = "commit", !.sees = S]
<1>1. /\ job[j] \in Creating \/ job[j] \in Promoting
      /\ RequestOk(job[j]) /\ MakesPrimary(job[j]) /\ job[j].at = "clear"
  BY Shapes DEF ClearOthers, MakesPrimary, SchemaInv, SchemaOK, RequestsInv
<1>2. S \in SUBSET Property
  BY DEF PropertiesOf
<1>3. /\ r \in Requested
      /\ r.kind = job[j].kind /\ r.id = job[j].id /\ r.db = job[j].db /\ r.at = "commit" /\ r.sees = S
      /\ r.kind = "create" => r.mirror = job[j].mirror /\ r.column = job[j].column
      /\ r.kind \in {"create", "primary"} /\ MakesPrimary(r)
  <2>1. CASE job[j] \in Creating
    BY <2>1, <1>1, <1>2 DEF Creating, Requested, MakesPrimary
  <2>2. CASE job[j] \in Promoting
    BY <2>2, <1>1, <1>2 DEF Promoting, Requested, MakesPrimary
  <2> QED BY <2>1, <2>2, <1>1
<1>4. /\ job'[j] = r /\ \A k \in Job \ {j} : job'[k] = job[k]
      /\ job' \in [Job -> Requested \cup {Idle}]
      /\ UNCHANGED <<database, property, view, link, strained>>
  BY <1>3 DEF ClearOthers, SchemaInv, SchemaOK
<1>5. RequestOk(r)
  <2>1. CreateOk(r) /\ PromoteOk(r)
    BY <1>1, <1>3 DEF RequestOk, CreateOk, PromoteOk
  <2>2. SeesOk(r)
    BY <1>3 DEF SeesOk, PropertiesOf, Under, Exists
  <2> QED BY <2>1, <2>2, <1>3 DEF RequestOk, RemoveOk, PairRequestOk, DefaultOk, Linking
<1>6. ASSUME NEW k \in Job \ {j} PROVE Apart(r, job[k]) /\ Apart(job[k], r)
  <2>1. Apart(job[j], job[k]) /\ Apart(job[k], job[j]) /\ RequestOk(job[k])
    BY <1>6 DEF SchemaInv, RequestsInv
  <2>2. job[k].kind = "primary" => job[k].id \in Property
    BY <1>6, Shapes DEF SchemaInv, SchemaOK, Promoting
  <2>3. job[k].kind = "primary" /\ job[k].at \in {"clear", "commit"} /\ job[k].db = r.db /\ job[k].id # r.id
          => job[k].id \in r.sees
    BY <2>1, <2>2, <1>3 DEF RequestOk, PromoteOk, Under, PropertiesOf
  <2> QED BY <2>1, <2>3, <1>1, <1>3 DEF Apart, MakesPrimary, SetsDefault
<1> QED BY <1>3, <1>4, <1>5, <1>6, Advanced

LEMMA UnlinkOneKeeps ==
  ASSUME SchemaInv, NEW j \in Job, UnlinkOne(j)
  PROVE  SchemaInv'
<1> DEFINE s == job[j]
           r == [kind |-> "unlink", at |-> "second", id |-> s.id, paired |-> s.paired,
                 edge |-> s.edge, took |-> link \cap {<<s.id, s.edge[1], s.edge[2]>>}]
<1>1. s.kind = "unlink" /\ s.at = "first" /\ s \in PairRequest /\ RequestOk(s)
  BY Shapes DEF UnlinkOne, At, SchemaInv, SchemaOK, RequestsInv, Unlinking
<1>2. r \in Requested
  BY <1>1 DEF Requested, Unlinking, PairRequest, SchemaInv, SchemaOK
<1>3. /\ job'[j] = r /\ \A k \in Job \ {j} : job'[k] = job[k]
      /\ job' \in [Job -> Requested \cup {Idle}]
      /\ UNCHANGED <<database, property, view, link, strained>>
  BY <1>2 DEF UnlinkOne, SchemaInv, SchemaOK
<1>4. RequestOk(r)
  <2>1. PairRequestOk(r)
    BY <1>1 DEF RequestOk, PairRequestOk, Linking
  <2> QED BY <2>1 DEF RequestOk, CreateOk, PromoteOk, SeesOk, RemoveOk, DefaultOk, MakesPrimary
<1>5. ASSUME NEW k \in Job \ {j} PROVE Apart(r, job[k]) /\ Apart(job[k], r)
  <2>1. Apart(s, job[k]) /\ Apart(job[k], s)
    BY <1>5 DEF SchemaInv, RequestsInv
  <2> QED BY <2>1, <1>1 DEF Apart, MakesPrimary, SetsDefault
<1> QED BY <1>2, <1>3, <1>4, <1>5, Advanced


-----------------------------------------------------------------------------
(* Writing links.                                                          *)
\* The edges of a request are under its property and its partner.
LEMMA EdgesOf ==
  ASSUME NEW r \in PairRequest \cup Unlinking
  PROVE  /\ Edges(r) \subseteq Property \X Row \X Row
         /\ \A p, a, b : <<p, a, b>> \in Edges(r) <=>
              \/ p = r.id /\ a = r.edge[1] /\ b = r.edge[2]
              \/ r.paired # None /\ p = r.paired /\ a = r.edge[2] /\ b = r.edge[1]
<1>1. /\ r.id \in Property /\ r.paired \in Property \cup {None}
      /\ r.edge[1] \in Row /\ r.edge[2] \in Row
  BY DEF PairRequest, Unlinking, Edge
<1> QED BY <1>1 DEF Edges

\* Of two properties that name each other a request that names one names the other.
LEMMA PairNamed ==
  ASSUME NEW r \in PairRequest \cup Unlinking, PairRequestOk(r), Linking(r),
         NEW p \in Property, NEW q \in Property, Exists(p), Exists(q), {p, q} \cap strained = {},
         property[p].paired = q, property[q].paired = p
  PROVE  /\ r.id = p => r.paired = q
         /\ r.paired = p => r.id = q
<1>1. p # None /\ q # None
  BY SchemaAssumption
<1> QED BY <1>1 DEF PairRequestOk, PartnerOf

LEMMA LinkKeeps ==
  ASSUME SchemaInv, NEW j \in Job, Link(j)
  PROVE  SchemaInv'
<1> DEFINE s == job[j]
<1>1. s.kind = "link" /\ s \in PairRequest /\ PairRequestOk(s) /\ Linking(s)
  BY Shapes DEF Link, At, SchemaInv, SchemaOK, RequestsInv, RequestOk, Linking
<1>2. /\ UNCHANGED <<database, property, view, strained>> /\ End(j)
      /\ link' = link \cup Edges(s)
      /\ \A k \in Job \ {j} : job'[k] = job[k]
  BY DEF Link, End, SchemaInv, SchemaOK
<1>3. ASSUME NEW k \in Job \ {j} PROVE RequestOk(job[k])'
  <2> DEFINE r == job[k]
  <2>1. r \in Requested \cup {Idle} /\ RequestOk(r) /\ Apart(s, r) /\ r' = r
    BY <1>2, <1>3 DEF SchemaInv, SchemaOK, RequestsInv
  <2>2. (CreateOk(r) /\ PromoteOk(r) /\ SeesOk(r) /\ RemoveOk(r) /\ DefaultOk(r))'
    BY <2>1, <1>2 DEF RequestOk, CreateOk, PromoteOk, SeesOk, RemoveOk, DefaultOk, Under, Exists,
       Named,
       IsDatabase, PropertiesOf, Shown, ViewsOf, MakesPrimary
  <2>3. ASSUME Linking(r), r.at = "second", r.id \notin strained
        PROVE  link' \cap {<<r.id, r.edge[1], r.edge[2]>>} \subseteq r.took
    <3>1. r \in Unlinking /\ r.kind = "unlink"
      BY <2>1, <2>3, Shapes DEF PairRequest, Linking
    <3>2. r.id # s.id /\ (s.paired # None => r.id # s.paired)
      <4>1. r.id # None
        BY <3>1, SchemaAssumption DEF Unlinking
      <4> QED BY <4>1, <2>1, <2>3, <3>1, <1>1 DEF Apart
    <3>3. <<r.id, r.edge[1], r.edge[2]>> \notin Edges(s)
      BY <3>2, <1>1, EdgesOf
    <3> QED BY <3>3, <2>1, <2>3, <1>2 DEF RequestOk, PairRequestOk
  <2>4. PairRequestOk(r)'
    BY <2>1, <2>3, <1>2 DEF RequestOk, PairRequestOk, PartnerOf, Exists, Linking
  <2> QED BY <2>2, <2>4 DEF RequestOk
<1>4. RequestsInv' /\ job' \in [Job -> Requested \cup {Idle}]
  BY <1>2, <1>3, RequestEnded DEF SchemaInv
<1>5. SchemaOK'
  BY <1>1, <1>2, <1>4, EdgesOf DEF SchemaInv, SchemaOK
<1>6. RowsInv' /\ PartnersInv' /\ MainOnesExist'
  <2>1. \A l \in link' : Exists(l[1])
    BY <1>2 DEF Link, SchemaInv, RowsInv
  <2>2. RowsInv' /\ PartnersInv'
    BY <1>2, <2>1 DEF SchemaInv, RowsInv, PartnersInv, PartnerOf, IsDatabase, Exists, Shown
  <2>3. MainOnesExist'
    BY <1>2 DEF SchemaInv, MainOnesExist, IsDatabase, PropertiesOf, ViewsOf, Exists, Shown
  <2> QED BY <2>2, <2>3
<1>7. LinksMirrored'
  <2> SUFFICES ASSUME NEW p \in Property, NEW q \in Property,
                      Exists(p), Exists(q), {p, q} \cap strained = {},
                      property[p].paired = q, property[q].paired = p,
                      NEW a \in Row, NEW b \in Row
               PROVE  <<p, a, b>> \in link' <=> <<q, b, a>> \in link'
    BY <1>2 DEF LinksMirrored, Exists
  <2>1. <<p, a, b>> \in link <=> <<q, b, a>> \in link
    BY DEF SchemaInv, LinksMirrored
  <2>2. /\ s.id = p => s.paired = q
        /\ s.paired = p => s.id = q
        /\ s.id = q => s.paired = p
        /\ s.paired = q => s.id = p
    BY <1>1, PairNamed
  <2>3. <<p, a, b>> \in Edges(s) <=> <<q, b, a>> \in Edges(s)
    BY <2>2, <1>1, EdgesOf, SchemaAssumption
  <2> QED BY <2>1, <2>3, <1>2
<1> QED BY <1>4, <1>5, <1>6, <1>7 DEF SchemaInv

LEMMA UnlinkBothKeeps ==
  ASSUME SchemaInv, NEW j \in Job, UnlinkBoth(j)
  PROVE  SchemaInv'
<1> DEFINE s == job[j]
           e == <<s.id, s.edge[1], s.edge[2]>>
<1>1. s.kind = "unlink" /\ s.at = "second" /\ s \in Unlinking /\ PairRequestOk(s) /\ Linking(s)
  BY Shapes DEF UnlinkBoth, At, SchemaInv, SchemaOK, RequestsInv, RequestOk, Linking, PairRequest
<1>2. /\ UNCHANGED <<database, property, view, strained>> /\ End(j)
      /\ link' = link \ (s.took \cup (Edges(s) \ {e}))
      /\ link' \subseteq link
      /\ \A k \in Job \ {j} : job'[k] = job[k]
  BY DEF UnlinkBoth, End, SchemaInv, SchemaOK
<1>3. ASSUME NEW k \in Job \ {j} PROVE RequestOk(job[k])'
  <2> DEFINE r == job[k]
  <2>1. r \in Requested \cup {Idle} /\ RequestOk(r) /\ r' = r
    BY <1>2, <1>3 DEF SchemaInv, SchemaOK, RequestsInv
  <2>2. (CreateOk(r) /\ PromoteOk(r) /\ SeesOk(r) /\ RemoveOk(r) /\ DefaultOk(r))'
    BY <2>1, <1>2 DEF RequestOk, CreateOk, PromoteOk, SeesOk, RemoveOk, DefaultOk, Under, Exists,
       Named,
       IsDatabase, PropertiesOf, Shown, ViewsOf, MakesPrimary
  <2>3. PairRequestOk(r)'
    BY <2>1, <1>2 DEF RequestOk, PairRequestOk, PartnerOf, Exists, Linking
  <2> QED BY <2>2, <2>3 DEF RequestOk
<1>4. RequestsInv' /\ job' \in [Job -> Requested \cup {Idle}]
  BY <1>2, <1>3, RequestEnded DEF SchemaInv
<1>5. SchemaOK'
  BY <1>2, <1>4 DEF SchemaInv, SchemaOK
<1>6. RowsInv' /\ PartnersInv' /\ MainOnesExist'
  <2>1. RowsInv' /\ PartnersInv'
    BY <1>2 DEF SchemaInv, RowsInv, PartnersInv, PartnerOf, IsDatabase, Exists, Shown
  <2>2. MainOnesExist'
    BY <1>2 DEF SchemaInv, MainOnesExist, IsDatabase, PropertiesOf, ViewsOf, Exists, Shown
  <2> QED BY <2>1, <2>2
<1>7. LinksMirrored'
  <2> SUFFICES ASSUME NEW p \in Property, NEW q \in Property,
                      Exists(p), Exists(q), {p, q} \cap strained = {},
                      property[p].paired = q, property[q].paired = p,
                      NEW a \in Row, NEW b \in Row
               PROVE  <<p, a, b>> \in link' <=> <<q, b, a>> \in link'
    BY <1>2 DEF LinksMirrored, Exists
  <2>1. <<p, a, b>> \in link <=> <<q, b, a>> \in link
    BY DEF SchemaInv, LinksMirrored
  <2>2. /\ s.id = p => s.paired = q
        /\ s.paired = p => s.id = q
        /\ s.id = q => s.paired = p
        /\ s.paired = q => s.id = p
    BY <1>1, PairNamed
  <2>3. <<p, a, b>> \in Edges(s) <=> <<q, b, a>> \in Edges(s)
    BY <2>2, <1>1, EdgesOf, SchemaAssumption
  <2>4. ASSUME NEW x \in {p, q}, NEW c, NEW d
        PROVE  <<x, c, d>> \in link' <=> <<x, c, d>> \in link /\ <<x, c, d>> \notin Edges(s)
    <3>1. <<x, c, d>> = e => x = s.id /\ x \notin strained
      BY <2>4
    <3>2. <<x, c, d>> = e /\ e \in link => e \in s.took
      BY <3>1, <1>1 DEF PairRequestOk
    <3>3. e \in Edges(s) /\ s.took \subseteq {e}
      BY <1>1 DEF Edges, PairRequestOk
    <3> QED BY <3>2, <3>3, <1>2
  <2> QED BY <2>1, <2>3, <2>4
<1> QED BY <1>4, <1>5, <1>6, <1>7 DEF SchemaInv


-----------------------------------------------------------------------------
(* Writing views.                                                          *)
\* A step that changes no property and no link leaves what is about them.
LEMMA OnlyViews ==
  ASSUME SchemaInv, UNCHANGED <<property, link, strained>>,
         \A d \in Database : IsDatabase(d)' = IsDatabase(d)
  PROVE  /\ PartnersInv' /\ LinksMirrored'
         /\ \A p \in Property : Exists(p)' => IsDatabase(property[p].db)'
         /\ \A l \in link' : Exists(l[1])'
         /\ \A d \in Database : IsDatabase(d)' => (d \notin strained =>
              /\ \E p \in PropertiesOf(d) : property[p].primary
              /\ \A p, q \in PropertiesOf(d) : property[p].primary /\ property[q].primary => p = q)'
         /\ \A r \in Requested \cup {Idle} :
              RequestOk(r) => (CreateOk(r) /\ PromoteOk(r) /\ SeesOk(r) /\ RemoveOk(r) /\ PairRequestOk(r))'
<1>1. PartnersInv' /\ LinksMirrored'
  BY DEF SchemaInv, PartnersInv, PartnerOf, LinksMirrored, Exists
<1>2. \A p \in Property : Exists(p)' => IsDatabase(property[p].db)'
  <2> SUFFICES ASSUME NEW p \in Property, Exists(p) PROVE IsDatabase(property[p].db)'
    BY DEF Exists
  <2>1. property[p].db \in Database /\ IsDatabase(property[p].db)
    BY DEF SchemaInv, SchemaOK, RowsInv, Exists, Columns
  <2> QED BY <2>1
<1>3. \A l \in link' : Exists(l[1])'
  BY DEF SchemaInv, RowsInv, Exists
<1>4. \A d \in Database : IsDatabase(d)' => (d \notin strained =>
        /\ \E p \in PropertiesOf(d) : property[p].primary
        /\ \A p, q \in PropertiesOf(d) : property[p].primary /\ property[q].primary => p = q)'
  BY DEF SchemaInv, MainOnesExist, PropertiesOf, Exists
<1>5. ASSUME NEW r \in Requested \cup {Idle}, RequestOk(r)
      PROVE  (CreateOk(r) /\ PromoteOk(r) /\ SeesOk(r) /\ RemoveOk(r) /\ PairRequestOk(r))'
  BY <1>5, SameProperties, SameLinks
<1> QED BY <1>1, <1>2, <1>3, <1>4, <1>5

LEMMA CreateViewKeeps ==
  ASSUME SchemaInv, NEW j \in Job, CreateView(j)
  PROVE  SchemaInv'
<1>1. PICK v \in View, d \in Database :
        /\ IsDatabase(d) /\ view[v] = Unused /\ \A e \in Database : v # ViewOf[e]
        /\ view' = [view EXCEPT ![v] = d]
        /\ UNCHANGED <<database, property, link, job, strained>>
  BY DEF CreateView
<1>2. view'[v] = d /\ \A w \in View \ {v} : view'[w] = view[w]
  BY <1>1 DEF SchemaInv, SchemaOK
<1>3. \A w \in View : Shown(w) => Shown(w)' /\ view'[w] = view[w]
  BY <1>1, <1>2 DEF Shown
<1>4. SchemaOK'
  BY <1>1 DEF SchemaInv, SchemaOK
<1>5. \A f \in Database : IsDatabase(f)' = IsDatabase(f)
  BY <1>1 DEF IsDatabase
<1>6. RowsInv'
  <2>1. \A f \in Database : ~IsDatabase(f)' => property'[NameOf[f]] = Unused /\ view'[ViewOf[f]] = Unused
    BY <1>1, <1>2, <1>5, SchemaAssumption DEF SchemaInv, RowsInv
  <2>2. \A w \in View : Shown(w)' => IsDatabase(view[w])'
    BY <1>1, <1>2 DEF SchemaInv, RowsInv, Shown, IsDatabase
  <2> QED BY <1>1, <1>5, <2>1, <2>2, OnlyViews DEF RowsInv
<1>7. ASSUME NEW k \in Job PROVE RequestOk(job[k])'
  <2> DEFINE r == job[k]
  <2>1. r \in Requested \cup {Idle} /\ RequestOk(r) /\ r' = r
    BY <1>1 DEF SchemaInv, SchemaOK, RequestsInv
  <2>2. r.kind = "removeView" => r.id \in View
    BY <2>1, Shapes DEF RemovingView
  <2>3. r.kind = "removeView" /\ view[r.id] # Unused => view'[r.id] = view[r.id]
    BY <2>2, <1>1, <1>2
  <2>4. ASSUME r.kind = "default", <<"default", r.db>> \notin strained
        PROVE  r.id \in ViewsOf(r.db)' \cup {None}
    BY <2>1, <2>4, <1>3 DEF RequestOk, DefaultOk, ViewsOf
  <2>5. DefaultOk(r)'
    BY <2>1, <2>3, <2>4, <1>1 DEF RequestOk, DefaultOk, Shown, IsDatabase
  <2> QED BY <2>1, <2>5, <1>1, <1>5, OnlyViews DEF RequestOk
<1>8. RequestsInv'
  BY <1>1, <1>7, StayApart DEF SchemaInv, RequestsInv
<1>9. MainOnesExist'
  <2>1. ASSUME NEW f \in Database, IsDatabase(f)', <<"default", f>> \notin strained'
        PROVE  database'[f].default \in ViewsOf(f)' \cup {None}
    BY <2>1, <1>1, <1>3 DEF SchemaInv, MainOnesExist, IsDatabase, ViewsOf
  <2> QED BY <2>1, <1>1, <1>5, OnlyViews DEF MainOnesExist
<1> QED BY <1>1, <1>4, <1>5, <1>6, <1>8, <1>9, OnlyViews DEF SchemaInv

\* The view that goes was not the default, or leaves the place to one that is there.
LEMMA RemoveViewKeeps ==
  ASSUME SchemaInv, NEW j \in Job, RemoveView(j)
  PROVE  SchemaInv'
<1> DEFINE s == job[j]
<1>1. s.kind = "removeView" /\ s \in RemovingView /\ DefaultOk(s) /\ Shown(s.id) /\ view[s.id] = s.db
  BY Shapes DEF RemoveView, At, SchemaInv, SchemaOK, RequestsInv, RequestOk, DefaultOk
<1>2. PICK next \in IF s.wasDefault THEN Fallback(s.db, s.id) ELSE {database[s.db].default} :
        database' = [database EXCEPT ![s.db].default = next]
  BY DEF RemoveView
<1>3. /\ UNCHANGED <<property, link, strained>> /\ End(j)
      /\ view' = [view EXCEPT ![s.id] = Gone]
      /\ \A k \in Job \ {j} : job'[k] = job[k]
      /\ s.id \in View /\ s.db \in Database
  BY <1>1 DEF RemoveView, End, SchemaInv, SchemaOK, RemovingView
<1>4. /\ view'[s.id] = Gone /\ \A w \in View \ {s.id} : view'[w] = view[w]
      /\ \A d \in Database : ViewsOf(d)' = ViewsOf(d) \ {s.id}
  BY <1>3 DEF SchemaInv, SchemaOK, ViewsOf, Shown
<1>5. next \in View \cup {None}
  BY <1>2, <1>3 DEF Fallback, ViewsOf, SchemaInv, SchemaOK
<1>6. /\ database' \in [Database -> [is : BOOLEAN, default : View \cup {None}]]
      /\ \A f \in Database \ {s.db} : database'[f] = database[f]
      /\ database'[s.db].default = next
      /\ \A f \in Database : IsDatabase(f)' = IsDatabase(f)
  BY <1>2, <1>3, <1>5 DEF SchemaInv, SchemaOK, IsDatabase
<1>7. RowsInv'
  <2>1. \A f \in Database : ~IsDatabase(f)' => property'[NameOf[f]] = Unused /\ view'[ViewOf[f]] = Unused
    BY <1>1, <1>3, <1>4, <1>6, SchemaAssumption DEF SchemaInv, RowsInv, Shown
  <2>2. ASSUME NEW w \in View, Shown(w)' PROVE IsDatabase(view[w])'
    <3>1. Shown(w) /\ view'[w] = view[w] /\ view[w] \in Database
      BY <2>2, <1>3, <1>4 DEF Shown, SchemaInv, SchemaOK
    <3>2. IsDatabase(view[w])
      BY <3>1 DEF SchemaInv, RowsInv
    <3> QED BY <3>1, <3>2, <1>6
  <2> QED BY <1>3, <1>6, <2>1, <2>2, OnlyViews DEF RowsInv
<1>8. ASSUME NEW k \in Job \ {j} PROVE RequestOk(job[k])'
  <2> DEFINE r == job[k]
  <2>1. r \in Requested \cup {Idle} /\ RequestOk(r) /\ r' = r /\ Apart(s, r)
    BY <1>3, <1>8 DEF SchemaInv, SchemaOK, RequestsInv
  <2>2. r.kind \in {"removeView", "default"} => r.db \in Database /\ (r.kind = "removeView" => r.id \in View)
    BY <2>1, Shapes DEF RemovingView, SettingDefault
  <2>3. r.kind \in {"removeView", "default"} /\ r.db = s.db => <<"default", r.db>> \in strained
    BY <2>1, <1>1 DEF Apart, SetsDefault
  <2>4. r.kind = "removeView" => DefaultOk(r)'
    <3>1. SUFFICES ASSUME r.kind = "removeView" PROVE DefaultOk(r)'
      OBVIOUS
    <3>2. /\ view'[r.id] # Unused /\ (Shown(r.id)' => view'[r.id] = r.db)
      BY <3>1, <2>1, <2>2, <1>1, <1>4, StepValues DEF RequestOk, DefaultOk, Shown
    <3>3. IsDatabase(r.db)'
      BY <3>1, <2>1, <2>2, <1>6 DEF RequestOk, DefaultOk
    <3>4. <<"default", r.db>> \notin strained' /\ ~r.wasDefault => database'[r.db].default # r.id
      BY <3>1, <2>1, <2>2, <2>3, <1>3, <1>6 DEF RequestOk, DefaultOk
    <3> QED BY <3>1, <3>2, <3>3, <3>4, <2>1 DEF DefaultOk
  <2>5. r.kind = "default" => DefaultOk(r)'
    <3>1. SUFFICES ASSUME r.kind = "default" PROVE DefaultOk(r)'
      OBVIOUS
    <3>2. IsDatabase(r.db)'
      BY <3>1, <2>1, <2>2, <1>6 DEF RequestOk, DefaultOk
    <3>3. ASSUME <<"default", r.db>> \notin strained' PROVE r.id \in ViewsOf(r.db)' \cup {None}
      <4>1. r.db # s.db /\ r.id \in ViewsOf(r.db) \cup {None}
        BY <3>1, <3>3, <2>1, <2>3, <1>3 DEF RequestOk, DefaultOk
      <4>2. s.id \notin ViewsOf(r.db)
        BY <4>1, <1>1 DEF ViewsOf
      <4> QED BY <4>1, <4>2, <3>1, <2>1, <2>2, <1>4
    <3> QED BY <3>1, <3>2, <3>3, <2>1 DEF DefaultOk
  <2>6. DefaultOk(r)'
    BY <2>1, <2>4, <2>5 DEF DefaultOk
  <2> QED BY <2>1, <2>6, <1>3, <1>6, OnlyViews DEF RequestOk
<1>9. RequestsInv' /\ job' \in [Job -> Requested \cup {Idle}]
  BY <1>3, <1>8, RequestEnded DEF SchemaInv
<1>10. SchemaOK'
  BY <1>3, <1>6, <1>9 DEF SchemaInv, SchemaOK
<1>11. MainOnesExist'
  <2>1. ASSUME NEW f \in Database, IsDatabase(f)', <<"default", f>> \notin strained'
        PROVE  database'[f].default \in ViewsOf(f)' \cup {None}
    <3>1. database[f].default \in ViewsOf(f) \cup {None}
      BY <2>1, <1>3, <1>6 DEF SchemaInv, MainOnesExist
    <3>2. CASE f # s.db
      <4>1. s.id \notin ViewsOf(f)
        BY <3>2, <1>1 DEF ViewsOf
      <4> QED BY <3>1, <3>2, <4>1, <1>4, <1>6
    <3>3. CASE f = s.db /\ s.wasDefault
      BY <3>3, <1>2, <1>4, <1>6 DEF Fallback
    <3>4. CASE f = s.db /\ ~s.wasDefault
      <4>1. next = database[f].default /\ next # s.id
        BY <3>4, <2>1, <1>1, <1>2, <1>3 DEF DefaultOk
      <4> QED BY <3>1, <3>4, <4>1, <1>4, <1>6
    <3> QED BY <3>2, <3>3, <3>4, <1>1 DEF RemovingView
  <2> QED BY <2>1, <1>3, <1>6, OnlyViews DEF MainOnesExist
<1> QED BY <1>3, <1>6, <1>7, <1>9, <1>10, <1>11, OnlyViews DEF SchemaInv

LEMMA SetDefaultKeeps ==
  ASSUME SchemaInv, NEW j \in Job, SetDefault(j)
  PROVE  SchemaInv'
<1> DEFINE s == job[j]
<1>1. s.kind = "default" /\ s \in SettingDefault /\ DefaultOk(s)
  BY Shapes DEF SetDefault, At, SchemaInv, SchemaOK, RequestsInv, RequestOk
<1>2. /\ UNCHANGED <<property, view, link, strained>> /\ End(j)
      /\ database' = [database EXCEPT ![s.db].default = s.id]
      /\ \A k \in Job \ {j} : job'[k] = job[k]
      /\ s.id \in View \cup {None} /\ s.db \in Database
  BY <1>1 DEF SetDefault, End, SchemaInv, SchemaOK, SettingDefault
<1>3. /\ database' \in [Database -> [is : BOOLEAN, default : View \cup {None}]]
      /\ \A f \in Database \ {s.db} : database'[f] = database[f]
      /\ database'[s.db].default = s.id
      /\ \A f \in Database : IsDatabase(f)' = IsDatabase(f)
  BY <1>2 DEF SchemaInv, SchemaOK, IsDatabase
<1>4. RowsInv'
  <2>1. \A f \in Database : ~IsDatabase(f)' => property'[NameOf[f]] = Unused /\ view'[ViewOf[f]] = Unused
    BY <1>2, <1>3 DEF SchemaInv, RowsInv
  <2>2. ASSUME NEW w \in View, Shown(w)' PROVE IsDatabase(view[w])'
    <3>1. Shown(w) /\ view[w] \in Database /\ IsDatabase(view[w])
      BY <2>2, <1>2 DEF Shown, SchemaInv, SchemaOK, RowsInv
    <3> QED BY <3>1, <1>2, <1>3
  <2> QED BY <1>2, <1>3, <2>1, <2>2, OnlyViews DEF RowsInv
<1>5. ASSUME NEW k \in Job \ {j} PROVE RequestOk(job[k])'
  <2> DEFINE r == job[k]
  <2>1. r \in Requested \cup {Idle} /\ RequestOk(r) /\ r' = r /\ Apart(s, r)
    BY <1>2, <1>5 DEF SchemaInv, SchemaOK, RequestsInv
  <2>2. r.kind \in {"removeView", "default"} => r.db \in Database
    BY <2>1, Shapes DEF RemovingView, SettingDefault
  <2>3. r.kind \in {"removeView", "default"} /\ r.db = s.db => <<"default", r.db>> \in strained
    BY <2>1, <1>1 DEF Apart, SetsDefault
  <2>4. DefaultOk(r)'
    BY <2>1, <2>2, <2>3, <1>2, <1>3 DEF RequestOk, DefaultOk, Shown, ViewsOf
  <2> QED BY <2>1, <2>4, <1>2, <1>3, OnlyViews DEF RequestOk
<1>6. RequestsInv' /\ job' \in [Job -> Requested \cup {Idle}]
  BY <1>2, <1>5, RequestEnded DEF SchemaInv
<1>7. SchemaOK'
  BY <1>2, <1>3, <1>6 DEF SchemaInv, SchemaOK
<1>8. MainOnesExist'
  <2>1. ASSUME NEW f \in Database, IsDatabase(f)', <<"default", f>> \notin strained'
        PROVE  database'[f].default \in ViewsOf(f)' \cup {None}
    <3>1. ViewsOf(f)' = ViewsOf(f)
      BY <1>2 DEF ViewsOf, Shown
    <3>2. CASE f = s.db
      BY <2>1, <3>1, <3>2, <1>1, <1>2, <1>3 DEF DefaultOk
    <3>3. CASE f # s.db
      BY <2>1, <3>1, <3>3, <1>2, <1>3 DEF SchemaInv, MainOnesExist
    <3> QED BY <3>2, <3>3
  <2> QED BY <2>1, <1>2, <1>3, OnlyViews DEF MainOnesExist
<1> QED BY <1>2, <1>3, <1>4, <1>6, <1>7, <1>8, OnlyViews DEF SchemaInv


-----------------------------------------------------------------------------
(* Writing properties that are there.                                      *)
\* Which properties there are, and of which database, is all that most of the
\* invariant asks of them.
LEMMA SameOwners ==
  ASSUME SchemaInv, UNCHANGED <<database, view, link>>, strained \subseteq strained',
         \A q \in Property : /\ property'[q] = Unused <=> property[q] = Unused
                             /\ Exists(q)' = Exists(q)
                             /\ Exists(q) => property'[q].db = property[q].db
  PROVE  /\ RowsInv'
         /\ \A d \in Database : PropertiesOf(d)' = PropertiesOf(d) /\ IsDatabase(d)' = IsDatabase(d)
         /\ \A d \in Database : IsDatabase(d)' => (<<"default", d>> \notin strained
              => database[d].default \in ViewsOf(d) \cup {None})'
         /\ \A r \in Requested \cup {Idle} :
              RequestOk(r) =>
                /\ (CreateOk(r) /\ PromoteOk(r) /\ DefaultOk(r))'
                /\ MakesPrimary(r) => \A q \in r.sees : Under(q, r.db)' /\ q # r.id
                /\ r.kind = "remove" => Under(r.id, r.db)'
<1>1. \A d \in Database : PropertiesOf(d)' = PropertiesOf(d) /\ IsDatabase(d)' = IsDatabase(d)
  BY DEF PropertiesOf, IsDatabase
<1>2. \A q \in Property : \A d : Under(q, d) => Under(q, d)'
  BY DEF Under
<1>3. RowsInv'
  <2>1. \A d \in Database : ~IsDatabase(d)' => property'[NameOf[d]] = Unused /\ view'[ViewOf[d]] = Unused
    BY <1>1, SchemaAssumption DEF SchemaInv, RowsInv
  <2>2. ASSUME NEW p \in Property, Exists(p)' PROVE IsDatabase(property[p].db)'
    BY <2>2 DEF SchemaInv, RowsInv, IsDatabase
  <2>3. \A v \in View : Shown(v)' => IsDatabase(view[v])'
    BY DEF SchemaInv, RowsInv, IsDatabase, Shown
  <2>4. \A l \in link' : Exists(l[1])'
    BY DEF SchemaInv, SchemaOK, RowsInv
  <2> QED BY <2>1, <2>2, <2>3, <2>4 DEF RowsInv
<1>4. \A d \in Database : IsDatabase(d)' => (<<"default", d>> \notin strained
        => database[d].default \in ViewsOf(d) \cup {None})'
  BY DEF SchemaInv, MainOnesExist, IsDatabase, ViewsOf, Shown
<1>5. ASSUME NEW r \in Requested \cup {Idle}, RequestOk(r)
      PROVE  /\ (CreateOk(r) /\ PromoteOk(r) /\ DefaultOk(r))'
             /\ MakesPrimary(r) => \A q \in r.sees : Under(q, r.db)' /\ q # r.id
             /\ r.kind = "remove" => Under(r.id, r.db)'
  <2>1. CreateOk(r)'
    <3>1. r.kind = "create" => {r.id, r.mirror} \subseteq Property /\ r.db \in Database
      BY <1>5, Shapes DEF Creating
    <3> QED BY <3>1, <1>1, <1>5 DEF RequestOk, CreateOk, Named
  <2>2. PromoteOk(r)'
    <3>1. r.kind = "primary" => r.id \in Property /\ r.db \in Database
      BY <1>5, Shapes DEF Promoting
    <3> QED BY <3>1, <1>1, <1>2, <1>5 DEF RequestOk, PromoteOk
  <2>3. DefaultOk(r)'
    BY <1>5, SameViews
  <2>4. MakesPrimary(r) => \A q \in r.sees : Under(q, r.db)' /\ q # r.id
    <3>1. MakesPrimary(r) => r.sees \subseteq Property
      BY <1>5, Shapes DEF MakesPrimary, Creating, Promoting
    <3> QED BY <3>1, <1>2, <1>5 DEF RequestOk, SeesOk
  <2>5. r.kind = "remove" => Under(r.id, r.db)'
    <3>1. r.kind = "remove" => r.id \in Property
      BY <1>5, Shapes DEF Removing
    <3> QED BY <3>1, <1>2, <1>5 DEF RequestOk, RemoveOk
  <2> QED BY <2>1, <2>2, <2>3, <2>4, <2>5
<1> QED BY <1>1, <1>3, <1>4, <1>5

\* And a flag that only falls.
LEMMA FewerPrimary ==
  ASSUME SchemaInv, UNCHANGED <<database, view, link>>, strained \subseteq strained',
         \A q \in Property : /\ property'[q] = Unused <=> property[q] = Unused
                             /\ Exists(q)' = Exists(q)
                             /\ Exists(q) => property'[q].db = property[q].db
                             /\ Exists(q) => (property'[q].primary => property[q].primary),
         NEW r \in Requested \cup {Idle}, RequestOk(r)
  PROVE  SeesOk(r)' /\ RemoveOk(r)'
<1>1. SeesOk(r)'
  <2>1. MakesPrimary(r) => r.db \in Database
    BY Shapes DEF MakesPrimary, Creating, Promoting
  <2>2. \A q \in PropertiesOf(r.db) : q \in Property /\ Exists(q)
    BY DEF PropertiesOf
  <2> QED BY <2>1, <2>2, SameOwners DEF RequestOk, SeesOk, MakesPrimary
<1>2. RemoveOk(r)'
  <2>1. r.kind = "remove" => r.id \in Property
    BY Shapes DEF Removing
  <2> QED BY <2>1, SameOwners DEF RequestOk, RemoveOk
<1> QED BY <1>1, <1>2

\* And the same partners.
LEMMA SamePartners ==
  ASSUME SchemaInv, UNCHANGED link, strained \subseteq strained',
         \A q \in Property : /\ property'[q] = Unused <=> property[q] = Unused
                             /\ Exists(q)' = Exists(q)
                             /\ Exists(q) => property'[q].paired = property[q].paired
  PROVE  /\ PartnersInv' /\ LinksMirrored'
         /\ \A r \in Requested \cup {Idle} : RequestOk(r) => PairRequestOk(r)'
<1>1. ASSUME NEW p, NEW q \in Property \cup {None}, PartnerOf(p, q)
      PROVE  PartnerOf(p, q)'
  BY <1>1 DEF PartnerOf
<1>2. PartnersInv'
  <2>1. ASSUME NEW p \in Property, Exists(p)' PROVE PartnerOf(p, property[p].paired)'
    <3>1. property[p].paired \in Property \cup {None} /\ PartnerOf(p, property[p].paired)
      BY <2>1 DEF SchemaInv, SchemaOK, PartnersInv, Exists, Columns
    <3>2. property'[p].paired = property[p].paired
      BY <2>1
    <3> QED BY <3>1, <3>2 DEF PartnerOf
  <2> QED BY <2>1 DEF PartnersInv
<1>3. LinksMirrored'
  BY DEF SchemaInv, LinksMirrored
<1>4. ASSUME NEW r \in Requested \cup {Idle}, RequestOk(r) PROVE PairRequestOk(r)'
  <2>1. Linking(r) => r.id \in Property /\ r.paired \in Property \cup {None}
    BY <1>4, Shapes DEF Linking, PairRequest, Unlinking
  <2> QED BY <2>1, <1>1, <1>4 DEF RequestOk, PairRequestOk, Linking
<1> QED BY <1>2, <1>3, <1>4

LEMMA UnmarkKeeps ==
  ASSUME SchemaInv, NEW j \in Job, Unmark(j)
  PROVE  SchemaInv'
<1> DEFINE p == job[j].id
<1>1. /\ job[j].kind = "unmark" /\ p \in Property /\ Exists(p) /\ property[p] \in Columns
      /\ End(j) /\ UNCHANGED <<database, view, link>>
      /\ strained' = IF property[p].primary THEN strained \cup {property[p].db} ELSE strained
      /\ \A k \in Job \ {j} : job'[k] = job[k]
  BY Shapes DEF Unmark, At, End, SchemaInv, SchemaOK, Unmarking, Exists
<1>2. /\ property' = [property EXCEPT ![p] = [property[p] EXCEPT !.primary = FALSE]]
      /\ [property[p] EXCEPT !.primary = FALSE] \in Columns
  BY <1>1 DEF Unmark, Columns
<1>3. /\ property' \in [Property -> Columns \cup {Unused, Gone}]
      /\ strained \subseteq strained'
      /\ \A q \in Property : /\ property'[q] = Unused <=> property[q] = Unused
                             /\ Exists(q)' = Exists(q)
                             /\ Exists(q) => property'[q].db = property[q].db
                             /\ Exists(q) => property'[q].paired = property[q].paired
                             /\ Exists(q) => (property'[q].primary => property[q].primary)
  <2> DEFINE c == [property[p] EXCEPT !.primary = FALSE]
  <2>1. c.db = property[p].db /\ c.paired = property[p].paired /\ c.primary = FALSE
    BY <1>1 DEF Columns
  <2>2. c # Unused /\ c # Gone
    BY <1>2, StepValues
  <2>3. /\ property' \in [Property -> Columns \cup {Unused, Gone}]
        /\ property'[p] = c /\ \A q \in Property \ {p} : property'[q] = property[q]
    BY <1>1, <1>2 DEF SchemaInv, SchemaOK
  <2> QED BY <2>1, <2>2, <2>3, <1>1 DEF Exists
<1>4. ASSUME NEW k \in Job \ {j} PROVE RequestOk(job[k])'
  <2>1. job[k] \in Requested \cup {Idle} /\ RequestOk(job[k]) /\ job'[k] = job[k]
    BY <1>1, <1>4 DEF SchemaInv, SchemaOK, RequestsInv
  <2> QED BY <2>1, <1>1, <1>3, SameOwners, FewerPrimary, SamePartners DEF RequestOk
<1>5. RequestsInv' /\ job' \in [Job -> Requested \cup {Idle}]
  BY <1>1, <1>3, <1>4, RequestEnded DEF SchemaInv
<1>6. SchemaOK'
  BY <1>1, <1>3, <1>5 DEF SchemaInv, SchemaOK
<1>7. MainOnesExist'
  <2>1. ASSUME NEW d \in Database, IsDatabase(d)', d \notin strained'
        PROVE  \A q \in PropertiesOf(d) : property'[q].primary = property[q].primary
    BY <2>1, <1>1, <1>2 DEF PropertiesOf, SchemaInv, SchemaOK, Exists, Columns
  <2>2. ASSUME NEW d \in Database, IsDatabase(d)', d \notin strained'
        PROVE  /\ \E q \in PropertiesOf(d) : property'[q].primary
               /\ \A q, r \in PropertiesOf(d) : property'[q].primary /\ property'[r].primary => q = r
    <3>1. IsDatabase(d) /\ d \notin strained
      BY <2>2, <1>1, <1>3, SameOwners
    <3>2. \A q \in PropertiesOf(d) : property'[q].primary = property[q].primary
      BY <2>1, <2>2
    <3> QED BY <3>1, <3>2 DEF SchemaInv, MainOnesExist
  <2> QED BY <2>2, <1>1, <1>3, SameOwners DEF MainOnesExist
<1> QED BY <1>1, <1>3, <1>5, <1>6, <1>7, SameOwners, SamePartners DEF SchemaInv

\* Both the property and whom it names are marked.
LEMMA ConfigureKeeps ==
  ASSUME SchemaInv, NEW j \in Job, Configure(j)
  PROVE  SchemaInv'
<1> DEFINE s == job[j]
           p == s.id
<1>1. /\ s.kind = "configure" /\ p \in Property /\ Exists(p) /\ property[p] \in Columns
      /\ s.target \in Database /\ s.paired \in Property \cup {None}
      /\ End(j) /\ UNCHANGED <<database, view, link>>
      /\ strained \subseteq strained' /\ p \in strained' /\ (s.paired # None => s.paired \in strained')
      /\ \A k \in Job \ {j} : job'[k] = job[k]
  BY Shapes, SchemaAssumption DEF Configure, At, End, SchemaInv, SchemaOK, Configuring, Exists
<1>2. /\ property' = [property EXCEPT ![p] = [property[p] EXCEPT !.target = s.target, !.paired = s.paired]]
      /\ [property[p] EXCEPT !.target = s.target, !.paired = s.paired] \in Columns
  BY <1>1 DEF Configure, Columns
<1>3. /\ property' \in [Property -> Columns \cup {Unused, Gone}]
      /\ \A q \in Property \ {p} : property'[q] = property[q]
      /\ property'[p].paired = s.paired
      /\ \A q \in Property : /\ property'[q] = Unused <=> property[q] = Unused
                             /\ Exists(q)' = Exists(q)
                             /\ Exists(q) => property'[q].db = property[q].db
                             /\ Exists(q) => (property'[q].primary = property[q].primary)
  <2> DEFINE c == [property[p] EXCEPT !.target = s.target, !.paired = s.paired]
  <2>1. c.db = property[p].db /\ c.paired = s.paired /\ c.primary = property[p].primary
    BY <1>1 DEF Columns
  <2>2. c # Unused /\ c # Gone
    BY <1>2, StepValues
  <2>3. /\ property' \in [Property -> Columns \cup {Unused, Gone}]
        /\ property'[p] = c /\ \A q \in Property \ {p} : property'[q] = property[q]
    BY <1>1, <1>2 DEF SchemaInv, SchemaOK
  <2> QED BY <2>1, <2>2, <2>3, <1>1 DEF Exists
<1>4. ASSUME NEW x, NEW q \in Property \cup {None}, PartnerOf(x, q)
      PROVE  PartnerOf(x, q)'
  BY <1>1, <1>3, <1>4 DEF PartnerOf
<1>5. PartnersInv'
  <2>1. ASSUME NEW z \in Property, Exists(z)' PROVE PartnerOf(z, property[z].paired)'
    <3>1. CASE z = p
      BY <3>1, <1>1, <1>3 DEF PartnerOf
    <3>2. CASE z # p
      <4>1. property'[z] = property[z] /\ Exists(z)
        BY <3>2, <2>1, <1>3
      <4>2. property[z].paired \in Property \cup {None} /\ PartnerOf(z, property[z].paired)
        BY <4>1 DEF SchemaInv, SchemaOK, PartnersInv, Exists, Columns
      <4> QED BY <4>1, <4>2, <1>4 DEF PartnerOf
    <3> QED BY <3>1, <3>2
  <2> QED BY <2>1 DEF PartnersInv
<1>6. LinksMirrored'
  BY <1>1, <1>3 DEF SchemaInv, LinksMirrored
<1>7. ASSUME NEW k \in Job \ {j} PROVE RequestOk(job[k])'
  <2> DEFINE r == job[k]
  <2>1. r \in Requested \cup {Idle} /\ RequestOk(r) /\ r' = r
    BY <1>1, <1>7 DEF SchemaInv, SchemaOK, RequestsInv
  <2>2. Linking(r) => r.id \in Property /\ r.paired \in Property \cup {None}
    BY <2>1, Shapes DEF Linking, PairRequest, Unlinking
  <2>3. PairRequestOk(r)'
    <3>1. SUFFICES ASSUME Linking(r) PROVE PairRequestOk(r)'
      BY <2>1 DEF PairRequestOk, Linking
    <3>2. PartnerOf(r.id, r.paired)'
      BY <3>1, <2>1, <2>2, <1>4 DEF RequestOk, PairRequestOk, PartnerOf
    <3>3. property'[r.id] # Unused
      BY <3>1, <2>1, <2>2, <1>3 DEF RequestOk, PairRequestOk
    <3>4. r.id \notin strained' /\ Exists(r.id)' => property'[r.id].paired = r.paired
      BY <3>1, <2>1, <2>2, <1>1, <1>3 DEF RequestOk, PairRequestOk
    <3> QED BY <3>1, <3>2, <3>3, <3>4, <2>1, <1>1 DEF RequestOk, PairRequestOk
  <2> QED BY <2>1, <2>3, <1>1, <1>3, SameOwners, FewerPrimary DEF RequestOk
<1>8. RequestsInv' /\ job' \in [Job -> Requested \cup {Idle}]
  BY <1>1, <1>7, RequestEnded DEF SchemaInv
<1>9. SchemaOK'
  BY <1>1, <1>3, <1>8 DEF SchemaInv, SchemaOK
<1>10. MainOnesExist'
  <2>1. \A d \in Database : \A q \in PropertiesOf(d) : property'[q].primary = property[q].primary
    BY <1>3 DEF PropertiesOf
  <2>2. ASSUME NEW d \in Database, IsDatabase(d)', d \notin strained'
        PROVE  /\ \E q \in PropertiesOf(d) : property'[q].primary
               /\ \A q, r \in PropertiesOf(d) : property'[q].primary /\ property'[r].primary => q = r
    <3>1. IsDatabase(d) /\ d \notin strained
      BY <2>2, <1>1, <1>3, SameOwners
    <3>2. \A q \in PropertiesOf(d) : property'[q].primary = property[q].primary
      BY <2>1, <2>2
    <3> QED BY <3>1, <3>2 DEF SchemaInv, MainOnesExist
  <2> QED BY <2>2, <1>1, <1>3, SameOwners DEF MainOnesExist
<1> QED BY <1>1, <1>3, <1>5, <1>6, <1>8, <1>9, <1>10, SameOwners DEF SchemaInv


-----------------------------------------------------------------------------
(* Properties that go, come, and become primary.                           *)
\* The lock keeps the deletion off a property that is being made primary; one
\* that was made primary since the check is marked.
LEMMA RemoveKeeps ==
  ASSUME SchemaInv, NEW j \in Job, Remove(j)
  PROVE  SchemaInv'
<1> DEFINE s == job[j]
           p == s.id
<1>1. /\ s.kind = "remove" /\ p \in Property /\ Exists(p) /\ RemoveOk(s) /\ ~Locked(j, {p})
      /\ End(j) /\ UNCHANGED <<database, view, strained>>
      /\ \A k \in Job \ {j} : job'[k] = job[k]
      /\ link' = {l \in link : l[1] # p}
      /\ s.db \in Database
  BY Shapes DEF Remove, At, End, SchemaInv, SchemaOK, RequestsInv, RequestOk, Removing
<1>2. /\ property' \in [Property -> Columns \cup {Unused, Gone}]
      /\ property'[p] = Gone /\ \A q \in Property \ {p} : property'[q] = property[q]
      /\ \A q \in Property : Exists(q)' <=> Exists(q) /\ q # p
      /\ \A q \in Property : property'[q] = Unused <=> property[q] = Unused
      /\ \A d \in Database : PropertiesOf(d)' = PropertiesOf(d) \ {p} /\ IsDatabase(d)' = IsDatabase(d)
  <2>1. /\ property' \in [Property -> Columns \cup {Unused, Gone}]
        /\ property'[p] = Gone /\ \A q \in Property \ {p} : property'[q] = property[q]
    BY <1>1 DEF Remove, SchemaInv, SchemaOK
  <2>2. \A q \in Property : Exists(q)' <=> Exists(q) /\ q # p
    BY <2>1 DEF Exists
  <2> QED BY <2>1, <2>2, <1>1, StepValues DEF PropertiesOf, IsDatabase, Exists
<1>3. ASSUME NEW x, NEW q \in Property \cup {None}, PartnerOf(x, q)
      PROVE  PartnerOf(x, q)'
  BY <1>1, <1>2, <1>3 DEF PartnerOf
<1>4. RowsInv' /\ PartnersInv'
  <2>1. \A d \in Database : ~IsDatabase(d)' => property'[NameOf[d]] = Unused /\ view'[ViewOf[d]] = Unused
    BY <1>1, <1>2, SchemaAssumption DEF SchemaInv, RowsInv
  <2>2. \A q \in Property : Exists(q)' => IsDatabase(property[q].db)'
    BY <1>1, <1>2 DEF SchemaInv, RowsInv, IsDatabase
  <2>3. \A v \in View : Shown(v)' => IsDatabase(view[v])'
    BY <1>1 DEF SchemaInv, RowsInv, IsDatabase, Shown
  <2>4. \A l \in link' : Exists(l[1])'
    BY <1>1, <1>2 DEF SchemaInv, SchemaOK, RowsInv
  <2>5. ASSUME NEW z \in Property, Exists(z)' PROVE PartnerOf(z, property[z].paired)'
    <3>1. property'[z] = property[z] /\ Exists(z)
      BY <2>5, <1>2
    <3>2. property[z].paired \in Property \cup {None} /\ PartnerOf(z, property[z].paired)
      BY <3>1 DEF SchemaInv, SchemaOK, PartnersInv, Exists, Columns
    <3> QED BY <3>1, <3>2, <1>3 DEF PartnerOf
  <2> QED BY <2>1, <2>2, <2>3, <2>4, <2>5 DEF RowsInv, PartnersInv
<1>5. ASSUME NEW k \in Job \ {j} PROVE RequestOk(job[k])'
  <2> DEFINE r == job[k]
  <2>1. r \in Requested \cup {Idle} /\ RequestOk(r) /\ r' = r
    BY <1>1, <1>5 DEF SchemaInv, SchemaOK, RequestsInv
  <2>2. CreateOk(r)'
    <3>1. r.kind = "create" => {r.id, r.mirror} \subseteq Property /\ r.db \in Database
      BY <2>1, Shapes DEF Creating
    <3> QED BY <3>1, <2>1, <1>2 DEF RequestOk, CreateOk, Named
  <2>3. \A q \in Property : \A d : Under(q, d) => Under(q, d)'
    BY <1>2 DEF Under
  <2>4. PromoteOk(r)'
    <3>1. r.kind = "primary" => r.id \in Property /\ r.db \in Database
      BY <2>1, Shapes DEF Promoting
    <3>2. r.kind = "primary" /\ r.at \in {"clear", "commit"} => r.id # p
      BY <1>1, <1>5 DEF Locked
    <3> QED BY <3>1, <3>2, <2>1, <2>3, <1>2 DEF RequestOk, PromoteOk
  <2>5. SeesOk(r)'
    <3>1. MakesPrimary(r) => r.sees \subseteq Property /\ r.db \in Database
      BY <2>1, Shapes DEF MakesPrimary, Creating, Promoting
    <3>2. \A q \in PropertiesOf(r.db)' : MakesPrimary(r) => q \in PropertiesOf(r.db) /\ property'[q] = property[q]
      BY <3>1, <2>1, <1>2 DEF PropertiesOf
    <3> QED BY <3>1, <3>2, <2>1, <2>3, <1>1 DEF RequestOk, SeesOk, MakesPrimary
  <2>6. RemoveOk(r)'
    <3>1. r.kind = "remove" => r.id \in Property
      BY <2>1, Shapes DEF Removing
    <3> QED BY <3>1, <2>1, <2>3, <1>1, <1>2 DEF RequestOk, RemoveOk
  <2>7. PairRequestOk(r)'
    <3>1. Linking(r) => r.id \in Property /\ r.paired \in Property \cup {None}
      BY <2>1, Shapes DEF Linking, PairRequest, Unlinking
    <3>2. Linking(r) => PartnerOf(r.id, r.paired)'
      BY <3>1, <2>1, <1>3 DEF RequestOk, PairRequestOk, PartnerOf
    <3> QED BY <3>1, <3>2, <2>1, <1>1, <1>2 DEF RequestOk, PairRequestOk, Linking
  <2>8. DefaultOk(r)'
    BY <2>1, <1>1, SameViews DEF DefaultOk
  <2> QED BY <2>2, <2>4, <2>5, <2>6, <2>7, <2>8 DEF RequestOk
<1>6. RequestsInv' /\ job' \in [Job -> Requested \cup {Idle}]
  BY <1>1, <1>5, RequestEnded DEF SchemaInv
<1>7. SchemaOK'
  BY <1>1, <1>2, <1>6 DEF SchemaInv, SchemaOK
<1>8. MainOnesExist'
  <2>1. ASSUME NEW d \in Database, IsDatabase(d)', d \notin strained'
        PROVE  /\ \E q \in PropertiesOf(d)' : property'[q].primary
               /\ \A q, r \in PropertiesOf(d)' : property'[q].primary /\ property'[r].primary => q = r
    <3>1. /\ \E q \in PropertiesOf(d) : property[q].primary
          /\ \A q, r \in PropertiesOf(d) : property[q].primary /\ property[r].primary => q = r
      BY <2>1, <1>1, <1>2 DEF SchemaInv, MainOnesExist
    <3>2. p \in PropertiesOf(d) => ~property[p].primary
      BY <2>1, <1>1 DEF RemoveOk, Under, PropertiesOf
    <3>3. \A q \in PropertiesOf(d)' : q \in PropertiesOf(d) /\ property'[q] = property[q]
      BY <1>2 DEF PropertiesOf
    <3> QED BY <3>1, <3>2, <3>3, <1>2
  <2>2. ASSUME NEW d \in Database, IsDatabase(d)', <<"default", d>> \notin strained'
        PROVE  database'[d].default \in ViewsOf(d)' \cup {None}
    BY <2>2, <1>1, <1>2 DEF SchemaInv, MainOnesExist, ViewsOf, Shown
  <2> QED BY <2>1, <2>2 DEF MainOnesExist
<1>9. LinksMirrored'
  <2> SUFFICES ASSUME NEW x \in Property, NEW y \in Property,
                      Exists(x)', Exists(y)', {x, y} \cap strained = {},
                      property'[x].paired = y, property'[y].paired = x,
                      NEW a \in Row, NEW b \in Row
               PROVE  <<x, a, b>> \in link' <=> <<y, b, a>> \in link'
    BY <1>1 DEF LinksMirrored
  <2>1. <<x, a, b>> \in link <=> <<y, b, a>> \in link
    BY <1>2 DEF SchemaInv, LinksMirrored
  <2> QED BY <2>1, <1>1, <1>2
<1> QED BY <1>4, <1>6, <1>7, <1>8, <1>9 DEF SchemaInv

\* The first property and view of the page were unused, so nothing was about them.
LEMMA ConvertKeeps ==
  ASSUME SchemaInv, NEW j \in Job, Convert(j)
  PROVE  SchemaInv'
<1>0. job[j].db \in Database
  BY Shapes DEF Convert, At, SchemaInv, SchemaOK, Converting
<1> PICK d \in Database : d = job[j].db
  BY <1>0
<1> DEFINE n == NameOf[d]
           v == ViewOf[d]
           c == Column(d, "text", TRUE, None, None)
<1>1. /\ d \in Database /\ ~IsDatabase(d) /\ n \in Property /\ v \in View
      /\ property[n] = Unused /\ view[v] = Unused
      /\ End(j) /\ UNCHANGED <<link, strained>>
      /\ \A k \in Job \ {j} : job'[k] = job[k]
      /\ c \in Columns /\ c.db = d /\ c.primary = TRUE /\ c.paired = None
  <2>1. c \in Columns /\ c.db = d /\ c.primary = TRUE /\ c.paired = None
    BY DEF Column, Columns
  <2>2. n \in Property /\ v \in View
    BY SchemaAssumption
  <2> QED BY <2>1, <2>2 DEF Convert, End, SchemaInv, SchemaOK, RowsInv
<1>2. /\ property' \in [Property -> Columns \cup {Unused, Gone}]
      /\ property'[n] = c /\ \A q \in Property \ {n} : property'[q] = property[q]
      /\ Exists(n)'
      /\ \A q \in Property \ {n} : Exists(q)' = Exists(q)
  BY <1>1, StepValues DEF Convert, SchemaInv, SchemaOK, Exists
<1>3. /\ view' \in [View -> Database \cup {Unused, Gone}]
      /\ view'[v] = d /\ \A w \in View \ {v} : view'[w] = view[w]
      /\ Shown(v)'
      /\ \A w \in View \ {v} : Shown(w)' = Shown(w)
  BY <1>1, StepValues DEF Convert, SchemaInv, SchemaOK, Shown
<1>4. /\ database' \in [Database -> [is : BOOLEAN, default : View \cup {None}]]
      /\ IsDatabase(d)' /\ database'[d].default = v
      /\ \A f \in Database \ {d} : database'[f] = database[f] /\ IsDatabase(f)' = IsDatabase(f)
  BY <1>1 DEF Convert, SchemaInv, SchemaOK, IsDatabase
<1>5. \A f \in Database \ {d} : PropertiesOf(f)' = PropertiesOf(f) /\ ViewsOf(f)' = ViewsOf(f)
  <2>1. ~Exists(n) /\ ~Shown(v)
    BY <1>1 DEF Exists, Shown
  <2>2. ASSUME NEW f \in Database \ {d}, NEW q \in Property
        PROVE  (Exists(q)' /\ property'[q].db = f) <=> (Exists(q) /\ property[q].db = f)
    <3>1. CASE q = n
      BY <3>1, <2>1, <1>1, <1>2
    <3>2. CASE q # n
      BY <3>2, <1>2
    <3> QED BY <3>1, <3>2
  <2>3. \A f \in Database \ {d} : \A w \in View :
          Shown(w)' /\ view'[w] = f <=> Shown(w) /\ view[w] = f
    BY <2>1, <1>1, <1>3
  <2> QED BY <2>2, <2>3 DEF PropertiesOf, ViewsOf
<1>6. PropertiesOf(d)' = {n} /\ v \in ViewsOf(d)'
  <2>1. \A q \in Property \ {n} : Exists(q) => property[q].db # d
    BY <1>1 DEF SchemaInv, RowsInv
  <2>2. ASSUME NEW q \in Property
        PROVE  (Exists(q)' /\ property'[q].db = d) <=> q = n
    <3>1. CASE q = n
      BY <3>1, <1>1, <1>2
    <3>2. CASE q # n
      BY <3>2, <2>1, <1>2
    <3> QED BY <3>1, <3>2
  <2> QED BY <2>2, <1>1, <1>3 DEF PropertiesOf, ViewsOf
<1>7. ASSUME NEW x, NEW q \in Property \cup {None}, PartnerOf(x, q)
      PROVE  PartnerOf(x, q)'
  BY <1>1, <1>2, <1>7 DEF PartnerOf
<1>8. RowsInv'
  <2>1. \A f \in Database : ~IsDatabase(f)' => property'[NameOf[f]] = Unused /\ view'[ViewOf[f]] = Unused
    BY <1>1, <1>2, <1>3, <1>4, SchemaAssumption DEF SchemaInv, RowsInv
  <2>2. ASSUME NEW q \in Property, Exists(q)' PROVE IsDatabase(property[q].db)'
    <3>1. CASE q = n
      BY <3>1, <1>1, <1>2, <1>4
    <3>2. CASE q # n
      <4>1. property'[q] = property[q] /\ Exists(q) /\ property[q].db \in Database /\ IsDatabase(property[q].db)
        BY <3>2, <2>2, <1>2 DEF SchemaInv, SchemaOK, RowsInv, Exists, Columns
      <4> QED BY <4>1, <1>1, <1>4
    <3> QED BY <3>1, <3>2
  <2>3. ASSUME NEW w \in View, Shown(w)' PROVE IsDatabase(view[w])'
    <3>1. CASE w = v
      BY <3>1, <1>3, <1>4
    <3>2. CASE w # v
      <4>1. view'[w] = view[w] /\ Shown(w) /\ view[w] \in Database /\ IsDatabase(view[w])
        BY <3>2, <2>3, <1>3 DEF SchemaInv, SchemaOK, RowsInv, Shown
      <4> QED BY <4>1, <1>1, <1>4
    <3> QED BY <3>1, <3>2
  <2>4. \A l \in link' : Exists(l[1])'
    BY <1>1, <1>2 DEF SchemaInv, SchemaOK, RowsInv
  <2> QED BY <2>1, <2>2, <2>3, <2>4 DEF RowsInv
<1>9. PartnersInv'
  <2>1. ASSUME NEW z \in Property, Exists(z)' PROVE PartnerOf(z, property[z].paired)'
    <3>1. CASE z = n
      BY <3>1, <1>1, <1>2 DEF PartnerOf
    <3>2. CASE z # n
      <4>1. property'[z] = property[z] /\ Exists(z)
        BY <3>2, <2>1, <1>2
      <4>2. property[z].paired \in Property \cup {None} /\ PartnerOf(z, property[z].paired)
        BY <4>1 DEF SchemaInv, SchemaOK, PartnersInv, Exists, Columns
      <4> QED BY <4>1, <4>2, <1>7 DEF PartnerOf
    <3> QED BY <3>1, <3>2
  <2> QED BY <2>1 DEF PartnersInv
<1>10. ASSUME NEW k \in Job \ {j} PROVE RequestOk(job[k])'
  <2> DEFINE r == job[k]
  <2>1. r \in Requested \cup {Idle} /\ RequestOk(r) /\ r' = r
    BY <1>1, <1>10 DEF SchemaInv, SchemaOK, RequestsInv
  <2>2. CreateOk(r)'
    <3>1. r.kind = "create" => {r.id, r.mirror} \subseteq Property /\ r.db \in Database
      BY <2>1, Shapes DEF Creating
    <3> QED BY <3>1, <2>1, <1>1, <1>2, <1>4 DEF RequestOk, CreateOk, Named
  <2>3. \A q \in Property : \A f : Under(q, f) => Under(q, f)'
    BY <1>1, <1>2 DEF Under
  <2>4. PromoteOk(r)'
    <3>1. r.kind = "primary" => r.id \in Property /\ r.db \in Database
      BY <2>1, Shapes DEF Promoting
    <3>2. r.kind = "primary" => r.id # n
      BY <2>1, <1>1 DEF RequestOk, PromoteOk, Under
    <3> QED BY <3>1, <3>2, <2>1, <2>3, <1>1, <1>2, <1>4 DEF RequestOk, PromoteOk
  <2>5. SeesOk(r)'
    <3>1. MakesPrimary(r) => r.sees \subseteq Property /\ r.db \in Database
      BY <2>1, Shapes DEF MakesPrimary, Creating, Promoting
    <3>2. MakesPrimary(r) => r.db # d
      BY <2>1, <1>1 DEF RequestOk, CreateOk, PromoteOk, MakesPrimary
    <3>3. MakesPrimary(r) => \A q \in PropertiesOf(r.db)' : q \in PropertiesOf(r.db) /\ property'[q] = property[q]
      BY <3>1, <3>2, <2>1, <1>1, <1>2, <1>5 DEF PropertiesOf, Exists
    <3> QED BY <3>1, <3>3, <2>1, <2>3, <1>1 DEF RequestOk, SeesOk, MakesPrimary
  <2>6. RemoveOk(r)'
    <3>1. r.kind = "remove" => r.id \in Property
      BY <2>1, Shapes DEF Removing
    <3> QED BY <3>1, <2>1, <2>3, <1>1, <1>2 DEF RequestOk, RemoveOk, Under
  <2>7. PairRequestOk(r)'
    <3>1. Linking(r) => r.id \in Property /\ r.paired \in Property \cup {None}
      BY <2>1, Shapes DEF Linking, PairRequest, Unlinking
    <3>2. Linking(r) => PartnerOf(r.id, r.paired)'
      BY <3>1, <2>1, <1>7 DEF RequestOk, PairRequestOk, PartnerOf
    <3>3. Linking(r) => r.id # n
      BY <2>1, <1>1 DEF RequestOk, PairRequestOk
    <3> QED BY <3>1, <3>2, <3>3, <2>1, <1>1, <1>2 DEF RequestOk, PairRequestOk, Linking
  <2>8. DefaultOk(r)'
    <3>1. /\ r.kind = "removeView" => r.id \in View
          /\ r.kind \in {"removeView", "default"} => r.db \in Database
      BY <2>1, Shapes DEF RemovingView, SettingDefault
    <3>2. /\ r.kind = "removeView" => r.id # v
          /\ r.kind \in {"removeView", "default"} => r.db # d
      BY <2>1, <1>1 DEF RequestOk, DefaultOk
    <3>3. r.kind \in {"removeView", "default"}
            => ViewsOf(r.db)' = ViewsOf(r.db) /\ database'[r.db] = database[r.db] /\ IsDatabase(r.db)' = IsDatabase(r.db)
      BY <3>1, <3>2, <2>1, <1>4, <1>5
    <3>4. r.kind = "removeView" => view'[r.id] = view[r.id] /\ Shown(r.id)' = Shown(r.id)
      BY <3>1, <3>2, <2>1, <1>3
    <3> QED BY <3>3, <3>4, <2>1, <1>1 DEF RequestOk, DefaultOk
  <2> QED BY <2>2, <2>4, <2>5, <2>6, <2>7, <2>8 DEF RequestOk
<1>11. RequestsInv' /\ job' \in [Job -> Requested \cup {Idle}]
  BY <1>1, <1>10, RequestEnded DEF SchemaInv
<1>12. SchemaOK'
  BY <1>1, <1>2, <1>3, <1>4, <1>11 DEF SchemaInv, SchemaOK
<1>13. MainOnesExist'
  <2>1. ASSUME NEW f \in Database, IsDatabase(f)', f \notin strained'
        PROVE  /\ \E q \in PropertiesOf(f)' : property'[q].primary
               /\ \A q, r \in PropertiesOf(f)' : property'[q].primary /\ property'[r].primary => q = r
    <3>1. CASE f = d
      BY <3>1, <1>1, <1>2, <1>6
    <3>2. CASE f # d
      <4>1. \A q \in PropertiesOf(f) : property'[q] = property[q]
        BY <3>2, <1>1, <1>2 DEF PropertiesOf, Exists
      <4>2. IsDatabase(f) /\ f \notin strained /\ PropertiesOf(f)' = PropertiesOf(f)
        BY <3>2, <2>1, <1>1, <1>4, <1>5
      <4>3. /\ \E q \in PropertiesOf(f) : property[q].primary
            /\ \A q, r \in PropertiesOf(f) : property[q].primary /\ property[r].primary => q = r
        BY <4>2 DEF SchemaInv, MainOnesExist
      <4> QED BY <4>1, <4>2, <4>3
    <3> QED BY <3>1, <3>2
  <2>2. ASSUME NEW f \in Database, IsDatabase(f)', <<"default", f>> \notin strained'
        PROVE  database'[f].default \in ViewsOf(f)' \cup {None}
    <3>1. CASE f = d
      BY <3>1, <1>4, <1>6
    <3>2. CASE f # d
      BY <3>2, <2>2, <1>1, <1>4, <1>5 DEF SchemaInv, MainOnesExist
    <3> QED BY <3>1, <3>2
  <2> QED BY <2>1, <2>2 DEF MainOnesExist
<1>14. LinksMirrored'
  <2> SUFFICES ASSUME NEW x \in Property, NEW y \in Property,
                      Exists(x)', Exists(y)', {x, y} \cap strained = {},
                      property'[x].paired = y, property'[y].paired = x
               PROVE  \A a, b \in Row : <<x, a, b>> \in link <=> <<y, b, a>> \in link
    BY <1>1 DEF LinksMirrored
  <2>1. x # n /\ y # n
    <3>1. property'[n].paired = None /\ None \notin Property
      BY <1>1, <1>2, SchemaAssumption
    <3> QED BY <3>1
  <2> QED BY <2>1, <1>2 DEF SchemaInv, LinksMirrored
<1> QED BY <1>8, <1>9, <1>11, <1>12, <1>13, <1>14 DEF SchemaInv


-----------------------------------------------------------------------------
(* Writing properties that were not there.                                 *)
\* The properties N are new, with partners among themselves if with any that is
\* not marked; of the others each keeps its database, and its partner or is marked.
Grown(N) ==
  /\ \A n \in N :
       /\ property[n] = Unused /\ ~Named(n)
       /\ Exists(n)' /\ property'[n].db \in Database /\ IsDatabase(property'[n].db)
       /\ PartnerOf(n, property[n].paired)'
       /\ n \notin strained' => property'[n].paired \in N \cup {None}
  /\ \A q \in Property \ N :
       /\ property'[q] = Unused <=> property[q] = Unused
       /\ Exists(q)' <=> Exists(q)
       /\ Exists(q) => /\ property'[q].db = property[q].db
                       /\ \/ property'[q].paired = property[q].paired
                          \/ {q, property'[q].paired} \subseteq strained'

LEMMA GrownSchema ==
  ASSUME SchemaInv, UNCHANGED <<database, view, link>>, strained \subseteq strained',
         NEW N \in SUBSET Property, Grown(N)
  PROVE  /\ RowsInv' /\ PartnersInv' /\ LinksMirrored'
         /\ \A d \in Database : IsDatabase(d)' = IsDatabase(d)
         /\ \A d \in Database : IsDatabase(d)' => (<<"default", d>> \notin strained
              => database[d].default \in ViewsOf(d) \cup {None})'
<1>1. \A d \in Database : IsDatabase(d)' = IsDatabase(d)
  BY DEF IsDatabase
<1>2. ASSUME NEW x, NEW q \in Property \cup {None}, PartnerOf(x, q)
      PROVE  PartnerOf(x, q)'
  <2>1. SUFFICES ASSUME q \in Property, q # None, q \notin strained'
                 PROVE  property'[q] # Unused /\ (Exists(q)' => property'[q].paired = x)
    BY <1>2 DEF PartnerOf
  <2>2. property[q] # Unused /\ (Exists(q) => property[q].paired = x)
    BY <1>2, <2>1 DEF PartnerOf
  <2>3. q \notin N
    BY <2>2 DEF Grown
  <2> QED BY <2>1, <2>2, <2>3 DEF Grown
<1>3. RowsInv'
  <2>1. \A d \in Database : ~IsDatabase(d)' => property'[NameOf[d]] = Unused /\ view'[ViewOf[d]] = Unused
    <3>1. \A d \in Database : NameOf[d] \in Property \ N
      BY SchemaAssumption DEF Grown, Named
    <3> QED BY <3>1, <1>1 DEF SchemaInv, RowsInv, Grown
  <2>2. ASSUME NEW q \in Property, Exists(q)' PROVE IsDatabase(property[q].db)'
    <3>1. CASE q \in N
      BY <3>1, <1>1 DEF Grown
    <3>2. CASE q \notin N
      <4>1. Exists(q) /\ property'[q].db = property[q].db
        BY <3>2, <2>2 DEF Grown
      <4>2. IsDatabase(property[q].db)
        BY <4>1 DEF SchemaInv, RowsInv
      <4> QED BY <4>1, <4>2 DEF IsDatabase
    <3> QED BY <3>1, <3>2
  <2>3. \A v \in View : Shown(v)' => IsDatabase(view[v])'
    BY DEF SchemaInv, RowsInv, IsDatabase, Shown
  <2>4. ASSUME NEW l \in link' PROVE Exists(l[1])'
    <3>1. l[1] \in Property /\ Exists(l[1])
      BY DEF SchemaInv, SchemaOK, RowsInv
    <3>2. l[1] \notin N
      BY <3>1 DEF Grown, Exists
    <3> QED BY <3>1, <3>2 DEF Grown
  <2> QED BY <2>1, <2>2, <2>3, <2>4 DEF RowsInv
<1>4. PartnersInv'
  <2>1. ASSUME NEW z \in Property, Exists(z)' PROVE PartnerOf(z, property[z].paired)'
    <3>1. CASE z \in N
      BY <3>1 DEF Grown
    <3>2. CASE z \notin N
      <4>1. Exists(z)
        BY <3>2, <2>1 DEF Grown
      <4>2. property[z].paired \in Property \cup {None} /\ PartnerOf(z, property[z].paired)
        BY <4>1 DEF SchemaInv, SchemaOK, PartnersInv, Exists, Columns
      <4>3. CASE property'[z].paired = property[z].paired
        BY <4>2, <4>3, <1>2 DEF PartnerOf
      <4>4. CASE property'[z].paired \in strained'
        BY <4>4 DEF PartnerOf
      <4> QED BY <4>1, <4>3, <4>4, <3>2 DEF Grown
    <3> QED BY <3>1, <3>2
  <2> QED BY <2>1 DEF PartnersInv
<1>5. LinksMirrored'
  <2> SUFFICES ASSUME NEW x \in Property, NEW y \in Property,
                      Exists(x)', Exists(y)', {x, y} \cap strained' = {},
                      property'[x].paired = y, property'[y].paired = x,
                      NEW a \in Row, NEW b \in Row
               PROVE  <<x, a, b>> \in link <=> <<y, b, a>> \in link
    BY DEF LinksMirrored
  <2>1. None \notin Property
    BY SchemaAssumption
  <2>2. CASE x \in N \/ y \in N
    <3>1. x \in N /\ y \in N
      BY <2>1, <2>2 DEF Grown
    <3>2. ~Exists(x) /\ ~Exists(y)
      BY <3>1 DEF Grown, Exists
    <3> QED BY <3>2 DEF SchemaInv, RowsInv
  <2>3. CASE x \notin N /\ y \notin N
    <3>1. /\ Exists(x) /\ Exists(y) /\ {x, y} \cap strained = {}
          /\ property[x].paired = y /\ property[y].paired = x
      BY <2>3 DEF Grown
    <3> QED BY <3>1 DEF SchemaInv, LinksMirrored
  <2> QED BY <2>2, <2>3
<1>6. \A d \in Database : IsDatabase(d)' => (<<"default", d>> \notin strained
        => database[d].default \in ViewsOf(d) \cup {None})'
  BY DEF SchemaInv, MainOnesExist, IsDatabase, ViewsOf, Shown
<1> QED BY <1>1, <1>3, <1>4, <1>5, <1>6

LEMMA GrownRequests ==
  ASSUME SchemaInv, UNCHANGED <<database, view, link>>, strained \subseteq strained',
         NEW N \in SUBSET Property, Grown(N),
         NEW r \in Requested \cup {Idle}, RequestOk(r),
         r.kind = "create" => {r.id, r.mirror} \cap N = {}
  PROVE  /\ (CreateOk(r) /\ PromoteOk(r) /\ PairRequestOk(r) /\ DefaultOk(r))'
         /\ MakesPrimary(r) => \A q \in r.sees : Under(q, r.db)' /\ q # r.id
         /\ r.kind = "remove" => Under(r.id, r.db)' /\ r.id \notin N
<1>1. \A d \in Database : IsDatabase(d)' = IsDatabase(d)
  BY DEF IsDatabase
<1>2. \A q \in Property : \A f : Under(q, f) => Under(q, f)' /\ q \notin N
  BY DEF Under, Grown
<1>3. CreateOk(r)'
  <2>1. r.kind = "create" => {r.id, r.mirror} \subseteq Property /\ r.db \in Database
    BY Shapes DEF Creating
  <2> QED BY <2>1, <1>1 DEF RequestOk, CreateOk, Named, Grown
<1>4. PromoteOk(r)'
  <2>1. r.kind = "primary" => r.id \in Property /\ r.db \in Database
    BY Shapes DEF Promoting
  <2>2. r.kind = "primary" => Under(r.id, r.db)' /\ r.id \notin N
    BY <2>1, <1>2 DEF RequestOk, PromoteOk
  <2> QED BY <2>1, <2>2, <1>1 DEF RequestOk, PromoteOk, Grown
<1>5. PairRequestOk(r)'
  <2>1. SUFFICES ASSUME Linking(r) PROVE PairRequestOk(r)'
    BY DEF PairRequestOk, Linking
  <2>2. r.id \in Property /\ r.paired \in Property \cup {None}
    BY <2>1, Shapes DEF Linking, PairRequest, Unlinking
  <2>3. property[r.id] # Unused /\ r.id \notin N /\ property'[r.id] # Unused
    BY <2>1, <2>2 DEF RequestOk, PairRequestOk, Grown
  <2>4. r.id \notin strained' /\ Exists(r.id)' => property'[r.id].paired = r.paired
    BY <2>1, <2>2, <2>3 DEF RequestOk, PairRequestOk, Grown
  <2>5. PartnerOf(r.id, r.paired)'
    <3>1. SUFFICES ASSUME r.paired \in Property, r.paired # None, r.paired \notin strained'
                   PROVE  property'[r.paired] # Unused /\ (Exists(r.paired)' => property'[r.paired].paired = r.id)
      BY <2>2 DEF PartnerOf
    <3>2. property[r.paired] # Unused /\ (Exists(r.paired) => property[r.paired].paired = r.id)
      BY <2>1, <3>1 DEF RequestOk, PairRequestOk, PartnerOf
    <3>3. r.paired \notin N
      BY <3>2 DEF Grown
    <3> QED BY <3>1, <3>2, <3>3 DEF Grown
  <2> QED BY <2>1, <2>3, <2>4, <2>5 DEF RequestOk, PairRequestOk
<1>6. DefaultOk(r)'
  BY SameViews
<1>7. MakesPrimary(r) => \A q \in r.sees : Under(q, r.db)' /\ q # r.id
  <2>1. MakesPrimary(r) => r.sees \subseteq Property
    BY Shapes DEF MakesPrimary, Creating, Promoting
  <2> QED BY <2>1, <1>2 DEF RequestOk, SeesOk
<1>8. r.kind = "remove" => Under(r.id, r.db)' /\ r.id \notin N
  <2>1. r.kind = "remove" => r.id \in Property
    BY Shapes DEF Removing
  <2> QED BY <2>1, <1>2 DEF RequestOk, RemoveOk
<1> QED BY <1>3, <1>4, <1>5, <1>6, <1>7, <1>8


\* What a creation brings is not primary, and what it leaves behind is marked.
LEMMA Created ==
  ASSUME SchemaInv, NEW j \in Job, Create(j)
  PROVE  \E N \in SUBSET {job[j].id, job[j].mirror} :
           /\ Grown(N)
           /\ property' \in [Property -> Columns \cup {Unused, Gone}]
           /\ \A n \in N : ~property'[n].primary
           /\ \A q \in Property \ N : Exists(q) => property'[q].primary = property[q].primary
<1> PICK s : s = job[j]
  OBVIOUS
<1> DEFINE p == s.id
           m == s.mirror
           c == s.column
<1>1. /\ s.kind = "create" /\ p \in Property /\ m \in Property /\ s.db \in Database /\ c \in Columns
      /\ ~c.primary /\ CreateOk(s) /\ c.db = s.db /\ IsDatabase(s.db)
      /\ property[p] = Unused /\ property[m] = Unused /\ ~Named(p) /\ ~Named(m)
      /\ UNCHANGED <<database, view, link>>
      /\ property' = Wired(p, m, c)
      /\ strained' = strained \cup Rewires(c) \cup (IF Rewires(c) = {} THEN {} ELSE {p})
  BY Shapes DEF Create, At, SchemaInv, SchemaOK, RequestsInv, RequestOk, CreateOk, Creating
<1>2. property \in [Property -> Columns \cup {Unused, Gone}]
  BY DEF SchemaInv, SchemaOK
<1>3. c # Unused /\ c # Gone
  BY <1>1, StepValues
<1>4. \A d \in Database : IsDatabase(d)' = IsDatabase(d)
  BY <1>1 DEF IsDatabase
<1>5. CASE c.type = "text"
  <2>1. c.paired = None
    BY <1>1, <1>5 DEF CreateOk
  <2>2. property' = [property EXCEPT ![p] = c]
    BY <1>1, <1>5 DEF Wired
  <2>3. /\ property' \in [Property -> Columns \cup {Unused, Gone}]
        /\ property'[p] = c /\ \A q \in Property \ {p} : property'[q] = property[q]
    BY <2>2, <1>1, <1>2
  <2>4. \A q \in Property \ {p} : Exists(q)' <=> Exists(q)
    BY <2>3 DEF Exists
  <2>5. Exists(p)'
    BY <2>3, <1>3 DEF Exists
  <2>6. PartnerOf(p, property[p].paired)'
    BY <2>1, <2>3 DEF PartnerOf
  <2>7. Grown({p})
    BY <2>1, <2>3, <2>4, <2>5, <2>6, <1>1, <1>4 DEF Grown
  <2>8. {p} \in SUBSET {s.id, s.mirror}
    OBVIOUS
  <2> QED BY <2>3, <2>7, <2>8, <1>1
<1>6. CASE c.type = "relation" /\ c.paired = None
  <2> DEFINE here == [c EXCEPT !.paired = m]
             there == Column(c.target, "relation", FALSE, c.db, p)
  <2>1. m # p /\ c.target \in Database /\ IsDatabase(c.target)
    BY <1>1, <1>6 DEF CreateOk
  <2>2. /\ here \in Columns /\ here.db = s.db /\ here.paired = m /\ ~here.primary
        /\ there \in Columns /\ there.db = c.target /\ there.paired = p /\ ~there.primary
        /\ here # Unused /\ here # Gone /\ there # Unused /\ there # Gone
    <3>1. here \in Columns /\ here.db = s.db /\ here.paired = m /\ ~here.primary
      BY <1>1 DEF Columns
    <3>2. there \in Columns /\ there.db = c.target /\ there.paired = p /\ ~there.primary
      BY <1>1, <2>1 DEF Columns, Column
    <3> QED BY <3>1, <3>2, StepValues
  <2>3. property' = [property EXCEPT ![p] = here, ![m] = there]
    BY <1>1, <1>6 DEF Wired
  <2> HIDE DEF here, there
  <2>4. /\ property' \in [Property -> Columns \cup {Unused, Gone}]
        /\ property'[p] = here /\ property'[m] = there
        /\ \A q \in Property \ {p, m} : property'[q] = property[q]
    BY <2>1, <2>2, <2>3, <1>1, <1>2
  <2>5. \A q \in Property \ {p, m} : Exists(q)' <=> Exists(q)
    BY <2>4 DEF Exists
  <2>6. Exists(p)' /\ Exists(m)'
    BY <2>2, <2>4 DEF Exists
  <2>7. PartnerOf(p, property[p].paired)' /\ PartnerOf(m, property[m].paired)'
    BY <2>2, <2>4 DEF PartnerOf
  <2>8. Grown({p, m})
    <3>1. /\ property'[p].db \in Database /\ IsDatabase(property'[p].db) /\ property'[p].paired = m
          /\ property'[m].db \in Database /\ IsDatabase(property'[m].db) /\ property'[m].paired = p
      BY <2>1, <2>2, <2>4, <1>1
    <3>2. property[p] = Unused /\ property[m] = Unused /\ ~Named(p) /\ ~Named(m)
      BY <1>1
    <3> QED BY <3>1, <3>2, <2>4, <2>5, <2>6, <2>7 DEF Grown
  <2>9. {p, m} \in SUBSET {s.id, s.mirror}
    OBVIOUS
  <2> QED BY <2>2, <2>4, <2>8, <2>9
<1>7. CASE c.type = "relation" /\ c.paired # None
  <2> DEFINE other == c.paired
             theirs == [property[other] EXCEPT !.target = c.db, !.paired = p]
  <2>1. other \in Property /\ Exists(other) /\ other # p /\ property[other] \in Columns
    BY <1>1, <1>2, <1>7 DEF Create, PairOk, Columns, Exists
  <2>2. /\ theirs \in Columns /\ theirs.db = property[other].db /\ theirs.paired = p /\ theirs.primary = property[other].primary
        /\ theirs # Unused /\ theirs # Gone
    <3>1. /\ theirs \in Columns /\ theirs.db = property[other].db /\ theirs.paired = p /\ theirs.primary = property[other].primary
      BY <2>1, <1>1 DEF Columns
    <3> QED BY <3>1, StepValues
  <2>3. property' = [property EXCEPT ![p] = c, ![other] = theirs]
    <3>1. property' = [property EXCEPT ![p] = c, ![other].target = c.db, ![other].paired = p]
      BY <1>1, <1>7 DEF Wired
    <3>2. [property EXCEPT ![p] = c, ![other].target = c.db, ![other].paired = p] = [property EXCEPT ![p] = c, ![other] = theirs]
      BY <2>1, <1>1, <1>2
    <3> QED BY <3>1, <3>2
  <2> HIDE DEF theirs
  <2>4. /\ property' \in [Property -> Columns \cup {Unused, Gone}]
        /\ property'[p] = c /\ property'[other] = theirs
        /\ \A q \in Property \ {p, other} : property'[q] = property[q]
    <3>1. p \in Property /\ c \in Columns /\ theirs \in Columns
      BY <2>2, <1>1
    <3> QED BY <3>1, <2>1, <2>3, <1>2
  <2>5. \A q \in Property \ {p} : /\ Exists(q)' <=> Exists(q)
                                  /\ property'[q] = Unused <=> property[q] = Unused
    BY <2>1, <2>2, <2>4 DEF Exists
  <2>6. Exists(p)'
    BY <2>4, <1>3 DEF Exists
  <2>7. {other, p} \subseteq strained'
    BY <1>1, <1>7 DEF Rewires
  <2>8. PartnerOf(p, property[p].paired)'
    BY <2>4, <2>7 DEF PartnerOf
  <2>9. Grown({p})
    <3>1. /\ property[p] = Unused /\ ~Named(p) /\ p \in strained'
          /\ property'[p].db \in Database /\ IsDatabase(property'[p].db)
      BY <2>4, <2>7, <1>1
    <3>2. ASSUME NEW q \in Property \ {p}, Exists(q)
          PROVE  /\ property'[q].db = property[q].db
                 /\ \/ property'[q].paired = property[q].paired
                    \/ {q, property'[q].paired} \subseteq strained'
      <4>1. CASE q = other
        BY <4>1, <2>2, <2>4, <2>7
      <4>2. CASE q # other
        BY <4>2, <2>4
      <4> QED BY <4>1, <4>2
    <3> QED BY <3>1, <3>2, <2>5, <2>6, <2>8 DEF Grown
  <2>10. {p} \in SUBSET {s.id, s.mirror}
    OBVIOUS
  <2>11. /\ \A n \in {p} : ~property'[n].primary
         /\ \A q \in Property \ {p} : property'[q].primary = property[q].primary
    BY <2>2, <2>4, <1>1
  <2> QED BY <2>4, <2>9, <2>10, <2>11
<1> QED BY <1>1, <1>5, <1>6, <1>7 DEF Columns

LEMMA CreateKeeps ==
  ASSUME SchemaInv, NEW j \in Job, Create(j)
  PROVE  SchemaInv'
<1> DEFINE s == job[j]
<1>1. /\ s.kind = "create" /\ s.id \in Property /\ s.mirror \in Property
      /\ End(j) /\ UNCHANGED <<database, view, link>> /\ strained \subseteq strained'
      /\ \A k \in Job \ {j} : job'[k] = job[k]
  BY Shapes DEF Create, At, End, SchemaInv, SchemaOK, Creating
<1>2. PICK N \in SUBSET {s.id, s.mirror} :
           /\ Grown(N)
           /\ property' \in [Property -> Columns \cup {Unused, Gone}]
           /\ \A n \in N : ~property'[n].primary
           /\ \A q \in Property \ N : Exists(q) => property'[q].primary = property[q].primary
  BY Created
<1>3. N \in SUBSET Property
  BY <1>1
<1>4. ASSUME NEW k \in Job \ {j} PROVE RequestOk(job[k])'
  <2> DEFINE r == job[k]
  <2>1. r \in Requested \cup {Idle} /\ RequestOk(r) /\ r' = r /\ Apart(s, r)
    BY <1>1, <1>4 DEF SchemaInv, SchemaOK, RequestsInv
  <2>2. r.kind = "create" => {r.id, r.mirror} \cap N = {}
    BY <2>1, <1>1 DEF Apart
  <2>3. /\ (CreateOk(r) /\ PromoteOk(r) /\ PairRequestOk(r) /\ DefaultOk(r))'
        /\ MakesPrimary(r) => \A q \in r.sees : Under(q, r.db)' /\ q # r.id
        /\ r.kind = "remove" => Under(r.id, r.db)' /\ r.id \notin N
    <3>1. r \in Requested \cup {Idle} /\ RequestOk(r)
      BY <2>1
    <3> HIDE DEF r
    <3>2. \A t \in Requested \cup {Idle} :
            RequestOk(t) /\ (t.kind = "create" => {t.id, t.mirror} \cap N = {}) =>
              /\ (CreateOk(t) /\ PromoteOk(t) /\ PairRequestOk(t) /\ DefaultOk(t))'
              /\ MakesPrimary(t) => \A q \in t.sees : Under(q, t.db)' /\ q # t.id
              /\ t.kind = "remove" => Under(t.id, t.db)' /\ t.id \notin N
      BY <1>1, <1>2, <1>3, GrownRequests
    <3> USE DEF r
    <3> QED BY <3>1, <3>2, <2>1, <2>2
  <2>4. SeesOk(r)'
    <3>1. SUFFICES ASSUME MakesPrimary(r), r.at = "commit", r.db \notin strained',
                          NEW q \in Property, Exists(q)', property'[q].db = r.db, property'[q].primary
                   PROVE  q \in r.sees \cup {r.id}
      BY <2>1, <2>3 DEF SeesOk, MakesPrimary, PropertiesOf
    <3>2. q \notin N /\ Exists(q) /\ property[q].db = r.db /\ property[q].primary
      BY <3>1, <1>2 DEF Grown
    <3> QED BY <3>1, <3>2, <2>1, <1>1 DEF RequestOk, SeesOk, PropertiesOf
  <2>5. RemoveOk(r)'
    <3>1. r.kind = "remove" => r.id \in Property
      BY <2>1, Shapes DEF Removing
    <3> QED BY <3>1, <2>1, <2>3, <1>1, <1>2 DEF RequestOk, RemoveOk, Grown
  <2> QED BY <2>1, <2>3, <2>4, <2>5 DEF RequestOk
<1>5. RequestsInv' /\ job' \in [Job -> Requested \cup {Idle}]
  BY <1>1, <1>4, RequestEnded DEF SchemaInv
<1>6. SchemaOK'
  BY <1>1, <1>2, <1>5 DEF SchemaInv, SchemaOK
<1>7. MainOnesExist'
  <2>1. ASSUME NEW d \in Database, IsDatabase(d)', d \notin strained'
        PROVE  /\ \E q \in PropertiesOf(d)' : property'[q].primary
               /\ \A q, r \in PropertiesOf(d)' : property'[q].primary /\ property'[r].primary => q = r
    <3>1. /\ \E q \in PropertiesOf(d) : property[q].primary
          /\ \A q, r \in PropertiesOf(d) : property[q].primary /\ property[r].primary => q = r
      BY <2>1, <1>1 DEF SchemaInv, MainOnesExist, IsDatabase
    <3>2. \A q \in PropertiesOf(d) : q \in PropertiesOf(d)' /\ (property[q].primary => property'[q].primary)
      <4>1. \A q \in Property : Exists(q) => q \notin N
        BY <1>2 DEF Grown, Exists
      <4> QED BY <4>1, <1>2 DEF Grown, PropertiesOf
    <3>3. \A q \in PropertiesOf(d)' : property'[q].primary => q \in PropertiesOf(d) /\ property[q].primary
      BY <1>2 DEF Grown, PropertiesOf
    <3> QED BY <3>1, <3>2, <3>3
  <2>2. \A d \in Database : IsDatabase(d)' => (<<"default", d>> \notin strained
          => database[d].default \in ViewsOf(d) \cup {None})'
    BY <1>1, <1>2, <1>3, GrownSchema
  <2> QED BY <2>1, <2>2 DEF MainOnesExist
<1> QED BY <1>1, <1>2, <1>3, <1>5, <1>6, <1>7, GrownSchema DEF SchemaInv

\* The one that commits has seen every primary property there is, save for one that
\* another promotion made since, and then that one has seen this one and is blocked.
LEMMA CommitPrimaryKeeps ==
  ASSUME SchemaInv, NEW j \in Job, CreatePrimary(j) \/ UpdatePrimary(j)
  PROVE  SchemaInv'
<1> PICK s : s = job[j]
  OBVIOUS
<1> DEFINE p == s.id
           made == IF s.kind = "create" THEN s.column ELSE [property[p] EXCEPT !.primary = TRUE]
           N == IF s.kind = "create" THEN {p} ELSE {}
<1>1. /\ s \in Creating \/ s \in Promoting
      /\ MakesPrimary(s) /\ s.at = "commit" /\ RequestOk(s) /\ ~Locked(j, s.sees)
      /\ property' = Primary(j)
      /\ End(j) /\ UNCHANGED <<database, view, link, strained>>
      /\ \A k \in Job \ {j} : job'[k] = job[k]
  BY Shapes DEF CreatePrimary, UpdatePrimary, CommitPrimary, MakesPrimary, End, SchemaInv, SchemaOK, RequestsInv
<1>2. /\ p \in Property /\ s.db \in Database /\ s.sees \subseteq Property /\ IsDatabase(s.db)
      /\ \A q \in s.sees : Under(q, s.db) /\ q # p
      /\ property \in [Property -> Columns \cup {Unused, Gone}]
  BY <1>1 DEF Creating, Promoting, RequestOk, CreateOk, PromoteOk, SeesOk, MakesPrimary,
     SchemaInv, SchemaOK
<1>3. /\ made \in Columns /\ made.primary = TRUE /\ made.db = s.db /\ made # Unused /\ made # Gone
      /\ s.kind = "create" => property[p] = Unused /\ ~Named(p) /\ made.paired = None
      /\ s.kind # "create" => Exists(p) /\ property[p].db = s.db /\ made.paired = property[p].paired
  <2>1. CASE s.kind = "create"
    <3>1. s.column \in Columns /\ s.column.primary /\ s.column.primary \in BOOLEAN
      BY <2>1, <1>1 DEF Creating, Promoting, MakesPrimary, Columns
    <3>2. s.column.type = "text"
      BY <2>1, <3>1, <1>1 DEF RequestOk, CreateOk, Columns
    <3> QED BY <2>1, <3>1, <3>2, <1>1, StepValues DEF RequestOk, CreateOk
  <2>2. CASE s.kind = "primary"
    <3>1. Exists(p) /\ property[p].db = s.db /\ property[p] \in Columns
      BY <2>2, <1>1, <1>2 DEF RequestOk, PromoteOk, Under, Exists
    <3>2. LET c == [property[p] EXCEPT !.primary = TRUE]
          IN  c \in Columns /\ c.primary = TRUE /\ c.db = s.db /\ c.paired = property[p].paired
      BY <3>1 DEF Columns
    <3> QED BY <2>2, <3>1, <3>2, StepValues
  <2> QED BY <2>1, <2>2, <1>1 DEF MakesPrimary
<1>4. /\ property' \in [Property -> Columns \cup {Unused, Gone}]
      /\ property'[p] = made
      /\ \A q \in Property \ {p} :
           /\ q \in s.sees /\ Exists(q) => property'[q] = [property[q] EXCEPT !.primary = FALSE]
           /\ ~(q \in s.sees /\ Exists(q)) => property'[q] = property[q]
  <2>1. property' = [q \in Property |-> IF q = p THEN made
                       ELSE IF q \in s.sees /\ Exists(q) THEN [property[q] EXCEPT !.primary = FALSE]
                       ELSE property[q]]
    BY <1>1 DEF Primary
  <2>2. \A q \in Property : Exists(q) => property[q] \in Columns
    BY <1>2 DEF Exists
  <2>3. \A q \in Property : Exists(q) => [property[q] EXCEPT !.primary = FALSE] \in Columns
    BY <2>2 DEF Columns
  <2> QED BY <2>1, <2>3, <1>2, <1>3
<1>5. \A q \in Property \ {p} :
        /\ Exists(q)' <=> Exists(q)
        /\ property'[q] = Unused <=> property[q] = Unused
        /\ Exists(q) => /\ property'[q].db = property[q].db
                        /\ property'[q].paired = property[q].paired
                        /\ property'[q].primary = (property[q].primary /\ q \notin s.sees)
  <2> SUFFICES ASSUME NEW q \in Property \ {p}
               PROVE  /\ Exists(q)' <=> Exists(q)
                      /\ property'[q] = Unused <=> property[q] = Unused
                      /\ Exists(q) => /\ property'[q].db = property[q].db
                                      /\ property'[q].paired = property[q].paired
                                      /\ property'[q].primary = (property[q].primary /\ q \notin s.sees)
    OBVIOUS
  <2>1. CASE q \in s.sees /\ Exists(q)
    <3> DEFINE c == [property[q] EXCEPT !.primary = FALSE]
    <3>1. property[q] \in Columns
      BY <2>1, <1>2 DEF Exists
    <3>2. c \in Columns /\ c.db = property[q].db /\ c.paired = property[q].paired /\ c.primary = FALSE
      BY <3>1 DEF Columns
    <3>3. property'[q] = c /\ c # Unused /\ c # Gone
      BY <2>1, <3>2, <1>4, StepValues
    <3> QED BY <2>1, <3>2, <3>3 DEF Exists
  <2>2. CASE ~(q \in s.sees /\ Exists(q))
    <3>1. property'[q] = property[q]
      BY <2>2, <1>4
    <3>2. Exists(q) => property[q].primary \in BOOLEAN
      BY <1>2 DEF Exists, Columns
    <3> QED BY <2>2, <3>1, <3>2 DEF Exists
  <2> QED BY <2>1, <2>2
<1>6. Exists(p)'
  BY <1>3, <1>4 DEF Exists
<1>7. Grown(N) /\ N \in SUBSET Property
  <2>1. CASE s.kind = "create"
    <3>1. PartnerOf(p, property[p].paired)'
      BY <2>1, <1>3, <1>4 DEF PartnerOf
    <3>2. IsDatabase(property'[p].db) /\ property'[p].db \in Database /\ property'[p].paired = None
      BY <2>1, <1>2, <1>3, <1>4
    <3> QED BY <2>1, <3>1, <3>2, <1>2, <1>3, <1>5, <1>6 DEF Grown
  <2>2. CASE s.kind # "create"
    <3>1. property[p] # Unused /\ property'[p] # Unused
      BY <2>2, <1>3, <1>6 DEF Exists
    <3>2. Exists(p) /\ property'[p].db = property[p].db /\ property'[p].paired = property[p].paired
      BY <2>2, <1>3, <1>4
    <3>3. N = {}
      BY <2>2
    <3> HIDE DEF N
    <3> QED BY <3>1, <3>2, <3>3, <1>2, <1>5, <1>6 DEF Grown
  <2> QED BY <2>1, <2>2
<1>8. ASSUME NEW k \in Job \ {j} PROVE RequestOk(job[k])'
  <2> DEFINE r == job[k]
  <2>1. r \in Requested \cup {Idle} /\ RequestOk(r) /\ r' = r /\ Apart(s, r) /\ Apart(r, s)
    BY <1>1, <1>8 DEF SchemaInv, SchemaOK, RequestsInv
  <2>2. r.kind = "create" => {r.id, r.mirror} \cap N = {}
    BY <2>1, <1>1 DEF Apart
  <2>3. /\ (CreateOk(r) /\ PromoteOk(r) /\ PairRequestOk(r) /\ DefaultOk(r))'
        /\ MakesPrimary(r) => \A q \in r.sees : Under(q, r.db)' /\ q # r.id
        /\ r.kind = "remove" => Under(r.id, r.db)' /\ r.id \notin N
    <3>1. \A t \in Requested \cup {Idle} :
            RequestOk(t) /\ (t.kind = "create" => {t.id, t.mirror} \cap N = {}) =>
              /\ (CreateOk(t) /\ PromoteOk(t) /\ PairRequestOk(t) /\ DefaultOk(t))'
              /\ MakesPrimary(t) => \A q \in t.sees : Under(q, t.db)' /\ q # t.id
              /\ t.kind = "remove" => Under(t.id, t.db)' /\ t.id \notin N
      BY <1>1, <1>7, GrownRequests
    <3> QED BY <3>1, <2>1, <2>2
  <2>4. SeesOk(r)'
    <3>1. SUFFICES ASSUME MakesPrimary(r), r.at = "commit", r.db \notin strained,
                          NEW q \in Property, Exists(q)', property'[q].db = r.db, property'[q].primary
                   PROVE  q \in r.sees \cup {r.id}
      BY <2>1, <2>3, <1>1 DEF SeesOk, MakesPrimary, PropertiesOf
    <3>2. CASE q # p
      <4>1. Exists(q) /\ property[q].db = r.db /\ property[q].primary
        BY <3>1, <3>2, <1>5
      <4> QED BY <3>1, <4>1, <2>1 DEF RequestOk, SeesOk, PropertiesOf
    <3>3. CASE q = p
      <4>1. r.db = s.db
        BY <3>1, <3>3, <1>3, <1>4
      <4>2. r.kind = "primary" /\ s.kind = "primary"
        BY <3>1, <4>1, <2>1, <1>1 DEF Apart, MakesPrimary
      <4>3. r.id \notin s.sees
        BY <3>1, <4>2, <1>1, <1>8 DEF Locked
      <4> QED BY <3>1, <3>3, <4>1, <4>2, <4>3, <2>1, <1>1 DEF Apart
    <3> QED BY <3>2, <3>3
  <2>5. RemoveOk(r)'
    <3>1. SUFFICES ASSUME r.kind = "remove", r.db \notin strained, Exists(r.id)', property'[r.id].primary
                   PROVE  FALSE
      BY <2>1, <2>3, <1>1 DEF RemoveOk
    <3>2. r.id \in Property /\ Under(r.id, r.db)
      BY <3>1, <2>1, Shapes DEF Removing, RequestOk, RemoveOk
    <3>3. CASE r.id # p
      BY <3>1, <3>2, <3>3, <2>1, <1>5 DEF RequestOk, RemoveOk
    <3>4. CASE r.id = p
      <4>1. s.kind = "primary" /\ r.db = s.db
        BY <3>2, <3>4, <1>1, <1>3 DEF Under, MakesPrimary
      <4> QED BY <3>1, <3>4, <4>1, <2>1 DEF Apart
    <3> QED BY <3>3, <3>4
  <2> QED BY <2>1, <2>3, <2>4, <2>5 DEF RequestOk
<1>9. RequestsInv' /\ job' \in [Job -> Requested \cup {Idle}]
  BY <1>1, <1>8, RequestEnded DEF SchemaInv
<1>10. SchemaOK'
  BY <1>1, <1>4, <1>9 DEF SchemaInv, SchemaOK
<1>11. MainOnesExist'
  <2>1. ASSUME NEW d \in Database, IsDatabase(d)', d \notin strained'
        PROVE  /\ \E q \in PropertiesOf(d)' : property'[q].primary
               /\ \A q, r \in PropertiesOf(d)' : property'[q].primary /\ property'[r].primary => q = r
    <3>1. CASE d = s.db
      <4>1. p \in PropertiesOf(d)' /\ property'[p].primary
        BY <3>1, <1>2, <1>3, <1>4, <1>6 DEF PropertiesOf
      <4>2. ASSUME NEW q \in PropertiesOf(d)', property'[q].primary, q # p PROVE FALSE
        <5>1. q \in Property /\ Exists(q) /\ property[q].db = s.db /\ property[q].primary /\ q \notin s.sees
          BY <3>1, <4>2, <1>5 DEF PropertiesOf
        <5> QED BY <5>1, <4>2, <3>1, <2>1, <1>1 DEF RequestOk, SeesOk, PropertiesOf
      <4> QED BY <4>1, <4>2
    <3>2. CASE d # s.db
      <4>1. ASSUME NEW q \in Property
            PROVE  (Exists(q)' /\ property'[q].db = d) <=> (Exists(q) /\ property[q].db = d)
        <5>1. CASE q = p
          <6>1. property'[q].db # d
            BY <5>1, <3>2, <1>3, <1>4
          <6>2. Exists(q) => property[q].db # d
            BY <5>1, <3>2, <1>3 DEF Exists
          <6> QED BY <6>1, <6>2
        <5>2. CASE q # p
          BY <5>2, <1>5
        <5> QED BY <5>1, <5>2
      <4>2. PropertiesOf(d)' = PropertiesOf(d)
        BY <4>1 DEF PropertiesOf
      <4>3. \A q \in PropertiesOf(d) : q # p /\ q \notin s.sees
        BY <3>2, <1>2, <1>3 DEF PropertiesOf, Under, Exists
      <4>4. \A q \in PropertiesOf(d) : property'[q].primary = property[q].primary
        BY <4>3, <1>5, <1>2 DEF PropertiesOf, Exists, Columns
      <4>5. /\ \E q \in PropertiesOf(d) : property[q].primary
            /\ \A q, r \in PropertiesOf(d) : property[q].primary /\ property[r].primary => q = r
        BY <2>1, <1>1 DEF SchemaInv, MainOnesExist, IsDatabase
      <4> QED BY <4>2, <4>4, <4>5
    <3> QED BY <3>1, <3>2
  <2>2. \A d \in Database : IsDatabase(d)' => (<<"default", d>> \notin strained
          => database[d].default \in ViewsOf(d) \cup {None})'
    BY <1>1, <1>7, GrownSchema
  <2> QED BY <2>1, <2>2 DEF MainOnesExist
<1>12. RowsInv' /\ PartnersInv' /\ LinksMirrored'
  BY <1>1, <1>7, GrownSchema
<1> QED BY <1>9, <1>10, <1>11, <1>12 DEF SchemaInv


-----------------------------------------------------------------------------
LEMMA SchemaInit == Init => SchemaInv
<1> SUFFICES ASSUME Init PROVE SchemaInv
  OBVIOUS
<1> DEFINE First(d) == Column(d, "text", TRUE, None, None)
<1>1. \A d \in Existing : /\ First(d) \in Columns /\ First(d) # Unused /\ First(d) # Gone
                          /\ First(d).db = d /\ First(d).primary = TRUE /\ First(d).paired = None
  <2>1. \A d \in Existing : /\ First(d) \in Columns
                            /\ First(d).db = d /\ First(d).primary = TRUE /\ First(d).paired = None
    BY SchemaAssumption DEF Column, Columns
  <2> QED BY <2>1, StepValues
<1>2. /\ \A p \in Property : property[p] = Unused \/ \E d \in Existing : p = NameOf[d] /\ property[p] = First(d)
      /\ \A d \in Existing : property[NameOf[d]] = First(d)
  <2>1. ASSUME NEW p \in Property, \E d \in Existing : p = NameOf[d]
        PROVE  \E d \in Existing : p = NameOf[d] /\ property[p] = First(d)
    <3>1. PICK d \in Existing : d = CHOOSE e \in Existing : p = NameOf[e]
      BY <2>1
    <3>2. p = NameOf[d] /\ property[p] = First(d)
      BY <2>1, <3>1 DEF Init
    <3> QED BY <3>2
  <2>2. ASSUME NEW p \in Property, ~\E d \in Existing : p = NameOf[d]
        PROVE  property[p] = Unused
    BY <2>2 DEF Init
  <2>3. ASSUME NEW d \in Existing PROVE property[NameOf[d]] = First(d)
    <3>1. d \in Database /\ NameOf[d] \in Property
      BY SchemaAssumption
    <3>2. PICK e \in Existing : NameOf[d] = NameOf[e] /\ property[NameOf[d]] = First(e)
      BY <3>1, <2>1
    <3>3. e = d
      BY <3>1, <3>2, SchemaAssumption
    <3> QED BY <3>2, <3>3
  <2> QED BY <2>1, <2>2, <2>3
<1> HIDE DEF First
<1>3. \A v \in View : IF \E d \in Existing : v = ViewOf[d]
                      THEN \E d \in Existing : v = ViewOf[d] /\ view[v] = d
                      ELSE view[v] = Unused
  <2> SUFFICES ASSUME NEW v \in View
               PROVE  IF \E d \in Existing : v = ViewOf[d]
                      THEN \E d \in Existing : v = ViewOf[d] /\ view[v] = d
                      ELSE view[v] = Unused
    OBVIOUS
  <2>1. CASE \E d \in Existing : v = ViewOf[d]
    <3>1. PICK d \in Existing : d = CHOOSE e \in Existing : v = ViewOf[e]
      BY <2>1
    <3>2. v = ViewOf[d] /\ view[v] = d
      BY <2>1, <3>1 DEF Init
    <3> QED BY <3>2
  <2>2. CASE ~\E d \in Existing : v = ViewOf[d]
    BY <2>2 DEF Init
  <2> QED BY <2>1, <2>2
<1>4. \A d \in Existing : view[ViewOf[d]] = d
  BY <1>3, SchemaAssumption
<1>5. \A d \in Database : /\ IsDatabase(d) <=> d \in Existing
                          /\ d \in Existing => database[d].default = ViewOf[d]
  BY DEF Init, IsDatabase
<1>6. SchemaOK
  <2>1. database \in [Database -> [is : BOOLEAN, default : View \cup {None}]]
    BY SchemaAssumption DEF Init
  <2>2. property \in [Property -> Columns \cup {Unused, Gone}]
    <3>1. \A p \in Property : property[p] \in Columns \cup {Unused, Gone}
      BY <1>1, <1>2
    <3> QED BY <3>1 DEF Init
  <2>3. view \in [View -> Database \cup {Unused, Gone}]
    <3>1. \A v \in View : view[v] \in Database \cup {Unused, Gone}
      BY <1>3, SchemaAssumption
    <3> QED BY <3>1 DEF Init
  <2> QED BY <2>1, <2>2, <2>3 DEF Init, SchemaOK
<1>7. RowsInv
  <2>1. ASSUME NEW d \in Database, ~IsDatabase(d)
        PROVE  property[NameOf[d]] = Unused /\ view[ViewOf[d]] = Unused
    <3>1. d \notin Existing /\ NameOf[d] \in Property /\ ViewOf[d] \in View
      BY <2>1, <1>5, SchemaAssumption
    <3>2. \A e \in Existing : NameOf[e] # NameOf[d] /\ ViewOf[e] # ViewOf[d]
      BY <3>1, SchemaAssumption
    <3> QED BY <3>1, <3>2, <1>2, <1>3
  <2>2. \A p \in Property : Exists(p) => IsDatabase(property[p].db)
    BY <1>1, <1>2, <1>5, SchemaAssumption DEF Exists
  <2>3. \A v \in View : Shown(v) => IsDatabase(view[v])
    BY <1>3, <1>5, SchemaAssumption DEF Shown
  <2> QED BY <2>1, <2>2, <2>3 DEF RowsInv, Init
<1>8. \A p \in Property : Exists(p) => property[p].paired = None
  BY <1>1, <1>2 DEF Exists
<1>9. PartnersInv /\ LinksMirrored
  BY <1>8 DEF PartnersInv, PartnerOf, LinksMirrored, Init
<1>10. RequestsInv
  <2>1. \A j \in Job : job[j] = Idle
    BY DEF Init
  <2> QED BY <2>1, IdleIsFine DEF RequestsInv
<1>11. MainOnesExist
  <2> SUFFICES ASSUME NEW d \in Database, IsDatabase(d)
               PROVE  /\ \E p \in PropertiesOf(d) : property[p].primary
                      /\ \A p, q \in PropertiesOf(d) : property[p].primary /\ property[q].primary => p = q
                      /\ database[d].default \in ViewsOf(d) \cup {None}
    BY DEF MainOnesExist
  <2>1. d \in Existing /\ NameOf[d] \in Property /\ ViewOf[d] \in View
    BY <1>5, SchemaAssumption
  <2>2. NameOf[d] \in PropertiesOf(d) /\ property[NameOf[d]].primary
    BY <2>1, <1>1, <1>2 DEF PropertiesOf, Exists
  <2>3. \A p \in PropertiesOf(d) : p = NameOf[d]
    BY <1>1, <1>2 DEF PropertiesOf, Exists
  <2>4. ViewOf[d] \in ViewsOf(d) /\ database[d].default = ViewOf[d]
    BY <2>1, <1>4, <1>5, StepValues DEF ViewsOf, Shown
  <2> QED BY <2>2, <2>3, <2>4
<1> QED BY <1>6, <1>7, <1>9, <1>10, <1>11 DEF SchemaInv

LEMMA SchemaStep == SchemaInv /\ [Next]_vars => SchemaInv'
<1> SUFFICES ASSUME SchemaInv, [Next]_vars PROVE SchemaInv'
  OBVIOUS
<1>1. ASSUME NEW j \in Job, ConvertRead(j) \/ CreateRead(j) \/ UpdateRead(j) \/ RemoveRead(j)
                              \/ LinkRead(j) \/ RemoveViewRead(j) \/ DefaultRead(j)
      PROVE  SchemaInv'
  BY <1>1, ConvertReads, CreateReads, UpdateReads, RemoveReads, LinkReads, ViewReads
<1>2. ASSUME NEW j \in Job, ConvertFails(j) \/ CreateFails(j) \/ Deadlock(j) \/ UpdateFails(j)
                              \/ RemoveFails(j) \/ LinkFails(j) \/ RemoveViewFails(j)
      PROVE  SchemaInv'
  <2>1. Fails(j)
    BY <1>2 DEF ConvertFails, CreateFails, Deadlock, UpdateFails, RemoveFails, LinkFails,
       RemoveViewFails
  <2> QED BY <2>1, Failed
<1>3. ASSUME NEW j \in Job, MakePrimary(j) \/ ClearOthers(j) \/ UnlinkOne(j)
      PROVE  SchemaInv'
  BY <1>3, MakePrimaryKeeps, ClearOthersKeeps, UnlinkOneKeeps
<1>4. ASSUME NEW j \in Job, Convert(j) \/ Create(j) \/ CreatePrimary(j) \/ UpdatePrimary(j)
                           \/ Unmark(j) \/ Configure(j) \/ Remove(j)
      PROVE  SchemaInv'
  BY <1>4, ConvertKeeps, CreateKeeps, CommitPrimaryKeeps, UnmarkKeeps, ConfigureKeeps, RemoveKeeps
<1>5. ASSUME NEW j \in Job, Link(j) \/ UnlinkBoth(j) \/ CreateView(j) \/ RemoveView(j) \/ SetDefault(j)
      PROVE  SchemaInv'
  BY <1>5, LinkKeeps, UnlinkBothKeeps, CreateViewKeeps, RemoveViewKeeps, SetDefaultKeeps
<1>6. CASE UNCHANGED vars
  <2>1. UNCHANGED <<database, property, view, link, job, strained>>
    BY <1>6 DEF vars
  <2>2. RequestsInv'
    BY <2>1, MoreStrained, StayApart DEF SchemaInv, SchemaOK, RequestsInv
  <2> QED BY <2>1, <2>2, SameSchema DEF SchemaInv, SchemaOK
<1> QED BY <1>1, <1>2, <1>3, <1>4, <1>5, <1>6 DEF Next

\* The schema keeps its invariant, whatever requests come and however they interleave.
THEOREM SchemaInvariant == Spec => []SchemaInv
BY SchemaInit, SchemaStep, PTL DEF Spec

\* Every field of a row and of a request under way has its type.
THEOREM SchemaTypes == Spec => []SchemaOK
<1>1. SchemaInv => SchemaOK
  BY DEF SchemaInv
<1> QED BY <1>1, SchemaInvariant, PTL

\* A database has exactly one primary property and a default view that is one of
\* its views, or none, however creations, PATCHes and deletions interleave
\* (properties.service, views.service).
THEOREM OneMainOfEach == Spec => []MainOnesExist
<1>1. SchemaInv => MainOnesExist
  BY DEF SchemaInv
<1> QED BY <1>1, SchemaInvariant, PTL

\* Two properties that name each other show the same links from both sides
\* (rows.service link, unlink).
THEOREM PairsShowTheSame == Spec => []LinksMirrored
<1>1. SchemaInv => LinksMirrored
  BY DEF SchemaInv
<1> QED BY <1>1, SchemaInvariant, PTL

-----------------------------------------------------------------------------
(* Rows and cells. *)

Values == Value \cup {Unset}
TabShown == [cells : Cells, rows : Seq(Values)]
Entry == [title : Values, body : Cells]
Event == [actor : User, kind : {"set", "row"}, property : Attribute, value : Values, number : Nat]
SetPlaces == {"cell", "clearing", "title", "read", "index", "emit", "done", "failed"}
RowPlaces == {"insert", "emit", "done"}
Write == [kind : {"set", "row"}, tab : Tab, property : Attribute, value : Values,
          at : SetPlaces \cup RowPlaces, before : TabShown, number : Nat, copy : Entry \cup {Unset}]
TabView == [cells : Cells, rows : Seq(Values), fetch : {"none", "asked", "answered"},
         answer : TabShown \cup {Unset}, link : {"in", "out", "joining", "outside"}]

ServerOK ==
  /\ cell \in Cells /\ rows \in Seq(Values) /\ title \in Values /\ index \in Entry
  /\ crossed \subseteq Attribute /\ torn \in BOOLEAN
  /\ commits \in Nat /\ begun \in Nat /\ faults \in Nat
  /\ last \in [Attribute -> [number : Nat, actor : User \cup {Unset}]]
  /\ sent \in [Attribute -> Nat]
ClientOK ==
  /\ tab \in [Tab -> TabView] /\ inbox \in [Tab -> Seq(Event)] /\ missed \subseteq Tab
  /\ \A t \in Tab : tab[t].fetch = "answered" => tab[t].answer \in TabShown
WorkOK ==
  /\ work \in [Writer -> Write \cup {Free}]
  /\ \A j \in Writer : work[j] # Free =>
       /\ work[j].at \in (IF work[j].kind = "set" THEN SetPlaces ELSE RowPlaces)
       /\ work[j].at = "index" => work[j].copy \in Entry
CellsOK == ServerOK /\ ClientOK /\ WorkOK

\* The title is the primary cell unless the two crossed; a clear that wrote
\* nothing finds nothing still.
TitleInv ==
  /\ TitleAttribute \notin crossed => title = TitleOf(cell)
  /\ \A j \in Writer : work[j].at = "clearing" =>
       /\ work[j].value = Unset
       /\ cell[work[j].property] = Unset \/ work[j].property \in crossed

\* While no sync is torn there is at most one, and it holds what the row has.
Now == [title |-> title, body |-> cell]
IndexInv ==
  ~torn =>
    /\ \A j, k \in Syncing : j = k
    /\ \A j \in Writer : work[j].at = "index" => work[j].copy = Now
    /\ commits > 0 /\ Syncing = {} => index = Now

\* A write that is committed and not yet announced.
Committed(j) == work[j].at \in {"read", "index", "emit"} /\ work[j].kind = "set"
\* The last write of p is yet to be announced.
Unannounced(p) == \E j \in Writer : Committed(j) /\ work[j].property = p /\ work[j].number = last[p].number
Announces(e, p) == e.kind = "set" /\ e.property = p

NumbersInv ==
  /\ \A p \in Attribute : last[p].number <= commits /\ sent[p] <= last[p].number
  /\ \A p \in Attribute : sent[p] = last[p].number \/ Unannounced(p)
  /\ \A j \in Writer : Committed(j) =>
       LET p == work[j].property
       IN  /\ work[j].number <= last[p].number
           /\ work[j].number = last[p].number =>
                /\ last[p].actor = UserOf[work[j].tab]
                /\ work[j].value = cell[p] \/ p \in crossed

\* t has a mutation of a cell under way: when it ends the tab asks anew.
Editing(t) == \E j \in Writer : work[j].at # "idle" /\ work[j].kind = "set" /\ work[j].tab = t
\* What t will show when the fetch that is answered arrives.
Showing(t) == IF tab[t].fetch = "answered" THEN tab[t].answer ELSE [cells |-> tab[t].cells, rows |-> tab[t].rows]
\* The event of the last write of p is on the way to t, after its first i events.
OnTheWay(t, p, i) == \E k \in 1..Len(inbox[t]) : k > i /\ Announces(inbox[t][k], p) /\ inbox[t][k].number = last[p].number
Others(t, p) == last[p].actor # UserOf[t]

EventsInv(t) ==
  \A i \in 1..Len(inbox[t]), p \in Attribute : Announces(inbox[t][i], p) =>
    /\ inbox[t][i].number <= last[p].number
    /\ inbox[t][i].number = last[p].number => inbox[t][i].value = cell[p] /\ inbox[t][i].actor = last[p].actor
    /\ inbox[t][i].number < last[p].number => Unannounced(p) \/ OnTheWay(t, p, i) \/ ~Others(t, p)
CellShown(t, p) ==
  Showing(t).cells[p] = cell[p] \/ Unannounced(p) \/ (Others(t, p) /\ OnTheWay(t, p, 0))
\* A new row is yet to be announced, or to be asked for by t, which added it.
Adding(t) ==
  \E j \in Writer : /\ work[j].at \in {"emit", "done"} /\ work[j].kind = "row"
                    /\ work[j].at = "done" => work[j].tab = t
RowsShown(t) ==
  \/ Showing(t).rows = rows
  \/ Adding(t)
  \/ \E i \in 1..Len(inbox[t]) : inbox[t][i].kind = "row" /\ inbox[t][i].actor # UserOf[t]
TabOK(t) ==
  /\ EventsInv(t)
  /\ tab[t].fetch # "asked" /\ ~Editing(t) => RowsShown(t) /\ \A p \in Attribute : CellShown(t, p)
TabInv == \A t \in Tab \ missed : TabOK(t)

CellsInv == CellsOK /\ TitleInv /\ IndexInv /\ NumbersInv /\ TabInv

-----------------------------------------------------------------------------
(* Types. *)

LEMMA Places ==
  ASSUME CellsOK, NEW j \in Writer
  PROVE  /\ work[j].at = "idle" <=> work[j] = Free
         /\ work[j].at # "idle" => work[j] \in Write
BY DEF CellsOK, WorkOK, Free, Write, SetPlaces, RowPlaces

LEMMA TypesInit == CellsInit => CellsOK
<1> SUFFICES ASSUME CellsInit PROVE CellsOK
  OBVIOUS
<1>1. Empty \in Cells
  BY DEF Empty, Cells
<1>2. ServerOK
  <2>1. rows \in Seq(Values)
    BY DEF CellsInit
  <2> QED BY <1>1, <2>1 DEF CellsInit, ServerOK, Values, Entry
<1>3. ClientOK
  BY <1>1 DEF CellsInit, ClientOK, TabView, TabShown
<1>4. WorkOK
  BY DEF CellsInit, WorkOK
<1> QED BY <1>2, <1>3, <1>4 DEF CellsOK

\* A request that goes on from one place to the next.
LEMMA WorkGoesOn ==
  ASSUME WorkOK, NEW j \in Writer, work[j].at # "idle",
         \A k \in Writer \ {j} : work'[k] = work[k],
         work' \in [Writer -> Write \cup {Free}],
         work'[j].kind = work[j].kind,
         work'[j].at \in (IF work[j].kind = "set" THEN SetPlaces ELSE RowPlaces),
         work'[j].at = "index" => work'[j].copy \in Entry
  PROVE  WorkOK'
BY DEF WorkOK

LEMMA Advances ==
  ASSUME WorkOK, NEW j \in Writer, work[j] \in Write, NEW at \in SetPlaces, Advance(j, at),
         at \in (IF work[j].kind = "set" THEN SetPlaces ELSE RowPlaces), at # "index"
  PROVE  WorkOK'
<1>1. work[j].at # "idle"
  BY DEF Write, SetPlaces, RowPlaces
<1>2. [work[j] EXCEPT !.at = at] \in Write
  BY DEF Write, SetPlaces
<1>3. work' = [work EXCEPT ![j] = [work[j] EXCEPT !.at = at]]
  BY DEF Advance, WorkOK
<1>4. /\ work' \in [Writer -> Write \cup {Free}]
      /\ work'[j].at = at /\ work'[j].kind = work[j].kind
      /\ \A k \in Writer \ {j} : work'[k] = work[k]
  BY <1>2, <1>3 DEF WorkOK, Write
<1> QED BY <1>1, <1>4, WorkGoesOn

\* What assignments to fields of t's view make of the views.
ViewsAre(t, c, r, f, a, l) ==
  /\ tab' \in [Tab -> TabView] /\ \A u \in Tab \ {t} : tab'[u] = tab[u]
  /\ tab'[t].cells = c /\ tab'[t].rows = r /\ tab'[t].fetch = f /\ tab'[t].answer = a /\ tab'[t].link = l

LEMMA FetchChanges ==
  ASSUME ClientOK, NEW t \in Tab, NEW f \in {"none", "asked", "answered"}, NEW a \in TabShown \cup {Unset},
         tab' = [tab EXCEPT ![t].fetch = f, ![t].answer = a]
  PROVE  ViewsAre(t, tab[t].cells, tab[t].rows, f, a, tab[t].link)
<1>1. tab[t] \in TabView
  BY DEF ClientOK
<1>2. [tab[t] EXCEPT !.fetch = f, !.answer = a] \in TabView
  BY <1>1 DEF TabView
<1> QED BY <1>1, <1>2 DEF ViewsAre, ClientOK, TabView

LEMMA FetchCancelled ==
  ASSUME ClientOK, NEW t \in Tab, tab' = [tab EXCEPT ![t].fetch = "none"]
  PROVE  ViewsAre(t, tab[t].cells, tab[t].rows, "none", tab[t].answer, tab[t].link)
<1>1. tab[t] \in TabView
  BY DEF ClientOK
<1>2. [tab[t] EXCEPT !.fetch = "none"] \in TabView
  BY <1>1 DEF TabView
<1> QED BY <1>1, <1>2 DEF ViewsAre, ClientOK, TabView

LEMMA LinkChanges ==
  ASSUME ClientOK, NEW t \in Tab, NEW l \in {"in", "out", "joining", "outside"},
         tab' = [tab EXCEPT ![t].link = l]
  PROVE  ViewsAre(t, tab[t].cells, tab[t].rows, tab[t].fetch, tab[t].answer, l)
<1>1. tab[t] \in TabView
  BY DEF ClientOK
<1>2. [tab[t] EXCEPT !.link = l] \in TabView
  BY <1>1 DEF TabView
<1> QED BY <1>1, <1>2 DEF ViewsAre, ClientOK, TabView

LEMMA AllChanges ==
  ASSUME ClientOK, NEW t \in Tab, NEW c \in Cells, NEW r \in Seq(Values), NEW f \in {"none", "asked"},
         tab' = [tab EXCEPT ![t].cells = c, ![t].rows = r, ![t].fetch = f, ![t].answer = Unset]
  PROVE  ViewsAre(t, c, r, f, Unset, tab[t].link)
<1>1. tab[t] \in TabView
  BY DEF ClientOK
<1>2. [tab[t] EXCEPT !.cells = c, !.rows = r, !.fetch = f, !.answer = Unset] \in TabView
  BY <1>1 DEF TabView
<1> QED BY <1>1, <1>2 DEF ViewsAre, ClientOK, TabView

LEMMA CellPatched ==
  ASSUME ClientOK, NEW t \in Tab, NEW p \in Attribute, NEW x \in Values,
         tab' = [tab EXCEPT ![t].cells[p] = x]
  PROVE  ViewsAre(t, [tab[t].cells EXCEPT ![p] = x], tab[t].rows, tab[t].fetch, tab[t].answer, tab[t].link)
<1>1. tab[t] \in TabView
  BY DEF ClientOK
<1>2. PICK c : c = [tab[t].cells EXCEPT ![p] = x]
  OBVIOUS
<1>3. c \in Cells
  BY <1>1, <1>2 DEF TabView, Cells, Values
<1>4. [tab[t] EXCEPT !.cells = c] \in TabView
  BY <1>1, <1>3 DEF TabView
<1>5. tab' = [tab EXCEPT ![t] = [tab[t] EXCEPT !.cells = c]]
  BY <1>2 DEF ClientOK
<1> QED BY <1>1, <1>2, <1>4, <1>5 DEF ViewsAre, ClientOK, TabView

LEMMA CellEdited ==
  ASSUME ClientOK, NEW t \in Tab, NEW p \in Attribute, NEW x \in Values,
         tab' = [tab EXCEPT ![t].cells[p] = x, ![t].fetch = "none", ![t].answer = Unset]
  PROVE  ViewsAre(t, [tab[t].cells EXCEPT ![p] = x], tab[t].rows, "none", Unset, tab[t].link)
<1>1. tab[t] \in TabView
  BY DEF ClientOK
<1>2. PICK c : c = [tab[t].cells EXCEPT ![p] = x]
  OBVIOUS
<1>3. c \in Cells
  BY <1>1, <1>2 DEF TabView, Cells, Values
<1>4. [tab[t] EXCEPT !.cells = c, !.fetch = "none", !.answer = Unset] \in TabView
  BY <1>1, <1>3 DEF TabView
<1>5. tab' = [tab EXCEPT ![t] = [tab[t] EXCEPT !.cells = c, !.fetch = "none", !.answer = Unset]]
  BY <1>2 DEF ClientOK
<1> QED BY <1>1, <1>2, <1>4, <1>5 DEF ViewsAre, ClientOK, TabView

\* Only an answer that is there can be taken.
LEMMA ViewsOK ==
  ASSUME ClientOK, NEW t \in Tab, NEW c, NEW r, NEW f, NEW a, NEW l, ViewsAre(t, c, r, f, a, l),
         f = "answered" => a \in TabShown, inbox' \in [Tab -> Seq(Event)], missed' \subseteq Tab
  PROVE  ClientOK'
BY DEF ViewsAre, ClientOK

LEMMA TypesServer ==
  ASSUME CellsOK, NEW j \in Writer,
         WriteCell(j) \/ WriteTitle(j) \/ SetCellFails(j) \/ ReadRow(j) \/ WriteIndex(j)
           \/ SyncFails(j) \/ InsertRow(j)
  PROVE  CellsOK'
<1> USE CellsAssumption DEF CellsAssumption
<1> PICK w : w = work[j]
  OBVIOUS
<1>1. w.at # "idle" /\ w \in Write /\ ServerOK /\ ClientOK /\ WorkOK
  BY Places DEF WriteCell, WriteTitle, SetCellFails, ReadRow, WriteIndex, SyncFails, InsertRow,
                Syncing, CellsOK
<1>0. w.at \in (IF w.kind = "set" THEN SetPlaces ELSE RowPlaces) /\ (w.at = "index" => w.copy \in Entry)
  BY <1>1, Places DEF WorkOK
<1>2. ClientOK'
  BY <1>1 DEF WriteCell, WriteTitle, SetCellFails, ReadRow, WriteIndex, SyncFails, InsertRow,
              client, ClientOK
<1>3. ServerOK'
  <2>1. CASE WriteCell(j)
    BY <1>1, <2>1 DEF WriteCell, ServerOK, numbers, Write
  <2>2. CASE WriteTitle(j)
    <3>1. UserOf[w.tab] \in User /\ w.property \in Attribute /\ w.value \in Values
      BY <1>1 DEF Write
    <3>2. cell' \in Cells /\ title' \in Values
      BY <1>1, <2>2, <3>1 DEF WriteTitle, ServerOK, TitleAfter, Cells, Values
    <3>3. last' \in [Attribute -> [number : Nat, actor : User \cup {Unset}]]
      BY <1>1, <2>2, <3>1 DEF WriteTitle, ServerOK
    <3> QED BY <1>1, <2>2, <3>1, <3>2, <3>3 DEF WriteTitle, ServerOK
  <2>3. CASE SetCellFails(j)
    BY <1>1, <2>3 DEF SetCellFails, Fault, ServerOK, server, numbers
  <2>4. CASE ReadRow(j)
    BY <1>1, <2>4 DEF ReadRow, ServerOK, numbers
  <2>5. CASE WriteIndex(j)
    <3>1. work[j].copy \in Entry
      BY <1>0, <2>5 DEF WriteIndex
    <3> QED BY <1>1, <2>5, <3>1 DEF WriteIndex, ServerOK, numbers
  <2>6. CASE SyncFails(j)
    BY <1>1, <2>6 DEF SyncFails, Fault, ServerOK, numbers
  <2>7. CASE InsertRow(j)
    <3>1. w.value \in Values /\ rows \in Seq(Values)
      BY <1>1 DEF Write, ServerOK
    <3>2. rows' \in Seq(Values)
      BY <3>1, <2>7 DEF InsertRow
    <3> QED BY <1>1, <2>7, <3>2 DEF InsertRow, ServerOK, numbers
  <2> QED BY <2>1, <2>2, <2>3, <2>4, <2>5, <2>6, <2>7
<1>4. WorkOK'
  <2>1. CASE WriteTitle(j)
    <3>1. commits + 1 \in Nat /\ w.kind = "set"
      BY <1>1, <1>0, <2>1 DEF ServerOK, WriteTitle, Write, RowPlaces
    <3>2. work' = [work EXCEPT ![j] = [w EXCEPT !.at = "read", !.number = commits + 1]]
      BY <1>1, <2>1 DEF WriteTitle, WorkOK
    <3>3. [w EXCEPT !.at = "read", !.number = commits + 1] \in Write
      BY <1>1, <3>1 DEF Write, SetPlaces
    <3>4. work'[j].at = "read" /\ work'[j].kind = w.kind /\ \A k \in Writer \ {j} : work'[k] = work[k]
      BY <1>1, <3>2 DEF Write, WorkOK
    <3>5. work' \in [Writer -> Write \cup {Free}]
      BY <1>1, <3>2, <3>3 DEF WorkOK
    <3> QED BY <1>1, <3>1, <3>4, <3>5, WorkGoesOn DEF SetPlaces
  <2>2. CASE ReadRow(j)
    <3>1. PICK c : c = [title |-> title, body |-> cell]
      OBVIOUS
    <3>2. c \in Entry /\ w.kind = "set"
      BY <1>1, <1>0, <2>2, <3>1 DEF ServerOK, ReadRow, Entry, Write, RowPlaces
    <3>3. work' = [work EXCEPT ![j] = [w EXCEPT !.at = "index", !.copy = c]]
      BY <1>1, <2>2, <3>1 DEF ReadRow, WorkOK
    <3>4. [w EXCEPT !.at = "index", !.copy = c] \in Write
      BY <1>1, <3>2 DEF Write, SetPlaces
    <3>5. /\ work'[j].at = "index" /\ work'[j].kind = w.kind /\ work'[j].copy = c
          /\ \A k \in Writer \ {j} : work'[k] = work[k]
      BY <1>1, <3>3 DEF Write, WorkOK
    <3>6. work' \in [Writer -> Write \cup {Free}]
      BY <1>1, <3>3, <3>4 DEF WorkOK
    <3> QED BY <1>1, <3>2, <3>5, <3>6, WorkGoesOn DEF SetPlaces
  <2>3. CASE WriteCell(j) \/ SetCellFails(j) \/ WriteIndex(j) \/ SyncFails(j) \/ InsertRow(j)
    <3>1. PICK at \in {"clearing", "title", "failed", "emit"} :
            Advance(j, at) /\ at \in (IF w.kind = "set" THEN SetPlaces ELSE RowPlaces)
      BY <1>0, <2>3 DEF WriteCell, SetCellFails, WriteIndex, SyncFails, InsertRow, Syncing,
                        SetPlaces, RowPlaces
    <3>2. at # "index" /\ at \in SetPlaces
      BY DEF SetPlaces
    <3> QED BY <1>1, <3>1, <3>2, Advances
  <2> QED BY <2>1, <2>2, <2>3
<1> QED BY <1>2, <1>3, <1>4 DEF CellsOK

LEMMA TypesEmit ==
  ASSUME CellsOK, NEW j \in Writer, Emit(j)
  PROVE  CellsOK'
<1> USE CellsAssumption DEF CellsAssumption
<1> PICK w : w = work[j]
  OBVIOUS
<1>1. w.at = "emit" /\ w \in Write /\ ServerOK /\ ClientOK /\ WorkOK
  BY Places DEF Emit, CellsOK
<1>2. WorkOK'
  BY <1>1, Advances DEF Emit, SetPlaces, RowPlaces
<1>3. ServerOK'
  BY <1>1 DEF Emit, ServerOK, Write, server
<1>4. PICK e : e = [actor |-> UserOf[w.tab], kind |-> w.kind, property |-> w.property,
                    value |-> w.value, number |-> w.number]
  OBVIOUS
<1>5. e \in Event
  BY <1>1, <1>4 DEF Write, Event
<1>6. inbox' = [t \in Tab |-> IF tab[t].link = "in" THEN Append(inbox[t], e) ELSE inbox[t]]
  BY <1>4 DEF Emit
<1>7. inbox' \in [Tab -> Seq(Event)]
  BY <1>1, <1>5, <1>6 DEF ClientOK
<1>8. missed' \subseteq Tab /\ tab' = tab
  BY <1>1 DEF Emit, ClientOK
<1> QED BY <1>1, <1>2, <1>3, <1>7, <1>8 DEF CellsOK, ClientOK

LEMMA TypesClient ==
  ASSUME CellsOK, NEW t \in Tab,
         Join(t) \/ NotLetIn(t) \/ Drop(t) \/ Reconnect(t) \/ FetchRead(t) \/ FetchArrives(t)
           \/ FetchFails(t) \/ Deliver(t)
  PROVE  CellsOK'
<1>1. ServerOK /\ ClientOK /\ WorkOK /\ tab[t] \in TabView
  BY DEF CellsOK, ClientOK
<1>2. WorkOK'
  BY <1>1 DEF Join, NotLetIn, Drop, Reconnect, FetchRead, FetchArrives, FetchFails, Deliver, WorkOK
<1>3. ServerOK'
  BY <1>1 DEF Join, NotLetIn, Drop, Reconnect, FetchRead, FetchArrives, FetchFails, Deliver,
     ServerOK,
              Fault, server, numbers
<1>4. ClientOK'
  <2>1. CASE Join(t) \/ NotLetIn(t) \/ Drop(t) \/ Reconnect(t)
    <3>1. PICK l \in {"in", "out", "joining", "outside"} : tab' = [tab EXCEPT ![t].link = l]
      BY <2>1 DEF Join, NotLetIn, Drop, Reconnect
    <3>2. inbox' \in [Tab -> Seq(Event)] /\ missed' \subseteq Tab
      <4>1. <<>> \in Seq(Event)
        OBVIOUS
      <4>2. inbox' = inbox \/ inbox' = [inbox EXCEPT ![t] = <<>>]
        BY <2>1 DEF Join, NotLetIn, Drop, Reconnect
      <4>3. missed' = missed \/ missed' = missed \cup {t}
        BY <2>1 DEF Join, NotLetIn, Drop, Reconnect
      <4> QED BY <1>1, <4>1, <4>2, <4>3 DEF ClientOK
    <3>3. ViewsAre(t, tab[t].cells, tab[t].rows, tab[t].fetch, tab[t].answer, l)
      BY <1>1, <3>1, LinkChanges
    <3> QED BY <1>1, <3>2, <3>3, ViewsOK DEF ClientOK
  <2>2. CASE FetchRead(t)
    <3>1. PICK a : a = [cells |-> cell, rows |-> rows]
      OBVIOUS
    <3>2. a \in TabShown
      BY <1>1, <3>1 DEF ServerOK, TabShown
    <3>3. ViewsAre(t, tab[t].cells, tab[t].rows, "answered", a, tab[t].link)
      BY <1>1, <2>2, <3>1, <3>2, FetchChanges DEF FetchRead
    <3>4. inbox' = inbox /\ missed' \subseteq Tab
      BY <1>1, <2>2 DEF FetchRead, ClientOK
    <3> QED BY <1>1, <3>2, <3>3, <3>4, ViewsOK DEF ClientOK
  <2>3. CASE FetchArrives(t)
    <3>1. tab[t].answer.cells \in Cells /\ tab[t].answer.rows \in Seq(Values)
      BY <1>1, <2>3 DEF FetchArrives, ClientOK, TabShown
    <3>2. ViewsAre(t, tab[t].answer.cells, tab[t].answer.rows, "none", Unset, tab[t].link)
      BY <1>1, <2>3, <3>1, AllChanges DEF FetchArrives
    <3>3. inbox' = inbox /\ missed' = missed
      BY <2>3 DEF FetchArrives
    <3> QED BY <1>1, <3>2, <3>3, ViewsOK DEF ClientOK
  <2>4. CASE FetchFails(t)
    <3>1. ViewsAre(t, tab[t].cells, tab[t].rows, "none", tab[t].answer, tab[t].link)
      BY <1>1, <2>4, FetchCancelled DEF FetchFails
    <3>2. inbox' = inbox /\ missed' = missed \cup {t}
      BY <2>4 DEF FetchFails
    <3> QED BY <1>1, <3>1, <3>2, ViewsOK DEF ClientOK
  <2>5. CASE Deliver(t)
    <3>1. PICK e : e = Head(inbox[t])
      OBVIOUS
    <3>2. e \in Event /\ Tail(inbox[t]) \in Seq(Event)
      BY <1>1, <2>5, <3>1, HeadTailProperties DEF Deliver, ClientOK
    <3>3. inbox' \in [Tab -> Seq(Event)] /\ missed' \subseteq Tab
      BY <1>1, <2>5, <3>2 DEF Deliver, ClientOK
    <3>4. \/ tab' = tab
          \/ tab' = [tab EXCEPT ![t].cells[e.property] = e.value]
          \/ tab' = Asked(t)
      BY <2>5, <3>1 DEF Deliver
    <3>5. CASE tab' = tab
      BY <1>1, <3>3, <3>5 DEF ClientOK
    <3>6. CASE tab' = [tab EXCEPT ![t].cells[e.property] = e.value]
      <4>1. e.property \in Attribute /\ e.value \in Values
        BY <3>2 DEF Event
      <4>2. ViewsAre(t, [tab[t].cells EXCEPT ![e.property] = e.value],
                     tab[t].rows, tab[t].fetch, tab[t].answer, tab[t].link)
        BY <1>1, <3>6, <4>1, CellPatched
      <4> QED BY <1>1, <3>3, <4>2, ViewsOK DEF ClientOK
    <3>7. CASE tab' = Asked(t)
      <4>1. ViewsAre(t, tab[t].cells, tab[t].rows, "asked", Unset, tab[t].link)
        BY <1>1, <3>7, FetchChanges DEF Asked
      <4> QED BY <1>1, <3>3, <4>1, ViewsOK
    <3> QED BY <3>4, <3>5, <3>6, <3>7
  <2> QED BY <2>1, <2>2, <2>3, <2>4, <2>5
<1> QED BY <1>2, <1>3, <1>4 DEF CellsOK

LEMMA TypesBegin ==
  ASSUME CellsOK, NEW t \in Tab, Edit(t) \/ AddRow(t)
  PROVE  CellsOK'
<1> USE CellsAssumption DEF CellsAssumption
<1>1. ServerOK /\ ClientOK /\ WorkOK
  BY DEF CellsOK
<1>2. PICK j \in Writer : \E k \in {"set", "row"}, p \in Attribute, v \in Values, at \in {"cell", "insert"} :
                            Request(j, t, k, p, v, at) /\ (IF k = "set" THEN at = "cell" ELSE at = "insert")
  BY DEF Edit, AddRow, Values
<1>3. ServerOK'
  BY <1>1, <1>2 DEF Request, ServerOK, server
<1>4. WorkOK'
  BY <1>1, <1>2 DEF Request, WorkOK, Write, SetPlaces, RowPlaces, TabShown, ClientOK, TabView
<1>5. inbox' = inbox /\ missed' = missed
  BY <1>2 DEF Request
<1>6. ClientOK'
  <2>1. CASE AddRow(t)
    BY <1>1, <1>5, <2>1 DEF AddRow, ClientOK
  <2>2. CASE Edit(t)
    <3>1. PICK p \in Attribute, v \in Values :
            tab' = [tab EXCEPT ![t].cells[p] = v, ![t].fetch = "none", ![t].answer = Unset]
      BY <2>2 DEF Edit, Values
    <3>2. ViewsAre(t, [tab[t].cells EXCEPT ![p] = v], tab[t].rows, "none", Unset, tab[t].link)
      BY <1>1, <3>1, CellEdited
    <3>3. inbox' \in [Tab -> Seq(Event)] /\ missed' \subseteq Tab
      BY <1>1, <1>5 DEF ClientOK
    <3> QED BY <1>1, <3>2, <3>3, ViewsOK
  <2> QED BY <2>1, <2>2
<1> QED BY <1>3, <1>4, <1>6 DEF CellsOK

LEMMA TypesEnd ==
  ASSUME CellsOK, NEW t \in Tab, Settle(t) \/ AnswerLost(t)
  PROVE  CellsOK'
<1>1. ServerOK /\ ClientOK /\ WorkOK
  BY DEF CellsOK
<1>2. PICK j \in Writer, ok \in BOOLEAN : work[j].at \in {"done", "failed"} /\ Ended(t, j, ok)
  BY DEF Settle, AnswerLost
<1>3. WorkOK'
  BY <1>1, <1>2 DEF Ended, WorkOK
<1>4. ServerOK'
  <2>1. faults' \in Nat
    <3>1. faults \in Nat
      BY <1>1 DEF ServerOK
    <3>2. faults' = faults \/ faults' = faults + 1
      BY Zenon DEF Settle, AnswerLost, Fault
    <3> QED BY <3>1, <3>2
  <2> QED BY <1>1, <1>2, <2>1 DEF Ended, ServerOK, server, numbers
<1>5. work[j].before.cells \in Cells /\ work[j].before.rows \in Seq(Values)
  BY <1>2, Places DEF Write, TabShown
<1>6. \/ tab' = tab
      \/ tab' = Asked(t)
      \/ tab' = [tab EXCEPT ![t].cells = work[j].before.cells, ![t].rows = work[j].before.rows,
                            ![t].fetch = "asked", ![t].answer = Unset]
  BY <1>2 DEF Ended, AfterSettle
<1>7. inbox' \in [Tab -> Seq(Event)] /\ missed' \subseteq Tab
  BY <1>1, <1>2 DEF Ended, ClientOK
<1>8. CASE tab' = tab
  BY <1>1, <1>3, <1>4, <1>7, <1>8 DEF CellsOK, ClientOK
<1>9. CASE tab' = Asked(t)
  <2>1. ViewsAre(t, tab[t].cells, tab[t].rows, "asked", Unset, tab[t].link)
    BY <1>1, <1>9, FetchChanges DEF Asked
  <2> QED BY <1>1, <1>3, <1>4, <1>7, <2>1, ViewsOK DEF CellsOK
<1>10. CASE tab' = [tab EXCEPT ![t].cells = work[j].before.cells, ![t].rows = work[j].before.rows,
                               ![t].fetch = "asked", ![t].answer = Unset]
  <2>1. ViewsAre(t, work[j].before.cells, work[j].before.rows, "asked", Unset, tab[t].link)
    BY <1>1, <1>5, <1>10, AllChanges
  <2> QED BY <1>1, <1>3, <1>4, <1>7, <2>1, ViewsOK DEF CellsOK
<1> QED BY <1>6, <1>8, <1>9, <1>10

-----------------------------------------------------------------------------
(* What a tab does leaves the server alone, and the requests that have     *)
(* reached it.                                                             *)

Quiet ==
  /\ server' = server /\ commits' = commits /\ last' = last /\ sent' = sent
  /\ \A k \in Writer : \/ work'[k] = work[k]
                       \/ work[k].at \in {"idle", "done", "failed"} /\ work'[k].at \in {"idle", "cell", "insert"}

LEMMA TabsAreQuiet ==
  ASSUME CellsOK, NEW t \in Tab,
         Join(t) \/ NotLetIn(t) \/ Drop(t) \/ Reconnect(t) \/ Edit(t) \/ AddRow(t) \/ FetchRead(t)
           \/ FetchArrives(t) \/ FetchFails(t) \/ Settle(t) \/ AnswerLost(t) \/ Deliver(t)
  PROVE  Quiet
<1>1. WorkOK
  BY DEF CellsOK
<1>2. CASE Join(t) \/ NotLetIn(t) \/ Drop(t) \/ Reconnect(t) \/ FetchRead(t)
             \/ FetchArrives(t) \/ FetchFails(t) \/ Deliver(t)
  BY <1>2 DEF Join, NotLetIn, Drop, Reconnect, FetchRead, FetchArrives, FetchFails, Deliver, Quiet,
              server, numbers
<1>3. CASE Edit(t) \/ AddRow(t)
  <2>1. PICK j \in Writer, k \in {"set", "row"}, p \in Attribute, v \in Values, at \in {"cell", "insert"} :
          Request(j, t, k, p, v, at)
    BY <1>3, CellsAssumption DEF Edit, AddRow, Values, CellsAssumption
  <2>2. work[j].at = "idle" /\ work'[j].at = at /\ \A k2 \in Writer \ {j} : work'[k2] = work[k2]
    BY <1>1, <2>1 DEF Request, Free, WorkOK
  <2> QED BY <2>1, <2>2 DEF Request, Quiet, server
<1>4. CASE Settle(t) \/ AnswerLost(t)
  <2>1. PICK j \in Writer, ok \in BOOLEAN : work[j].at \in {"done", "failed"} /\ Ended(t, j, ok)
    BY <1>4 DEF Settle, AnswerLost
  <2>2. work'[j].at = "idle" /\ \A k \in Writer \ {j} : work'[k] = work[k]
    BY <1>1, <2>1 DEF Ended, Free, WorkOK
  <2> QED BY <2>1, <2>2 DEF Ended, Quiet, server, numbers
<1> QED BY <1>2, <1>3, <1>4

\* A request that goes on to another place and takes nothing with it.
LEMMA GoesTo ==
  ASSUME CellsOK, NEW j \in Writer, work[j].at # "idle", NEW at, Advance(j, at)
  PROVE  /\ work'[j].at = at /\ work'[j].kind = work[j].kind /\ work'[j].tab = work[j].tab
         /\ work'[j].property = work[j].property /\ work'[j].value = work[j].value
         /\ work'[j].number = work[j].number /\ work'[j].copy = work[j].copy
         /\ \A k \in Writer \ {j} : work'[k] = work[k]
<1>1. work[j] \in Write /\ work \in [Writer -> Write \cup {Free}]
  BY Places DEF CellsOK, WorkOK
<1>2. work' = [work EXCEPT ![j] = [work[j] EXCEPT !.at = at]]
  BY <1>1 DEF Advance
<1> QED BY <1>1, <1>2 DEF Write

LEMMA WritesTitle ==
  ASSUME CellsOK, NEW j \in Writer, WriteTitle(j)
  PROVE  /\ work'[j].at = "read" /\ work'[j].kind = "set" /\ work'[j].tab = work[j].tab
         /\ work'[j].property = work[j].property /\ work'[j].value = work[j].value
         /\ work'[j].number = commits + 1 /\ work[j] \in Write /\ work[j].kind = "set"
         /\ \A k \in Writer \ {j} : work'[k] = work[k]
<1>1. work[j] \in Write /\ work \in [Writer -> Write \cup {Free}] /\ work[j].kind = "set"
  BY Places DEF CellsOK, WorkOK, WriteTitle, Write, RowPlaces
<1>2. work' = [work EXCEPT ![j] = [work[j] EXCEPT !.at = "read", !.number = commits + 1]]
  BY <1>1 DEF WriteTitle
<1> QED BY <1>1, <1>2 DEF Write

LEMMA ReadsRow ==
  ASSUME CellsOK, NEW j \in Writer, ReadRow(j)
  PROVE  /\ work'[j].at = "index" /\ work'[j].kind = work[j].kind /\ work'[j].tab = work[j].tab
         /\ work'[j].property = work[j].property /\ work'[j].value = work[j].value
         /\ work'[j].number = work[j].number /\ work'[j].copy = Now
         /\ \A k \in Writer \ {j} : work'[k] = work[k]
<1>1. work[j] \in Write /\ work \in [Writer -> Write \cup {Free}]
  BY Places DEF CellsOK, WorkOK, ReadRow
<1>2. work' = [work EXCEPT ![j] = [work[j] EXCEPT !.at = "index", !.copy = Now]]
  BY <1>1 DEF ReadRow, Now
<1> QED BY <1>1, <1>2 DEF Write

-----------------------------------------------------------------------------
(* The title and the search entry.                                         *)

LEMMA TitleSteps ==
  ASSUME CellsOK, TitleInv, NEW j \in Writer,
         WriteCell(j) \/ SetCellFails(j) \/ ReadRow(j) \/ WriteIndex(j) \/ SyncFails(j)
           \/ InsertRow(j) \/ Emit(j)
  PROVE  TitleInv'
<1>1. cell' = cell /\ title' = title /\ crossed \subseteq crossed'
  BY DEF WriteCell, SetCellFails, ReadRow, WriteIndex, SyncFails, InsertRow, Emit, server
<1>2. work[j].at \in {"cell", "title", "read", "index", "insert", "emit"}
  BY DEF WriteCell, SetCellFails, ReadRow, WriteIndex, SyncFails, InsertRow, Emit, Syncing
<1>3. /\ \A k \in Writer \ {j} : work'[k] = work[k]
      /\ work'[j].at = "clearing" => /\ work[j].value = Unset /\ work'[j].value = Unset
                                     /\ cell[work'[j].property] = Unset
  <2>1. CASE ReadRow(j)
    BY <2>1, ReadsRow
  <2>2. CASE WriteCell(j)
    <3>1. PICK at : /\ at \in {"clearing", "title"} /\ Advance(j, at)
                    /\ at = "clearing" => work[j].value = Unset /\ cell[work[j].property] = Unset
      BY <2>2 DEF WriteCell
    <3> QED BY <1>2, <3>1, GoesTo
  <2>3. CASE SetCellFails(j) \/ WriteIndex(j) \/ SyncFails(j) \/ InsertRow(j) \/ Emit(j)
    <3>1. PICK at : at \in {"failed", "emit", "done"} /\ Advance(j, at)
      BY <2>3 DEF SetCellFails, WriteIndex, SyncFails, InsertRow, Emit
    <3> QED BY <1>2, <3>1, GoesTo
  <2> QED BY <2>1, <2>2, <2>3
<1> QED BY <1>1, <1>3 DEF TitleInv, TitleOf

LEMMA TitleWritten ==
  ASSUME CellsOK, TitleInv, NEW j \in Writer, WriteTitle(j)
  PROVE  TitleInv'
<1> PICK p \in Attribute, v \in Values : p = work[j].property /\ v = work[j].value
  BY WritesTitle DEF Write
<1>1. /\ cell' = IF work[j].at = "title" THEN [cell EXCEPT ![p] = v] ELSE cell
      /\ title' = IF p = TitleAttribute THEN v ELSE title
      /\ cell \in Cells
      /\ crossed \subseteq crossed'
  BY DEF WriteTitle, TitleAfter, CellsOK, ServerOK
<1>2. TitleAttribute \notin crossed' => title' = TitleOf(cell')
  <2>1. TitleAttribute \notin crossed => title = TitleOf(cell)
    BY DEF TitleInv
  <2>2. CASE work[j].at = "title"
    BY <1>1, <2>1, <2>2, CellsAssumption DEF TitleOf, Cells, CellsAssumption
  <2>3. CASE work[j].at = "clearing"
    <3>1. v = Unset /\ (cell[p] = Unset \/ p \in crossed)
      BY <2>3 DEF TitleInv
    <3> QED BY <1>1, <2>1, <2>3, <3>1 DEF TitleOf
  <2> QED BY <2>2, <2>3 DEF WriteTitle
<1>3. ASSUME NEW k \in Writer, work'[k].at = "clearing"
      PROVE  work'[k].value = Unset /\ (cell'[work'[k].property] = Unset \/ work'[k].property \in crossed')
  <2>1. k # j /\ work'[k] = work[k]
    BY <1>3, WritesTitle
  <2>2. work[k].value = Unset /\ (cell[work[k].property] = Unset \/ work[k].property \in crossed)
    BY <1>3, <2>1 DEF TitleInv
  <2>3. CASE work[k].property = p
    <3>1. k \in Writing \ {j}
      BY <1>3, <2>1 DEF Writing
    <3>2. p \in crossed'
      BY <1>3, <2>1, <2>3, <3>1 DEF WriteTitle
    <3> QED BY <2>1, <2>2, <2>3, <3>2
  <2>4. CASE work[k].property # p
    <3>1. cell'[work[k].property] = cell[work[k].property]
      BY <1>1, <2>4 DEF Cells
    <3> QED BY <1>1, <2>1, <2>2, <3>1
  <2> QED BY <2>3, <2>4
<1> QED BY <1>2, <1>3 DEF TitleInv

LEMMA QuietTitle ==
  ASSUME CellsOK, TitleInv, Quiet
  PROVE  TitleInv'
BY DEF TitleInv, Quiet, server, TitleOf

LEMMA QuietIndex ==
  ASSUME CellsOK, IndexInv, Quiet
  PROVE  IndexInv'
<1>1. Syncing' = Syncing
  BY DEF Quiet, Syncing
<1>2. ASSUME NEW k \in Writer PROVE work'[k].at = "index" => work[k].at = "index" /\ work'[k].copy = work[k].copy
  BY DEF Quiet
<1> QED BY <1>1, <1>2 DEF IndexInv, Quiet, server, Now

LEMMA IndexSteps ==
  ASSUME CellsOK, IndexInv, NEW j \in Writer,
         WriteCell(j) \/ SetCellFails(j) \/ InsertRow(j) \/ Emit(j)
  PROVE  IndexInv'
<1>1. cell' = cell /\ title' = title /\ index' = index /\ torn' = torn /\ commits' = commits
  BY DEF WriteCell, SetCellFails, InsertRow, Emit, server, numbers
<1>2. work[j].at \in {"cell", "title", "insert", "emit"}
  BY DEF WriteCell, SetCellFails, InsertRow, Emit
<1>3. PICK at : at \in {"clearing", "title", "failed", "emit", "done"} /\ Advance(j, at)
  BY DEF WriteCell, SetCellFails, InsertRow, Emit
<1>4. work'[j].at = at /\ \A k \in Writer \ {j} : work'[k] = work[k]
  BY <1>2, <1>3, GoesTo
<1>5. Syncing' = Syncing
  BY <1>2, <1>3, <1>4 DEF Syncing
<1> QED BY <1>1, <1>3, <1>4, <1>5 DEF IndexInv, Now

LEMMA IndexSyncs ==
  ASSUME CellsOK, IndexInv, NEW j \in Writer,
         WriteTitle(j) \/ ReadRow(j) \/ WriteIndex(j) \/ SyncFails(j)
  PROVE  IndexInv'
<1>1. CASE WriteTitle(j)
  <2>1. j \in Syncing' /\ torn' = (torn \/ Syncing # {})
    BY <1>1, WritesTitle DEF WriteTitle, Syncing
  <2>2. Syncing = {} => Syncing' = {j}
    BY <2>1, WritesTitle, <1>1 DEF Syncing
  <2>3. \A k \in Writer : work'[k].at = "index" => k \in Syncing'
    BY DEF Syncing
  <2>4. work'[j].at # "index"
    BY <1>1, WritesTitle
  <2> QED BY <2>1, <2>2, <2>3, <2>4 DEF IndexInv
<1>2. CASE ReadRow(j)
  <2>1. /\ cell' = cell /\ title' = title /\ torn' = (Syncing # {j} /\ torn)
        /\ j \in Syncing
    BY <1>2 DEF ReadRow, Syncing
  <2>2. Syncing' = Syncing
    BY <1>2, <2>1, ReadsRow DEF Syncing
  <2>3. work'[j].copy = Now'
    BY <1>2, <2>1, ReadsRow DEF Now
  <2>4. ~torn' => \A k \in Syncing : k = j
    BY <2>1 DEF IndexInv
  <2>5. \A k \in Writer : work'[k].at = "index" => k \in Syncing'
    BY DEF Syncing
  <2> QED BY <2>1, <2>2, <2>3, <2>4, <2>5 DEF IndexInv
<1>3. CASE WriteIndex(j)
  <2>1. /\ cell' = cell /\ title' = title /\ torn' = torn /\ commits' = commits
        /\ index' = work[j].copy /\ work[j].at = "index" /\ j \in Syncing
    BY <1>3 DEF WriteIndex, numbers, Syncing
  <2>2. work'[j].at = "emit" /\ \A k \in Writer \ {j} : work'[k] = work[k]
    BY <1>3, <2>1, GoesTo DEF WriteIndex
  <2>3. Syncing' = Syncing \ {j}
    BY <2>2 DEF Syncing
  <2>4. ~torn => Syncing' = {} /\ index' = Now
    BY <2>1, <2>3 DEF IndexInv
  <2>5. \A k \in Writer : work'[k].at = "index" => k \in Syncing'
    BY DEF Syncing
  <2>6. Now' = Now
    BY <2>1 DEF Now
  <2> QED BY <2>1, <2>4, <2>5, <2>6 DEF IndexInv
<1>4. CASE SyncFails(j)
  BY <1>4 DEF SyncFails, IndexInv
<1> QED BY <1>1, <1>2, <1>3, <1>4

-----------------------------------------------------------------------------
(* The numbers of the writes.                                              *)

\* A step that commits nothing and announces nothing.
Steady ==
  /\ cell' = cell /\ last' = last /\ sent' = sent /\ commits' = commits /\ crossed \subseteq crossed'
  /\ \A k \in Writer :
       /\ Committed(k)' <=> Committed(k)
       /\ Committed(k) => /\ work'[k].property = work[k].property /\ work'[k].number = work[k].number
                          /\ work'[k].tab = work[k].tab /\ work'[k].value = work[k].value

LEMMA QuietIsSteady ==
  ASSUME Quiet
  PROVE  Steady
BY DEF Quiet, Steady, server, Committed

\* The kind, the tab and, once committed, the rest of a request stay what they are.
LEMMA MovesAreSteady ==
  ASSUME CellsOK, NEW j \in Writer,
         WriteCell(j) \/ SetCellFails(j) \/ ReadRow(j) \/ WriteIndex(j) \/ SyncFails(j) \/ InsertRow(j)
  PROVE  /\ Steady
         /\ \A k \in Writer \ {j} : work'[k] = work[k]
         /\ work'[j].kind = work[j].kind /\ work'[j].tab = work[j].tab
         /\ work'[j].at \in {"clearing", "title", "failed", "index", "emit"}
         /\ work[j].at \in {"cell", "title", "read", "index", "insert"}
<1>1. /\ cell' = cell /\ last' = last /\ sent' = sent /\ commits' = commits /\ crossed \subseteq crossed'
      /\ work[j].at \in {"cell", "title", "read", "index", "insert"}
  BY DEF WriteCell, SetCellFails, ReadRow, WriteIndex, SyncFails, InsertRow, server, numbers,
     Syncing
<1>2. work[j].kind = "set" <=> work[j].at \in {"cell", "title", "read", "index"}
  BY <1>1, Places DEF CellsOK, WorkOK, Write, SetPlaces, RowPlaces
<1>3. /\ \A k \in Writer \ {j} : work'[k] = work[k]
      /\ work'[j].kind = work[j].kind /\ work'[j].tab = work[j].tab
      /\ work'[j].property = work[j].property /\ work'[j].value = work[j].value
      /\ work'[j].number = work[j].number
      /\ work[j].at \in {"cell", "title"} => work'[j].at \in {"clearing", "title", "failed"}
      /\ work[j].at \in {"read", "index", "insert"} => work'[j].at \in {"index", "emit"}
  <2>1. CASE ReadRow(j)
    BY <2>1, ReadsRow DEF ReadRow
  <2>2. CASE WriteCell(j) \/ SetCellFails(j) \/ WriteIndex(j) \/ SyncFails(j) \/ InsertRow(j)
    <3>1. PICK at : /\ Advance(j, at)
                    /\ work[j].at \in {"cell", "title"} => at \in {"clearing", "title", "failed"}
                    /\ work[j].at \in {"read", "index", "insert"} => at \in {"index", "emit"}
      BY <2>2 DEF WriteCell, SetCellFails, WriteIndex, SyncFails, InsertRow, Syncing
    <3> QED BY <1>1, <3>1, GoesTo
  <2> QED BY <2>1, <2>2
<1>4. Committed(j)' <=> Committed(j)
  BY <1>1, <1>2, <1>3 DEF Committed
<1> QED BY <1>1, <1>3, <1>4 DEF Steady, Committed

LEMMA SteadyUnannounced ==
  ASSUME Steady, NEW p
  PROVE  Unannounced(p)' <=> Unannounced(p)
BY DEF Steady, Unannounced

LEMMA SteadyNumbers ==
  ASSUME CellsOK, NumbersInv, Steady
  PROVE  NumbersInv'
<1>1. \A p \in Attribute : Unannounced(p)' <=> Unannounced(p)
  BY SteadyUnannounced
<1>2. /\ \A p \in Attribute : last'[p].number <= commits' /\ sent'[p] <= last'[p].number
      /\ \A p \in Attribute : sent'[p] = last'[p].number \/ Unannounced(p)'
  BY <1>1 DEF NumbersInv, Steady
<1>3. ASSUME NEW k \in Writer, Committed(k)', NEW p, p = work'[k].property
      PROVE  /\ work'[k].number <= last'[p].number
             /\ work'[k].number = last'[p].number =>
                  /\ last'[p].actor = UserOf[work'[k].tab]
                  /\ work'[k].value = cell'[p] \/ p \in crossed'
  <2>1. /\ Committed(k) /\ p = work[k].property /\ work'[k].number = work[k].number
        /\ work'[k].tab = work[k].tab /\ work'[k].value = work[k].value
        /\ cell' = cell /\ last' = last /\ crossed \subseteq crossed'
    BY <1>3 DEF Steady
  <2>2. /\ work[k].number <= last[p].number
        /\ work[k].number = last[p].number =>
             /\ last[p].actor = UserOf[work[k].tab]
             /\ work[k].value = cell[p] \/ p \in crossed
    BY <2>1 DEF NumbersInv
  <2> QED BY <2>1, <2>2
<1> QED BY <1>2, <1>3 DEF NumbersInv

\* The new write is the last of its cell; the others keep theirs.
LEMMA Numbered ==
  ASSUME CellsOK, TitleInv, NumbersInv, NEW j \in Writer, WriteTitle(j),
         NEW p \in Attribute, p = work[j].property
  PROVE  /\ last'[p].number = commits + 1 /\ last'[p].actor = UserOf[work[j].tab]
         /\ cell'[p] = work[j].value \/ p \in crossed'
         /\ \A q \in Attribute \ {p} : last'[q] = last[q] /\ cell'[q] = cell[q]
         /\ sent' = sent /\ commits' = commits + 1 /\ commits \in Nat
         /\ crossed \subseteq crossed' /\ Unannounced(p)'
         /\ \A q \in Attribute : Unannounced(q) => Unannounced(q)'
<1>1. /\ last' = [last EXCEPT ![p] = [number |-> commits + 1, actor |-> UserOf[work[j].tab]]]
      /\ cell' = IF work[j].at = "title" THEN [cell EXCEPT ![p] = work[j].value] ELSE cell
      /\ work[j].at \in {"title", "clearing"}
      /\ sent' = sent /\ commits' = commits + 1 /\ crossed \subseteq crossed'
  BY DEF WriteTitle
<1>2. cell \in Cells /\ commits \in Nat
      /\ last \in [Attribute -> [number : Nat, actor : User \cup {Unset}]]
  BY DEF CellsOK, ServerOK
<1>3. last'[p].number = commits + 1 /\ last'[p].actor = UserOf[work[j].tab]
      /\ \A q \in Attribute \ {p} : last'[q] = last[q] /\ cell'[q] = cell[q]
  BY <1>1, <1>2 DEF Cells
<1>4. cell'[p] = work[j].value \/ p \in crossed'
  <2>1. CASE work[j].at = "title"
    BY <1>1, <1>2, <2>1 DEF Cells
  <2>2. CASE work[j].at = "clearing"
    BY <1>1, <2>2 DEF TitleInv
  <2> QED BY <1>1, <2>1, <2>2
<1>5. Unannounced(p)'
  BY <1>3, WritesTitle DEF Unannounced, Committed
<1>6. ASSUME NEW q \in Attribute, Unannounced(q) PROVE Unannounced(q)'
  <2>1. PICK k \in Writer : Committed(k) /\ work[k].property = q /\ work[k].number = last[q].number
    BY <1>6 DEF Unannounced
  <2>2. CASE q = p
    BY <1>5, <2>2
  <2>3. CASE q # p
    <3>1. k # j
      BY <2>1, <2>3
    <3>2. Committed(k)' /\ work'[k] = work[k]
      BY <2>1, <3>1, WritesTitle DEF Committed
    <3> QED BY <1>3, <2>1, <2>3, <3>2 DEF Unannounced
  <2> QED BY <2>2, <2>3
<1> QED BY <1>1, <1>2, <1>3, <1>4, <1>5, <1>6

LEMMA NumbersWritten ==
  ASSUME CellsOK, TitleInv, NumbersInv, NEW j \in Writer, WriteTitle(j)
  PROVE  NumbersInv'
<1>1. PICK p \in Attribute : p = work[j].property
  BY WritesTitle DEF Write
<1>2. ServerOK
  BY DEF CellsOK
<1>3. ASSUME NEW q \in Attribute
      PROVE  /\ last'[q].number <= commits' /\ sent'[q] <= last'[q].number
             /\ sent'[q] = last'[q].number \/ Unannounced(q)'
  <2>1. last[q].number \in Nat /\ sent[q] \in Nat /\ last[q].number <= commits /\ sent[q] <= last[q].number
    BY <1>2 DEF NumbersInv, ServerOK
  <2>2. CASE q = p
    BY <1>1, <2>1, <2>2, Numbered
  <2>3. CASE q # p
    <3>1. /\ last'[q] = last[q] /\ sent' = sent /\ commits' = commits + 1 /\ commits \in Nat
          /\ Unannounced(q) => Unannounced(q)'
      BY <1>1, <2>3, Numbered
    <3> QED BY <2>1, <3>1 DEF NumbersInv
  <2> QED BY <2>2, <2>3
<1>4. ASSUME NEW k \in Writer, Committed(k)', NEW q, q = work'[k].property
      PROVE  /\ work'[k].number <= last'[q].number
             /\ work'[k].number = last'[q].number =>
                  /\ last'[q].actor = UserOf[work'[k].tab]
                  /\ work'[k].value = cell'[q] \/ q \in crossed'
  <2>1. CASE k = j
    BY <1>1, <1>4, <2>1, Numbered, WritesTitle
  <2>2. CASE k # j
    <3>1. Committed(k) /\ work'[k] = work[k]
      BY <1>4, <2>2, WritesTitle DEF Committed
    <3>2. work[k] \in Write
      BY <3>1, Places DEF Committed
    <3>3. q \in Attribute /\ work[k].number \in Nat /\ last[q].number \in Nat
      BY <1>2, <1>4, <3>1, <3>2 DEF Write, ServerOK
    <3>4. /\ work[k].number <= last[q].number /\ last[q].number <= commits
          /\ work[k].number = last[q].number =>
               /\ last[q].actor = UserOf[work[k].tab]
               /\ work[k].value = cell[q] \/ q \in crossed
      BY <1>4, <3>1, <3>3 DEF NumbersInv
    <3>5. CASE q = p
      <4>1. last'[q].number = commits + 1 /\ commits \in Nat
        BY <1>1, <3>5, Numbered
      <4> QED BY <3>1, <3>3, <3>4, <4>1
    <3>6. CASE q # p
      <4>1. last'[q] = last[q] /\ cell'[q] = cell[q] /\ crossed \subseteq crossed'
        BY <1>1, <3>3, <3>6, Numbered
      <4> QED BY <3>1, <3>4, <4>1
    <3> QED BY <3>5, <3>6
  <2> QED BY <2>1, <2>2
<1> QED BY <1>3, <1>4 DEF NumbersInv

\* What an announcement leaves and what it makes of the numbers.
LEMMA Announced ==
  ASSUME CellsOK, NumbersInv, NEW j \in Writer, Emit(j)
  PROVE  /\ cell' = cell /\ rows' = rows /\ last' = last /\ commits' = commits /\ crossed' = crossed /\ tab' = tab
         /\ work[j].at = "emit" /\ work[j] \in Write
         /\ work'[j].at = "done" /\ work'[j].kind = work[j].kind /\ work'[j].tab = work[j].tab
         /\ \A k \in Writer \ {j} : work'[k] = work[k]
         /\ \A k \in Writer : Committed(k)' <=> Committed(k) /\ k # j
         /\ \A p \in Attribute :
              \/ sent'[p] = sent[p]
              \/ work[j].kind = "set" /\ work[j].property = p /\ sent'[p] = work[j].number
         /\ \A p \in Attribute : Unannounced(p) =>
              \/ Unannounced(p)'
              \/ /\ work[j].kind = "set" /\ work[j].property = p /\ work[j].number = last[p].number
                 /\ sent'[p] = last[p].number
<1>1. /\ cell' = cell /\ rows' = rows /\ last' = last /\ commits' = commits /\ crossed' = crossed /\ tab' = tab
      /\ work[j].at = "emit" /\ Advance(j, "done")
      /\ sent' = IF work[j].kind = "set" /\ ~Overtaken(j)
                 THEN [sent EXCEPT ![work[j].property] = work[j].number] ELSE sent
  BY DEF Emit, server
<1>2. /\ work'[j].at = "done" /\ work'[j].kind = work[j].kind /\ work'[j].tab = work[j].tab
      /\ \A k \in Writer \ {j} : work'[k] = work[k]
  BY <1>1, GoesTo
<1>3. work[j] \in Write /\ sent \in [Attribute -> Nat]
  BY <1>1, Places DEF CellsOK, ServerOK
<1>4. \A k \in Writer : Committed(k)' <=> Committed(k) /\ k # j
  BY <1>2 DEF Committed
<1>5. \A p \in Attribute :
              \/ sent'[p] = sent[p]
              \/ work[j].kind = "set" /\ work[j].property = p /\ sent'[p] = work[j].number
  BY <1>1, <1>3
<1>6. ASSUME NEW p \in Attribute, Unannounced(p), ~Unannounced(p)'
      PROVE  /\ work[j].kind = "set" /\ work[j].property = p /\ work[j].number = last[p].number
             /\ sent'[p] = last[p].number
  <2>1. PICK k \in Writer : Committed(k) /\ work[k].property = p /\ work[k].number = last[p].number
    BY <1>6 DEF Unannounced
  <2>2. k = j
    BY <1>1, <1>2, <1>4, <1>6, <2>1 DEF Unannounced
  <2>3. sent[p] <= last[p].number /\ sent[p] \in Nat /\ last[p].number \in Nat
    BY DEF NumbersInv, CellsOK, ServerOK
  <2>4. ~Overtaken(j) /\ work[j].kind = "set"
    BY <2>1, <2>2, <2>3 DEF Overtaken, Committed
  <2> QED BY <1>1, <1>3, <2>1, <2>2, <2>4
<1> QED BY <1>1, <1>2, <1>3, <1>4, <1>5, <1>6

LEMMA NumbersAnnounced ==
  ASSUME CellsOK, NumbersInv, NEW j \in Writer, Emit(j)
  PROVE  NumbersInv'
<1>1. ASSUME NEW p \in Attribute
      PROVE  /\ last'[p].number <= commits' /\ sent'[p] <= last'[p].number
             /\ sent'[p] = last'[p].number \/ Unannounced(p)'
  <2>1. /\ last[p].number <= commits /\ sent[p] <= last[p].number
        /\ sent[p] = last[p].number \/ Unannounced(p)
        /\ sent[p] \in Nat /\ last[p].number \in Nat
    BY DEF NumbersInv, CellsOK, ServerOK
  <2>2. last' = last /\ commits' = commits
    BY Announced
  <2>3. CASE sent'[p] = sent[p]
    <3>1. CASE Unannounced(p)
      BY <2>1, <2>2, <2>3, <3>1, Announced
    <3> QED BY <2>1, <2>2, <2>3, <3>1
  <2>4. CASE sent'[p] # sent[p]
    <3>1. work[j].kind = "set" /\ work[j].property = p /\ sent'[p] = work[j].number
      BY <2>4, Announced
    <3>2. Committed(j)
      BY <3>1, Announced DEF Committed
    <3>3. work[j].number <= last[p].number /\ work[j].number \in Nat
      BY <3>1, <3>2, Announced DEF NumbersInv, Write
    <3>4. CASE Unannounced(p)
      BY <2>1, <2>2, <3>1, <3>3, <3>4, Announced
    <3>5. CASE sent[p] = last[p].number
      <4>1. ~Overtaken(j)
        <5>1. CASE Overtaken(j)
          <6>1. sent' = sent
            BY <5>1 DEF Emit
          <6> QED BY <2>4, <6>1
        <5> QED BY <5>1
      <4>2. work[j].number = last[p].number
        BY <2>1, <3>1, <3>3, <3>5, <4>1 DEF Overtaken
      <4> QED BY <2>1, <2>2, <3>1, <4>2
    <3> QED BY <2>1, <3>4, <3>5
  <2> QED BY <2>3, <2>4
<1>2. ASSUME NEW k \in Writer, Committed(k)'
      PROVE  Committed(k) /\ work'[k] = work[k]
  BY <1>2, Announced
<1>3. cell' = cell /\ last' = last /\ crossed' = crossed
  BY Announced
<1>4. ASSUME NEW k \in Writer, Committed(k)', NEW q, q = work'[k].property
      PROVE  /\ work'[k].number <= last'[q].number
             /\ work'[k].number = last'[q].number =>
                  /\ last'[q].actor = UserOf[work'[k].tab]
                  /\ work'[k].value = cell'[q] \/ q \in crossed'
  BY <1>2, <1>3, <1>4 DEF NumbersInv
<1> QED BY <1>1, <1>4 DEF NumbersInv

-----------------------------------------------------------------------------
(* The tabs: steps that leave one as it is.                                *)

LEMMA EventsSame ==
  ASSUME NEW t \in Tab, EventsInv(t), cell' = cell, last' = last, inbox'[t] = inbox[t],
         \A p \in Attribute : Unannounced(p) => Unannounced(p)'
  PROVE  EventsInv(t)'
BY DEF EventsInv, OnTheWay, Others

LEMMA TabSame ==
  ASSUME NEW t \in Tab, TabOK(t), cell' = cell, last' = last, inbox'[t] = inbox[t],
         Showing(t)' = Showing(t), tab'[t].fetch # "asked" => tab[t].fetch # "asked",
         \A p \in Attribute : Unannounced(p) => Unannounced(p)',
         Editing(t) => Editing(t)', Adding(t) => Adding(t)',
         rows' = rows \/ Adding(t)'
  PROVE  TabOK(t)'
<1>1. EventsInv(t)'
  BY EventsSame DEF TabOK
<1>2. ASSUME tab'[t].fetch # "asked", ~Editing(t)', NEW p \in Attribute
      PROVE  CellShown(t, p)'
  <2>1. CellShown(t, p)
    BY <1>2 DEF TabOK
  <2>2. /\ Others(t, p)' <=> Others(t, p)
        /\ OnTheWay(t, p, 0)' <=> OnTheWay(t, p, 0)
        /\ Unannounced(p) => Unannounced(p)'
    BY DEF Others, OnTheWay
  <2> QED BY <2>1, <2>2 DEF CellShown
<1>3. ASSUME tab'[t].fetch # "asked", ~Editing(t)'
      PROVE  RowsShown(t)'
  <2>1. RowsShown(t)
    BY <1>3 DEF TabOK
  <2> QED BY <2>1 DEF RowsShown
<1> QED BY <1>1, <1>2, <1>3 DEF TabOK

\* A tab that has no part in what another does.
LEMMA OtherTab ==
  ASSUME Quiet, NEW u \in Tab, TabOK(u), tab'[u] = tab[u], inbox'[u] = inbox[u],
         Editing(u) => Editing(u)', Adding(u) => Adding(u)'
  PROVE  TabOK(u)'
<1>1. cell' = cell /\ last' = last /\ rows' = rows
  BY DEF Quiet, server
<1>2. \A p \in Attribute : Unannounced(p) => Unannounced(p)'
  BY QuietIsSteady, SteadyUnannounced
<1>3. Showing(u)' = Showing(u)
  BY DEF Showing
<1> QED BY <1>1, <1>2, <1>3, TabSame

LEMMA WorkSame ==
  ASSUME work' = work, NEW u \in Tab
  PROVE  (Editing(u)' <=> Editing(u)) /\ (Adding(u)' <=> Adding(u))
BY DEF Editing, Adding

LEMMA TabsMoves ==
  ASSUME CellsOK, TabInv, NEW j \in Writer,
         WriteCell(j) \/ SetCellFails(j) \/ ReadRow(j) \/ WriteIndex(j) \/ SyncFails(j) \/ InsertRow(j)
  PROVE  TabInv'
<1>1. tab' = tab /\ inbox' = inbox /\ missed' = missed
  BY DEF WriteCell, SetCellFails, ReadRow, WriteIndex, SyncFails, InsertRow, client
<1>2. Steady /\ cell' = cell /\ last' = last
  BY MovesAreSteady DEF Steady
<1>3. ASSUME NEW t \in Tab \ missed PROVE TabOK(t)'
  <2>1. TabOK(t) /\ Showing(t)' = Showing(t)
    BY <1>1 DEF TabInv, Showing
  <2>2. Editing(t) => Editing(t)'
    BY MovesAreSteady DEF Editing
  <2>3. Adding(t) => Adding(t)'
    BY MovesAreSteady DEF Adding
  <2>4. rows' = rows \/ Adding(t)'
    <3>1. CASE InsertRow(j)
      <4>1. work[j].kind = "row" /\ work[j].at = "insert"
        BY <3>1, Places DEF InsertRow, CellsOK, WorkOK, Write, SetPlaces
      <4>2. work'[j].at = "emit" /\ work'[j].kind = "row"
        BY <3>1, <4>1, GoesTo DEF InsertRow
      <4> QED BY <4>2 DEF Adding
    <3>2. CASE ~InsertRow(j)
      BY <3>2 DEF WriteCell, SetCellFails, ReadRow, WriteIndex, SyncFails, server
    <3> QED BY <3>1, <3>2
  <2>5. \A p \in Attribute : Unannounced(p) => Unannounced(p)'
    BY <1>2, SteadyUnannounced
  <2> QED BY <1>1, <1>2, <2>1, <2>2, <2>3, <2>4, <2>5, TabSame
<1> QED BY <1>1, <1>3 DEF TabInv

LEMMA EventTypes ==
  ASSUME CellsOK, NEW t \in Tab
  PROVE  /\ inbox[t] \in Seq(Event) /\ Len(inbox[t]) \in Nat
         /\ \A i \in 1..Len(inbox[t]) : inbox[t][i] \in Event
BY DEF CellsOK, ClientOK

\* A write that is committed: it is told later.
LEMMA TabsWritten ==
  ASSUME CellsOK, TitleInv, NumbersInv, TabInv, NEW j \in Writer, WriteTitle(j)
  PROVE  TabInv'
<1>1. PICK p \in Attribute : p = work[j].property
  BY WritesTitle DEF Write
<1>2. tab' = tab /\ inbox' = inbox /\ missed' = missed /\ rows' = rows
  BY DEF WriteTitle, client
<1>3. \A q \in Attribute : Unannounced(q) => Unannounced(q)'
  BY <1>1, Numbered
<1>4. /\ last'[p].number = commits + 1 /\ commits \in Nat /\ Unannounced(p)'
      /\ \A q \in Attribute \ {p} : last'[q] = last[q] /\ cell'[q] = cell[q]
  BY <1>1, Numbered
<1>5. last[p].number \in Nat /\ last[p].number <= commits
  BY DEF NumbersInv, CellsOK, ServerOK
<1>6. ASSUME NEW t \in Tab \ missed PROVE TabOK(t)'
  <2>1. TabOK(t) /\ Showing(t)' = Showing(t)
    BY <1>2, <1>6 DEF TabInv, Showing
  <2>2. EventsInv(t)'
    <3>1. ASSUME NEW i \in 1..Len(inbox[t]), NEW q \in Attribute, Announces(inbox[t][i], q)
          PROVE  /\ inbox[t][i].number <= last'[q].number
                 /\ inbox[t][i].number = last'[q].number =>
                      inbox[t][i].value = cell'[q] /\ inbox[t][i].actor = last'[q].actor
                 /\ inbox[t][i].number < last'[q].number =>
                      Unannounced(q)' \/ OnTheWay(t, q, i)' \/ ~Others(t, q)'
      <4>1. /\ inbox[t][i].number <= last[q].number
            /\ inbox[t][i].number = last[q].number =>
                 inbox[t][i].value = cell[q] /\ inbox[t][i].actor = last[q].actor
            /\ inbox[t][i].number < last[q].number =>
                 Unannounced(q) \/ OnTheWay(t, q, i) \/ ~Others(t, q)
        BY <2>1, <3>1 DEF TabOK, EventsInv
      <4>2. CASE q = p
        <5>1. inbox[t][i].number \in Nat
          BY EventTypes DEF Event
        <5> QED BY <1>4, <1>5, <4>1, <4>2, <5>1
      <4>3. CASE q # p
        <5>1. last'[q] = last[q] /\ cell'[q] = cell[q]
          BY <1>4, <4>3
        <5>2. (OnTheWay(t, q, i)' <=> OnTheWay(t, q, i)) /\ (Others(t, q)' <=> Others(t, q))
          BY <1>2, <5>1 DEF OnTheWay, Others
        <5> QED BY <1>3, <4>1, <5>1, <5>2
      <4> QED BY <4>2, <4>3
    <3> QED BY <1>2, <3>1 DEF EventsInv
  <2>3. (Editing(t) => Editing(t)') /\ (Adding(t) => Adding(t)')
    <3>1. work[j].at # "idle" /\ work[j].at \notin {"emit", "done"}
      BY DEF WriteTitle
    <3> QED BY <3>1, WritesTitle DEF Editing, Adding
  <2>4. ASSUME tab'[t].fetch # "asked", ~Editing(t)', NEW q \in Attribute
        PROVE  CellShown(t, q)'
    <3>1. CASE q = p
      BY <1>4, <3>1 DEF CellShown
    <3>2. CASE q # p
      <4>1. CellShown(t, q)
        BY <1>2, <2>1, <2>3, <2>4 DEF TabOK
      <4>2. last'[q] = last[q] /\ cell'[q] = cell[q]
        BY <1>4, <3>2
      <4>3. (OnTheWay(t, q, 0)' <=> OnTheWay(t, q, 0)) /\ (Others(t, q)' <=> Others(t, q))
        BY <1>2, <4>2 DEF OnTheWay, Others
      <4> QED BY <1>3, <2>1, <4>1, <4>2, <4>3 DEF CellShown
    <3> QED BY <3>1, <3>2
  <2>5. ASSUME tab'[t].fetch # "asked", ~Editing(t)'
        PROVE  RowsShown(t)'
    <3>1. RowsShown(t)
      BY <1>2, <2>1, <2>3, <2>5 DEF TabOK
    <3> QED BY <1>2, <2>1, <2>3, <3>1 DEF RowsShown
  <2> QED BY <2>2, <2>4, <2>5 DEF TabOK
<1> QED BY <1>2, <1>6 DEF TabInv

-----------------------------------------------------------------------------
(* The announcement of a write or of a row.                                *)

LEMMA TabsAnnounced ==
  ASSUME CellsOK, NumbersInv, TabInv, NEW j \in Writer, Emit(j)
  PROVE  TabInv'
<1> SUFFICES ASSUME NEW t \in Tab \ missed' PROVE TabOK(t)'
  BY DEF TabInv
<1> PICK w : w = work[j]
  OBVIOUS
<1> PICK e : e = [actor |-> UserOf[w.tab], kind |-> w.kind, property |-> w.property,
                  value |-> w.value, number |-> w.number]
  OBVIOUS
<1>1. /\ cell' = cell /\ rows' = rows /\ last' = last /\ tab' = tab
      /\ w.at = "emit" /\ w \in Write
      /\ work'[j].at = "done" /\ work'[j].kind = w.kind /\ work'[j].tab = w.tab
      /\ \A k \in Writer \ {j} : work'[k] = work[k]
  BY Announced
<1>2. /\ t \notin missed /\ tab[t].link = "in" /\ ~Overtaken(j)
      /\ w.kind = "set" => w.property \notin crossed
      /\ UserOf[t] = UserOf[w.tab] => t = w.tab
  BY DEF Emit
<1>3. inbox'[t] = Append(inbox[t], e)
  BY <1>2 DEF Emit
<1>4. e \in Event /\ inbox[t] \in Seq(Event)
  BY <1>1, EventTypes, CellsAssumption DEF Write, Event, CellsAssumption
<1> DEFINE n == Len(inbox[t])
<1>5. /\ n \in Nat /\ Len(inbox'[t]) = n + 1 /\ inbox'[t][n + 1] = e
      /\ \A i \in 1..n : inbox'[t][i] = inbox[t][i]
  BY <1>3, <1>4, AppendProperties, EventTypes
<1>6. PICK m \in Nat : m = n
  BY <1>5
<1> HIDE DEF n
<1>7. TabOK(t) /\ Showing(t)' = Showing(t)
  BY <1>1, <1>2 DEF TabInv, Showing
\* The event of the last write, once there, stays behind those before it.
<1>8. ASSUME NEW p \in Attribute, NEW i \in 0..m, OnTheWay(t, p, i) PROVE OnTheWay(t, p, i)'
  <2>1. PICK k \in 1..m : k > i /\ Announces(inbox[t][k], p) /\ inbox[t][k].number = last[p].number
    BY <1>6, <1>8 DEF OnTheWay, n
  <2>2. k \in 1..Len(inbox'[t]) /\ inbox'[t][k] = inbox[t][k]
    BY <1>5, <1>6
  <2> QED BY <1>1, <2>1, <2>2 DEF OnTheWay
<1>9. ASSUME NEW p \in Attribute, NEW i \in 0..m, Unannounced(p)
      PROVE  Unannounced(p)' \/ (OnTheWay(t, p, i)' /\ w.kind = "set" /\ w.property = p /\ w.number = last[p].number)
  <2>1. CASE ~Unannounced(p)'
    <3>1. w.kind = "set" /\ w.property = p /\ w.number = last[p].number
      BY <1>9, <2>1, Announced
    <3>2. Announces(e, p) /\ e.number = last'[p].number
      BY <1>1, <3>1 DEF Announces
    <3>3. m + 1 \in 1..Len(inbox'[t]) /\ m + 1 > i /\ inbox'[t][m + 1] = e
      BY <1>5, <1>6
    <3> QED BY <3>1, <3>2, <3>3 DEF OnTheWay
  <2> QED BY <2>1
<1>10. w.kind = "set" => Committed(j) /\ w.property \in Attribute /\ w.number \in Nat
  BY <1>1 DEF Committed, Write
<1>11. EventsInv(t)'
  <2>1. ASSUME NEW i \in 1..m, NEW p \in Attribute, Announces(inbox[t][i], p)
        PROVE  /\ inbox[t][i].number <= last[p].number
               /\ inbox[t][i].number = last[p].number => inbox[t][i].value = cell[p] /\ inbox[t][i].actor = last[p].actor
               /\ inbox[t][i].number < last[p].number => Unannounced(p)' \/ OnTheWay(t, p, i)' \/ ~Others(t, p)
    <3>1. /\ inbox[t][i].number <= last[p].number
          /\ inbox[t][i].number = last[p].number => inbox[t][i].value = cell[p] /\ inbox[t][i].actor = last[p].actor
          /\ inbox[t][i].number < last[p].number => Unannounced(p) \/ OnTheWay(t, p, i) \/ ~Others(t, p)
      BY <1>6, <1>7, <2>1 DEF TabOK, EventsInv, n
    <3>2. i \in 0..m
      OBVIOUS
    <3> QED BY <1>8, <1>9, <3>1, <3>2
  <2>2. ASSUME NEW p \in Attribute, Announces(e, p)
        PROVE  /\ e.number <= last[p].number
               /\ e.number = last[p].number => e.value = cell[p] /\ e.actor = last[p].actor
               /\ e.number < last[p].number => Unannounced(p)'
    <3>1. w.kind = "set" /\ w.property = p /\ e.number = w.number /\ e.value = w.value /\ e.actor = UserOf[w.tab]
      BY <2>2 DEF Announces
    <3>2. /\ w.number <= last[p].number
          /\ w.number = last[p].number => last[p].actor = UserOf[w.tab] /\ (w.value = cell[p] \/ p \in crossed)
      BY <1>10, <3>1 DEF NumbersInv
    <3>3. w.number < last[p].number => Unannounced(p)'
      <4>1. sent[p] <= w.number /\ sent[p] \in Nat /\ last[p].number \in Nat
        BY <1>2, <1>10, <3>1 DEF Overtaken, CellsOK, ServerOK
      <4>2. w.number < last[p].number => Unannounced(p)
        BY <1>10, <4>1, <3>1 DEF NumbersInv
      <4>3. Unannounced(p) => Unannounced(p)' \/ w.number = last[p].number
        BY Announced
      <4> QED BY <1>10, <3>1, <4>1, <4>2, <4>3
    <3> QED BY <1>2, <3>1, <3>2, <3>3
  <2>3. ASSUME NEW i \in 1..Len(inbox'[t]), NEW p \in Attribute, Announces(inbox'[t][i], p)
        PROVE  /\ inbox'[t][i].number <= last'[p].number
               /\ inbox'[t][i].number = last'[p].number => inbox'[t][i].value = cell'[p] /\ inbox'[t][i].actor = last'[p].actor
               /\ inbox'[t][i].number < last'[p].number => Unannounced(p)' \/ OnTheWay(t, p, i)' \/ ~Others(t, p)'
    <3>1. i \in 1..m \/ i = m + 1
      BY <1>5, <1>6
    <3>2. Others(t, p)' <=> Others(t, p)
      BY <1>1 DEF Others
    <3>3. CASE i \in 1..m
      BY <1>1, <1>5, <1>6, <2>1, <2>3, <3>2, <3>3
    <3>4. CASE i = m + 1
      BY <1>1, <1>5, <1>6, <2>2, <2>3, <3>2, <3>4
    <3> QED BY <3>1, <3>3, <3>4
  <2> QED BY <2>3 DEF EventsInv
<1>12. Editing(t)' <=> Editing(t)
  BY <1>1 DEF Editing
<1>13. ASSUME tab'[t].fetch # "asked", ~Editing(t)', NEW p \in Attribute
       PROVE  CellShown(t, p)'
  <2>1. CellShown(t, p)
    BY <1>1, <1>7, <1>12, <1>13 DEF TabOK
  <2>2. Others(t, p)' <=> Others(t, p)
    BY <1>1 DEF Others
  <2>3. 0 \in 0..m
    OBVIOUS
  <2>4. CASE Unannounced(p) /\ ~Unannounced(p)'
    <3>1. OnTheWay(t, p, 0)' /\ w.kind = "set" /\ w.property = p /\ w.number = last[p].number
      BY <1>9, <2>3, <2>4
    <3>2. last[p].actor = UserOf[w.tab]
      BY <1>10, <3>1 DEF NumbersInv
    <3>3. UserOf[w.tab] # UserOf[t]
      <4>1. w.tab = t => Editing(t)
        BY <1>1, <3>1 DEF Editing
      <4> QED BY <1>2, <1>12, <1>13, <4>1
    <3> QED BY <2>2, <3>1, <3>2, <3>3 DEF CellShown, Others
  <2>5. CASE Others(t, p) /\ OnTheWay(t, p, 0)
    BY <1>8, <2>2, <2>3, <2>5 DEF CellShown
  <2>6. CASE Showing(t).cells[p] = cell[p]
    BY <1>1, <1>7, <2>6 DEF CellShown
  <2> QED BY <2>1, <2>4, <2>5, <2>6 DEF CellShown
<1>14. ASSUME tab'[t].fetch # "asked", ~Editing(t)'
       PROVE  RowsShown(t)'
  <2>1. RowsShown(t)
    BY <1>1, <1>7, <1>12, <1>14 DEF TabOK
  <2>2. CASE Showing(t).rows = rows
    BY <1>1, <1>7, <2>2 DEF RowsShown
  <2>3. CASE Adding(t)
    <3>1. PICK k \in Writer : /\ work[k].at \in {"emit", "done"} /\ work[k].kind = "row"
                              /\ work[k].at = "done" => work[k].tab = t
      BY <2>3 DEF Adding
    <3>2. CASE k # j
      <4>1. work'[k] = work[k]
        BY <1>1, <3>2
      <4> QED BY <3>1, <4>1 DEF RowsShown, Adding
    <3>3. CASE k = j /\ w.tab = t
      BY <1>1, <3>1, <3>3 DEF RowsShown, Adding
    <3>4. CASE k = j /\ w.tab # t
      <4>1. e.kind = "row" /\ e.actor # UserOf[t]
        BY <1>2, <3>1, <3>4
      <4>2. m + 1 \in 1..Len(inbox'[t]) /\ inbox'[t][m + 1] = e
        BY <1>5, <1>6
      <4> QED BY <4>1, <4>2 DEF RowsShown
    <3> QED BY <3>2, <3>3, <3>4
  <2>4. CASE \E i \in 1..Len(inbox[t]) : inbox[t][i].kind = "row" /\ inbox[t][i].actor # UserOf[t]
    <3>1. PICK i \in 1..m : inbox[t][i].kind = "row" /\ inbox[t][i].actor # UserOf[t]
      BY <1>6, <2>4 DEF n
    <3>2. i \in 1..Len(inbox'[t]) /\ inbox'[t][i] = inbox[t][i]
      BY <1>5, <1>6
    <3> QED BY <3>1, <3>2 DEF RowsShown
  <2> QED BY <2>1, <2>2, <2>3, <2>4 DEF RowsShown
<1> QED BY <1>11, <1>13, <1>14 DEF TabOK

-----------------------------------------------------------------------------
(* What a tab does.                                                        *)

LEMMA TabsLink ==
  ASSUME CellsOK, TabInv, NEW t \in Tab, Join(t) \/ NotLetIn(t) \/ Drop(t) \/ Reconnect(t)
  PROVE  TabInv'
<1> SUFFICES ASSUME NEW u \in Tab \ missed' PROVE TabOK(u)'
  BY DEF TabInv
<1>1. Quiet /\ work' = work /\ ClientOK
  BY TabsAreQuiet DEF Join, NotLetIn, Drop, Reconnect, CellsOK
<1>2. (Editing(u)' <=> Editing(u)) /\ (Adding(u)' <=> Adding(u))
  BY <1>1, WorkSame
<1>3. u \notin missed /\ TabOK(u)
  BY DEF Join, NotLetIn, Drop, Reconnect, TabInv
<1>4. inbox'[u] = inbox[u]
  BY <1>1 DEF Join, NotLetIn, Drop, Reconnect, ClientOK
<1>5. Showing(u)' = Showing(u) /\ tab'[u].fetch = tab[u].fetch
  <2>1. PICK l \in {"in", "out", "joining", "outside"} : tab' = [tab EXCEPT ![t].link = l]
    BY DEF Join, NotLetIn, Drop, Reconnect
  <2>2. ViewsAre(t, tab[t].cells, tab[t].rows, tab[t].fetch, tab[t].answer, l)
    BY <1>1, <2>1, LinkChanges
  <2> QED BY <2>2 DEF ViewsAre, Showing
<1>6. cell' = cell /\ last' = last /\ rows' = rows
  BY <1>1 DEF Quiet, server
<1>7. \A p \in Attribute : Unannounced(p) => Unannounced(p)'
  BY <1>1, QuietIsSteady, SteadyUnannounced
<1> QED BY <1>2, <1>3, <1>4, <1>5, <1>6, <1>7, TabSame

\* While t edits, nothing is claimed of what it shows.
LEMMA TabsBegin ==
  ASSUME CellsOK, TabInv, NEW t \in Tab, Edit(t) \/ AddRow(t)
  PROVE  TabInv'
<1> SUFFICES ASSUME NEW u \in Tab \ missed' PROVE TabOK(u)'
  BY DEF TabInv
<1>1. Quiet
  BY TabsAreQuiet
<1>2. PICK j \in Writer, k \in {"set", "row"}, p \in Attribute, v \in Values, at \in {"cell", "insert"} :
        Request(j, t, k, p, v, at) /\ (Edit(t) => k = "set") /\ (~Edit(t) => AddRow(t))
  BY CellsAssumption DEF Edit, AddRow, Values, CellsAssumption
<1>3. /\ work[j].at = "idle" /\ work'[j].at = at /\ work'[j].kind = k /\ work'[j].tab = t
      /\ \A i \in Writer \ {j} : work'[i] = work[i]
      /\ inbox' = inbox /\ missed' = missed
  BY <1>2 DEF Request, Free, CellsOK, WorkOK
<1>4. (Editing(u) => Editing(u)') /\ (Adding(u) => Adding(u)')
  BY <1>3 DEF Editing, Adding
<1>5. TabOK(u)
  BY <1>3 DEF TabInv
<1>6. CASE u # t \/ ~Edit(t)
  <2>1. tab'[u] = tab[u]
    <3>1. CASE ~Edit(t)
      BY <1>2, <3>1 DEF AddRow
    <3>2. CASE Edit(t) /\ u # t
      BY <3>2 DEF Edit, CellsOK, ClientOK
    <3> QED BY <1>6, <3>1, <3>2
  <2> QED BY <1>1, <1>3, <1>4, <1>5, <2>1, OtherTab
<1>7. CASE u = t /\ Edit(t)
  <2>1. Editing(u)'
    BY <1>2, <1>3, <1>7 DEF Editing
  <2>2. \A q \in Attribute : Unannounced(q) => Unannounced(q)'
    BY <1>1, QuietIsSteady, SteadyUnannounced
  <2>3. EventsInv(u)'
    BY <1>1, <1>3, <1>5, <2>2, EventsSame DEF TabOK, Quiet, server
  <2> QED BY <2>1, <2>3 DEF TabOK
<1> QED BY <1>6, <1>7

\* When a mutation of a cell ends, well or not, the tab asks anew.
LEMMA TabsEnd ==
  ASSUME CellsOK, TabInv, NEW t \in Tab, Settle(t) \/ AnswerLost(t)
  PROVE  TabInv'
<1> SUFFICES ASSUME NEW u \in Tab \ missed' PROVE TabOK(u)'
  BY DEF TabInv
<1>1. Quiet /\ ClientOK
  BY TabsAreQuiet DEF CellsOK
<1>2. PICK j \in Writer, ok \in BOOLEAN : work[j].at \in {"done", "failed"} /\ Ended(t, j, ok)
  BY DEF Settle, AnswerLost
<1>3. /\ work[j].tab = t /\ work'[j].at = "idle" /\ \A i \in Writer \ {j} : work'[i] = work[i]
      /\ inbox' = inbox /\ tab' = AfterSettle(t, j, ok)
      /\ missed' = IF work[j].kind = "row" /\ ~ok THEN missed \cup {t} ELSE missed
  BY <1>2 DEF Ended, Free, CellsOK, WorkOK
<1>4. TabOK(u) /\ u \notin missed
  BY <1>3 DEF TabInv
<1>5. work[j].before.cells \in Cells /\ work[j].before.rows \in Seq(Values)
  BY <1>2, Places DEF Write, TabShown
<1>6. \A i \in Tab \ {t} : tab'[i] = tab[i]
  BY <1>1, <1>3 DEF AfterSettle, Asked, ClientOK
<1>7. CASE u # t
  <2>1. (Editing(u) => Editing(u)') /\ (Adding(u) => Adding(u)')
    BY <1>2, <1>3, <1>7 DEF Editing, Adding
  <2> QED BY <1>1, <1>3, <1>4, <1>6, <1>7, <2>1, OtherTab
<1>8. CASE u = t
  <2>1. \/ tab' = Asked(t)
        \/ tab' = [tab EXCEPT ![t].cells = work[j].before.cells, ![t].rows = work[j].before.rows,
                              ![t].fetch = "asked", ![t].answer = Unset]
    BY <1>3, <1>8 DEF AfterSettle
  <2>2. tab'[u].fetch = "asked"
    <3>1. CASE tab' = Asked(t)
      BY <1>1, <1>8, <3>1, FetchChanges DEF Asked, ViewsAre
    <3>2. CASE tab' # Asked(t)
      <4>1. tab' = [tab EXCEPT ![t].cells = work[j].before.cells, ![t].rows = work[j].before.rows,
                               ![t].fetch = "asked", ![t].answer = Unset]
        BY <2>1, <3>2
      <4>2. ViewsAre(t, work[j].before.cells, work[j].before.rows, "asked", Unset, tab[t].link)
        BY <1>1, <1>5, <4>1, AllChanges
      <4> QED BY <1>8, <4>2 DEF ViewsAre
    <3> QED BY <3>1, <3>2
  <2>3. \A q \in Attribute : Unannounced(q) => Unannounced(q)'
    BY <1>1, QuietIsSteady, SteadyUnannounced
  <2>4. EventsInv(u)'
    BY <1>1, <1>3, <1>4, <2>3, EventsSame DEF TabOK, Quiet, server
  <2> QED BY <2>2, <2>4 DEF TabOK
<1> QED BY <1>7, <1>8

\* A fetch answers with what the server has; if nothing is on the way to the tab
\* or about to be announced, it has missed nothing any more.
LEMMA TabsFetch ==
  ASSUME CellsOK, TabInv, NEW t \in Tab, FetchRead(t) \/ FetchArrives(t) \/ FetchFails(t)
  PROVE  TabInv'
<1> SUFFICES ASSUME NEW u \in Tab \ missed' PROVE TabOK(u)'
  BY DEF TabInv
<1>1. Quiet /\ work' = work /\ ClientOK /\ inbox' = inbox
  BY TabsAreQuiet DEF FetchRead, FetchArrives, FetchFails, CellsOK
<1>2. (Editing(u)' <=> Editing(u)) /\ (Adding(u)' <=> Adding(u))
  BY <1>1, WorkSame
<1>3. cell' = cell /\ last' = last /\ rows' = rows
  BY <1>1 DEF Quiet, server
<1>4. \A p \in Attribute : Unannounced(p) => Unannounced(p)'
  BY <1>1, QuietIsSteady, SteadyUnannounced
<1>5. CASE u # t
  <2>1. tab'[u] = tab[u]
    BY <1>1, <1>5 DEF FetchRead, FetchArrives, FetchFails, ClientOK
  <2>2. TabOK(u)
    BY <1>5 DEF FetchRead, FetchArrives, FetchFails, TabInv
  <2> QED BY <1>1, <1>2, <2>1, <2>2, OtherTab
<1>6. CASE u = t /\ FetchRead(t)
  <2>1. Showing(t)' = [cells |-> cell, rows |-> rows]
    <3>1. PICK a : a = [cells |-> cell, rows |-> rows]
      OBVIOUS
    <3>2. a \in TabShown
      BY <3>1 DEF CellsOK, ServerOK, TabShown
    <3>3. ViewsAre(t, tab[t].cells, tab[t].rows, "answered", a, tab[t].link)
      BY <1>1, <1>6, <3>1, <3>2, FetchChanges DEF FetchRead
    <3> QED BY <3>1, <3>3 DEF ViewsAre, Showing
  <2>2. Showing(t).rows' = rows' /\ \A p \in Attribute : Showing(t).cells[p]' = cell'[p]
    BY <1>3, <2>1
  <2>3. EventsInv(t)'
    <3>1. CASE t \in missed
      <4>1. inbox[t] = <<>>
        BY <1>6, <3>1 DEF FetchRead
      <4> QED BY <1>1, <4>1 DEF EventsInv
    <3>2. CASE t \notin missed
      BY <1>1, <1>3, <1>4, <3>2, EventsSame DEF TabInv, TabOK
    <3> QED BY <3>1, <3>2
  <2> QED BY <1>6, <2>2, <2>3 DEF TabOK, RowsShown, CellShown
<1>7. CASE u = t /\ FetchArrives(t)
  <2>1. tab[t].answer \in TabShown /\ tab[t].fetch = "answered"
    BY <1>1, <1>7 DEF FetchArrives, ClientOK
  <2>2. ViewsAre(t, tab[t].answer.cells, tab[t].answer.rows, "none", Unset, tab[t].link)
    BY <1>1, <1>7, <2>1, AllChanges DEF FetchArrives, TabShown
  <2>3. Showing(t)' = Showing(t) /\ tab'[t].fetch # "asked"
    BY <2>1, <2>2 DEF ViewsAre, Showing, TabShown
  <2>4. TabOK(t)
    BY <1>7 DEF FetchArrives, TabInv
  <2> QED BY <1>1, <1>2, <1>3, <1>4, <1>7, <2>1, <2>3, <2>4, TabSame
<1>8. CASE u = t /\ FetchFails(t)
  BY <1>8 DEF FetchFails
<1> QED BY <1>5, <1>6, <1>7, <1>8

\* An event arrives.  What it sets back another event behind it, or one yet to
\* be sent, sets right, unless the last write is the user's own.
LEMMA TabsDeliver ==
  ASSUME CellsOK, TabInv, NEW t \in Tab, Deliver(t)
  PROVE  TabInv'
<1> SUFFICES ASSUME NEW u \in Tab \ missed' PROVE TabOK(u)'
  BY DEF TabInv
<1>1. Quiet /\ work' = work /\ ClientOK /\ inbox[t] # <<>>
  BY TabsAreQuiet DEF Deliver, CellsOK
<1>2. (Editing(u)' <=> Editing(u)) /\ (Adding(u)' <=> Adding(u))
  BY <1>1, WorkSame
<1>3. cell' = cell /\ last' = last /\ rows' = rows
  BY <1>1 DEF Quiet, server
<1>4. \A p \in Attribute : Unannounced(p) => Unannounced(p)'
  BY <1>1, QuietIsSteady, SteadyUnannounced
<1>5. TabOK(u) /\ u \notin missed
  BY DEF Deliver, TabInv
<1>6. CASE u # t
  <2>1. inbox'[u] = inbox[u] /\ tab'[u] = tab[u]
    BY <1>1, <1>6 DEF Deliver, Asked, ClientOK
  <2> QED BY <1>1, <1>2, <1>5, <2>1, OtherTab
<1>7. CASE u = t
  <2> PICK e : e = Head(inbox[t])
    OBVIOUS
  <2> DEFINE n == Len(inbox[t])
  <2>1. inbox[t] \in Seq(Event) /\ n \in Nat
    BY EventTypes
  <2>2. /\ e \in Event /\ e = inbox[t][1] /\ n >= 1
        /\ inbox'[t] = Tail(inbox[t])
    BY <1>1, <2>1, EmptySeq DEF Deliver, ClientOK
  <2>3. /\ Len(inbox'[t]) = n - 1
        /\ \A i \in 1..(n - 1) : inbox'[t][i] = inbox[t][i + 1]
    BY <1>1, <2>1, <2>2, HeadTailProperties
  <2> PICK m \in Nat : m = n
    BY <2>1
  <2> HIDE DEF n
  <2>4. ASSUME NEW p \in Attribute, NEW i \in 0..m, OnTheWay(t, p, i + 1) PROVE OnTheWay(t, p, i)'
    <3>1. PICK k \in 1..m : k > i + 1 /\ Announces(inbox[t][k], p) /\ inbox[t][k].number = last[p].number
      BY <2>4 DEF OnTheWay, n
    <3>2. k - 1 \in 1..Len(inbox'[t]) /\ k - 1 > i /\ inbox'[t][k - 1] = inbox[t][k]
      BY <2>3, <3>1
    <3> QED BY <1>3, <3>1, <3>2 DEF OnTheWay
  <2>5. ASSUME NEW i \in 1..m, NEW p \in Attribute, Announces(inbox[t][i], p)
        PROVE  /\ inbox[t][i].number <= last[p].number
               /\ inbox[t][i].number = last[p].number => inbox[t][i].value = cell[p] /\ inbox[t][i].actor = last[p].actor
               /\ inbox[t][i].number < last[p].number => Unannounced(p) \/ OnTheWay(t, p, i) \/ ~Others(t, p)
    BY <1>5, <1>7, <2>5 DEF TabOK, EventsInv, n
  <2>6. EventsInv(t)'
    <3>1. ASSUME NEW i \in 1..Len(inbox'[t]), NEW p \in Attribute, Announces(inbox'[t][i], p)
          PROVE  /\ inbox'[t][i].number <= last'[p].number
                 /\ inbox'[t][i].number = last'[p].number => inbox'[t][i].value = cell'[p] /\ inbox'[t][i].actor = last'[p].actor
                 /\ inbox'[t][i].number < last'[p].number => Unannounced(p)' \/ OnTheWay(t, p, i)' \/ ~Others(t, p)'
      <4>1. i + 1 \in 1..m /\ inbox'[t][i] = inbox[t][i + 1] /\ i \in 0..m
        BY <2>2, <2>3
      <4>2. OnTheWay(t, p, i + 1) => OnTheWay(t, p, i)'
        BY <2>4, <4>1
      <4>3. Others(t, p)' <=> Others(t, p)
        BY <1>3 DEF Others
      <4> QED BY <1>3, <1>4, <2>5, <3>1, <4>1, <4>2, <4>3
    <3> QED BY <3>1 DEF EventsInv
  \* The first of the events that are on the way is e or stays on the way.
  <2>7. ASSUME NEW p \in Attribute, OnTheWay(t, p, 0), ~OnTheWay(t, p, 0)'
        PROVE  Announces(e, p) /\ e.number = last[p].number
    <3>1. PICK k \in 1..m : Announces(inbox[t][k], p) /\ inbox[t][k].number = last[p].number
      BY <2>7 DEF OnTheWay, n
    <3>2. CASE k = 1
      BY <2>2, <3>1, <3>2
    <3>3. CASE k # 1
      <4>1. OnTheWay(t, p, 0 + 1)
        BY <3>1, <3>3 DEF OnTheWay, n
      <4>2. 0 \in 0..m
        OBVIOUS
      <4> QED BY <2>4, <2>7, <4>1, <4>2
    <3> QED BY <3>2, <3>3
  <2>8. CASE e.actor = UserOf[t]
    <3>1. tab' = tab
      BY <2>8 DEF Deliver
    <3>2. Showing(t)' = Showing(t)
      BY <3>1 DEF Showing
    <3>3. ASSUME tab'[t].fetch # "asked", ~Editing(t)', NEW p \in Attribute
          PROVE  CellShown(t, p)'
      <4>1. CellShown(t, p)
        BY <1>2, <1>5, <1>7, <3>1, <3>3 DEF TabOK
      <4>2. CASE Others(t, p) /\ OnTheWay(t, p, 0)
        <5>1. OnTheWay(t, p, 0)'
          <6>1. CASE Announces(e, p) /\ e.number = last[p].number
            <7>1. 1 \in 1..m
              BY <2>2 DEF n
            <7>2. e.actor = last[p].actor
              BY <2>2, <2>5, <6>1, <7>1
            <7> QED BY <2>8, <4>2, <7>2 DEF Others
          <6> QED BY <2>7, <4>2, <6>1
        <5> QED BY <1>3, <4>2, <5>1 DEF CellShown, Others
      <4>3. CASE Showing(t).cells[p] = cell[p] \/ Unannounced(p)
        BY <1>3, <1>4, <3>2, <4>3 DEF CellShown
      <4> QED BY <4>1, <4>2, <4>3 DEF CellShown
    <3>4. ASSUME tab'[t].fetch # "asked", ~Editing(t)'
          PROVE  RowsShown(t)'
      <4>1. RowsShown(t)
        BY <1>2, <1>5, <1>7, <3>1, <3>4 DEF TabOK
      <4>2. CASE \E i \in 1..Len(inbox[t]) : inbox[t][i].kind = "row" /\ inbox[t][i].actor # UserOf[t]
        <5>1. PICK i \in 1..m : inbox[t][i].kind = "row" /\ inbox[t][i].actor # UserOf[t]
          BY <4>2 DEF n
        <5>2. i - 1 \in 1..Len(inbox'[t]) /\ inbox'[t][i - 1] = inbox[t][i]
          <6>1. i # 1
            BY <2>2, <2>8, <5>1
          <6>2. i - 1 \in 1..(n - 1) /\ (i - 1) + 1 = i
            BY <5>1, <6>1
          <6> QED BY <2>3, <6>2
        <5> QED BY <5>1, <5>2 DEF RowsShown
      <4>3. CASE Showing(t).rows = rows \/ Adding(t)
        BY <1>2, <1>3, <1>7, <3>2, <4>3 DEF RowsShown
      <4> QED BY <4>1, <4>2, <4>3 DEF RowsShown
    <3> QED BY <1>7, <2>6, <3>3, <3>4 DEF TabOK
  <2>9. CASE e.actor # UserOf[t] /\ e.kind = "set"
    <3> PICK p \in Attribute, x \in Values : p = e.property /\ x = e.value
      BY <2>2 DEF Event
    <3>1. /\ tab' = [tab EXCEPT ![t].cells[p] = x]
          /\ tab[t].fetch # "answered"
          /\ last[p].actor = UserOf[t] => ~(e.number < last[p].number)
      <4>1. tab' = [tab EXCEPT ![t].cells[p] = x]
        BY <2>9 DEF Deliver
      <4>2. missed' = IF tab[t].fetch = "answered" \/ (last[p].actor = UserOf[t] /\ e.number < last[p].number)
                      THEN missed \cup {t} ELSE missed
        BY <2>9 DEF Deliver
      <4> QED BY <1>7, <4>1, <4>2
    <3>2. ViewsAre(t, [tab[t].cells EXCEPT ![p] = x], tab[t].rows, tab[t].fetch, tab[t].answer, tab[t].link)
      BY <1>1, <3>1, CellPatched
    <3>3. tab[t].cells \in Cells
      BY <1>1 DEF ClientOK, TabView
    <3>4. /\ tab'[t].fetch = tab[t].fetch
          /\ Showing(t)'.rows = Showing(t).rows /\ Showing(t)'.cells[p] = x
          /\ \A q \in Attribute \ {p} : Showing(t)'.cells[q] = Showing(t).cells[q]
      BY <3>1, <3>2, <3>3 DEF ViewsAre, Showing, Cells
    <3>5. ASSUME tab'[t].fetch # "asked", ~Editing(t)', NEW q \in Attribute
          PROVE  CellShown(t, q)'
      <4>1. CellShown(t, q)
        BY <1>2, <1>5, <1>7, <3>4, <3>5 DEF TabOK
      <4>2. Others(t, q)' <=> Others(t, q)
        BY <1>3 DEF Others
      <4>3. CASE q = p
        <5>1. Announces(inbox[t][1], p) /\ 1 \in 1..m
          BY <2>2, <2>9 DEF Announces, n
        <5>2. CASE e.number = last[p].number
          BY <1>3, <2>2, <2>5, <3>4, <4>3, <5>1, <5>2 DEF CellShown
        <5>3. CASE e.number < last[p].number
          <6>1. Unannounced(p) \/ OnTheWay(t, p, 1) \/ ~Others(t, p)
            BY <2>2, <2>5, <5>1, <5>3
          <6>2. Others(t, p)
            BY <3>1, <5>3 DEF Others
          <6>3. OnTheWay(t, p, 1) => OnTheWay(t, p, 0)'
            <7>1. 0 \in 0..m /\ 0 + 1 = 1
              OBVIOUS
            <7> QED BY <2>4, <7>1
          <6> QED BY <1>4, <4>2, <4>3, <6>1, <6>2, <6>3 DEF CellShown
        <5>4. e.number \in Nat /\ last[p].number \in Nat /\ e.number <= last[p].number
          BY <2>2, <2>5, <5>1 DEF Event, CellsOK, ServerOK
        <5> QED BY <5>2, <5>3, <5>4
      <4>4. CASE q # p
        <5>1. OnTheWay(t, q, 0) => OnTheWay(t, q, 0)'
          BY <2>7, <4>4 DEF Announces
        <5> QED BY <1>3, <1>4, <3>4, <4>1, <4>2, <4>4, <5>1 DEF CellShown
      <4> QED BY <4>3, <4>4
    <3>6. ASSUME tab'[t].fetch # "asked", ~Editing(t)'
          PROVE  RowsShown(t)'
      <4>1. RowsShown(t)
        BY <1>2, <1>5, <1>7, <3>4, <3>6 DEF TabOK
      <4>2. CASE \E i \in 1..Len(inbox[t]) : inbox[t][i].kind = "row" /\ inbox[t][i].actor # UserOf[t]
        <5>1. PICK i \in 1..m : inbox[t][i].kind = "row" /\ inbox[t][i].actor # UserOf[t]
          BY <4>2 DEF n
        <5>2. i - 1 \in 1..Len(inbox'[t]) /\ inbox'[t][i - 1] = inbox[t][i]
          <6>1. i # 1
            BY <2>2, <2>9, <5>1
          <6>2. i - 1 \in 1..(n - 1) /\ (i - 1) + 1 = i
            BY <5>1, <6>1
          <6> QED BY <2>3, <6>2
        <5> QED BY <5>1, <5>2 DEF RowsShown
      <4>3. CASE Showing(t).rows = rows \/ Adding(t)
        BY <1>2, <1>3, <1>7, <3>4, <4>3 DEF RowsShown
      <4> QED BY <4>1, <4>2, <4>3 DEF RowsShown
    <3> QED BY <1>7, <2>6, <3>5, <3>6 DEF TabOK
  <2>10. CASE e.actor # UserOf[t] /\ ~(e.kind = "set")
    <3>1. tab' = Asked(t)
      BY <2>10 DEF Deliver
    <3>2. tab'[t].fetch = "asked"
      BY <1>1, <3>1, FetchChanges DEF Asked, ViewsAre
    <3> QED BY <1>7, <2>6, <3>2 DEF TabOK
  <2> QED BY <2>8, <2>9, <2>10
<1> QED BY <1>6, <1>7

-----------------------------------------------------------------------------
(* The theorems.                                                           *)

LEMMA CellsStart == CellsInit => CellsInv
<1> SUFFICES ASSUME CellsInit PROVE CellsInv
  OBVIOUS
<1>1. CellsOK
  BY TypesInit
<1>2. \A j \in Writer : work[j].at = "idle"
  BY DEF CellsInit, Free
<1>3. TitleInv /\ IndexInv /\ NumbersInv
  <2>1. TitleInv
    BY <1>2, CellsAssumption DEF CellsInit, TitleInv, TitleOf, Empty, CellsAssumption
  <2>2. Syncing = {} /\ \A j \in Writer : ~Committed(j)
    BY <1>2 DEF Syncing, Committed
  <2> QED BY <1>2, <2>1, <2>2 DEF CellsInit, IndexInv, NumbersInv
<1>4. ASSUME NEW t \in Tab PROVE TabOK(t)
  <2>1. inbox[t] = <<>> /\ Showing(t).rows = rows /\ Showing(t).cells = cell
    BY DEF CellsInit, Showing
  <2> QED BY <2>1 DEF TabOK, EventsInv, RowsShown, CellShown
<1> QED BY <1>1, <1>3, <1>4 DEF CellsInv, TabInv

LEMMA CellsStep == CellsInv /\ [CellsNext]_cellVars => CellsInv'
<1> SUFFICES ASSUME CellsInv, [CellsNext]_cellVars PROVE CellsInv'
  OBVIOUS
<1> USE DEF CellsInv
<1>1. ASSUME NEW j \in Writer,
             WriteCell(j) \/ SetCellFails(j) \/ ReadRow(j) \/ WriteIndex(j) \/ SyncFails(j) \/ InsertRow(j)
      PROVE  CellsInv'
  <2>1. IndexInv'
    BY <1>1, IndexSteps, IndexSyncs
  <2>2. NumbersInv'
    BY <1>1, MovesAreSteady, SteadyNumbers
  <2> QED BY <1>1, <2>1, <2>2, TypesServer, TitleSteps, TabsMoves
<1>2. ASSUME NEW j \in Writer, WriteTitle(j) PROVE CellsInv'
  BY <1>2, TypesServer, TitleWritten, IndexSyncs, NumbersWritten, TabsWritten
<1>3. ASSUME NEW j \in Writer, Emit(j) PROVE CellsInv'
  BY <1>3, TypesEmit, TitleSteps, IndexSteps, NumbersAnnounced, TabsAnnounced
<1>4. ASSUME NEW t \in Tab,
             Join(t) \/ NotLetIn(t) \/ Drop(t) \/ Reconnect(t) \/ Edit(t) \/ AddRow(t) \/ FetchRead(t)
               \/ FetchArrives(t) \/ FetchFails(t) \/ Settle(t) \/ AnswerLost(t) \/ Deliver(t)
      PROVE  CellsInv'
  <2>1. Quiet
    BY <1>4, TabsAreQuiet
  <2>2. TitleInv' /\ IndexInv' /\ NumbersInv'
    BY <2>1, QuietTitle, QuietIndex, QuietIsSteady, SteadyNumbers
  <2>3. CellsOK'
    BY <1>4, TypesClient, TypesBegin, TypesEnd
  <2>4. TabInv'
    BY <1>4, TabsLink, TabsBegin, TabsEnd, TabsFetch, TabsDeliver
  <2> QED BY <2>2, <2>3, <2>4
<1>5. CASE UNCHANGED cellVars
  <2>1. Quiet /\ UNCHANGED <<tab, inbox, missed, work, faults, begun>>
    BY <1>5 DEF cellVars, server, client, numbers, Quiet
  <2>2. TitleInv' /\ IndexInv' /\ NumbersInv'
    BY <2>1, QuietTitle, QuietIndex, QuietIsSteady, SteadyNumbers
  <2>3. CellsOK'
    BY <1>5 DEF cellVars, server, client, numbers, CellsOK, ServerOK, ClientOK, WorkOK
  <2>4. TabInv'
    <3> SUFFICES ASSUME NEW u \in Tab \ missed PROVE TabOK(u)'
      BY <2>1 DEF TabInv
    <3> QED BY <2>1, OtherTab, WorkSame DEF TabInv
  <2> QED BY <2>2, <2>3, <2>4
<1> QED BY <1>1, <1>2, <1>3, <1>4, <1>5 DEF CellsNext

LEMMA TabsSettled == CellsInv => TabsSettle
<1> SUFFICES ASSUME CellsInv, NEW t \in Tab, t \notin missed, tab[t].fetch = "none", inbox[t] = <<>>,
                    \A j \in Writer : work[j] = Free
             PROVE  tab[t].cells = cell /\ tab[t].rows = rows
  BY DEF TabsSettle
<1>1. \A j \in Writer : work[j].at = "idle"
  BY DEF Free
<1>2. ~Editing(t) /\ ~Adding(t) /\ \A p \in Attribute : ~Unannounced(p) /\ ~OnTheWay(t, p, 0)
  BY <1>1 DEF Editing, Adding, Unannounced, Committed, OnTheWay
<1>3. RowsShown(t) /\ \A p \in Attribute : CellShown(t, p)
  BY <1>2 DEF CellsInv, TabInv, TabOK
<1>4. Showing(t).rows = tab[t].rows /\ Showing(t).cells = tab[t].cells
  BY DEF Showing
<1>5. tab[t].rows = rows
  BY <1>2, <1>3, <1>4 DEF RowsShown
<1>6. \A p \in Attribute : tab[t].cells[p] = cell[p]
  BY <1>2, <1>3, <1>4 DEF CellShown
<1>7. tab[t].cells \in Cells /\ cell \in Cells
  BY DEF CellsInv, CellsOK, ClientOK, ServerOK, TabView
<1> QED BY <1>5, <1>6, <1>7 DEF Cells

\* The row, its copies and the tabs keep their invariant, however requests,
\* events, fetches, losses and reconnections interleave.
THEOREM CellsInvariant == CellsSpec => []CellsInv
BY CellsStart, CellsStep, PTL DEF CellsSpec

\* The title of a row's page and its search entry follow the row's cells, but for
\* the crossings that are marked (rows.service setCell, syncRowCells).
THEOREM CopiesFollowCells == CellsSpec => []CopiesFollow
<1>1. CellsInv => CopiesFollow
  <2> SUFFICES ASSUME CellsInv PROVE CopiesFollow
    OBVIOUS
  <2>1. (\A j \in Writer : work[j].at = "idle") => Syncing = {}
    BY DEF Syncing
  <2> QED BY <2>1 DEF CellsInv, CopiesFollow, TitleInv, IndexInv, Now
<1> QED BY <1>1, CellsInvariant, PTL

\* A tab with nothing under way that missed nothing shows what the server has
\* (queries.ts, useDatabaseRealtime).
THEOREM TabsShowTheServer == CellsSpec => []TabsSettle
BY TabsSettled, CellsInvariant, PTL

=============================================================================
