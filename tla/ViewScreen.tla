----------------------------- MODULE ViewScreen -----------------------------
(***************************************************************************)
(* The controls around a database view: which view is shown, its filter    *)
(* builder, sort, grouping, visible columns and type, the forms that add   *)
(* and edit a property, and the PATCHes they send (apps/web/src/databases: *)
(* DatabaseView, ViewControls, filterBuilder, PropertyEditor).             *)
(*                                                                         *)
(* A control sends the whole configuration of the view as the tab last     *)
(* read it, with its own part replaced.  Requests go out at once and are   *)
(* served in any order; each answer has the tab read everything anew, and  *)
(* the answer to the last request of its kind also closes the form or      *)
(* picks the view.  The components keep local state for as long as React   *)
(* keeps them mounted: the filter builder until the page is left, a        *)
(* property form until it is closed or its property is gone, and both      *)
(* until a read fails, when an error takes their place till the next read. *)
(* A filter is a flat list of conditions, in which another client may have *)
(* put a group that the builder hides.                                     *)
(***************************************************************************)
EXTENDS Naturals, Sequences, FiniteSets, SequencesExt

CONSTANTS Views, Default,      \* view ids, the default view, the only one at first
          Columns, Existed,    \* property ids in the order of definition, and those there
          TypeOf, Operators,   \* each property's type, the operators it offers
          Group, Name, Nothing,
          MaxSent              \* requests sent and reads that fail

\* What is stored: a view's configuration, a property's name and configuration.
MaybeColumn == ToSet(Columns) \cup {Nothing}
Conditions == [property : ToSet(Columns), operator : STRING]
Filters == [conjunction : {"and", "or"}, conditions : Seq(Conditions \cup {Group})]
ViewConfigs == [filters : Filters \cup {Nothing}, sorts : MaybeColumn,
                groupBy : MaybeColumn, date : MaybeColumn,
                visible : (SUBSET ToSet(Columns)) \cup {Nothing}, type : {"table", "board", "calendar"}]
Properties == [name : ToSet(Columns) \cup {Name}, config : ToSet(Columns) \cup {Name}]

ASSUME ControlAssumption ==
  /\ Columns \in Seq(ToSet(Columns)) /\ Columns # <<>>
  /\ Operators \in [ToSet(Columns) -> Seq(STRING) \ {<<>>}]
  /\ Default \in Views /\ Existed \subseteq ToSet(Columns)
  /\ Nothing \notin Views \cup ToSet(Columns)
  /\ Nothing \notin ViewConfigs /\ Nothing \notin Properties /\ Nothing \notin Filters
  /\ Group \notin Conditions

VARIABLES conf, column,        \* what the server has
          deleted,             \* ids of properties, which are never given again
          cache, reading,      \* what the tab last read, and whether it reads
          down,                \* whether the last read failed: an error is all that is shown
          picked, builder, form, adding,
          wire, heeded,        \* requests under way, of each kind the number of the last one
          actions
local == <<picked, builder, form, adding>>
requests == <<wire, heeded>>
viewVars == <<conf, column, deleted, cache, reading, down, local, requests, actions>>

NewConfig == [filters |-> Nothing, sorts |-> Nothing, groupBy |-> Nothing, date |-> Nothing,
              visible |-> Nothing, type |-> "table"]
EmptyFilter == [conjunction |-> "and", conditions |-> <<>>]
Condition(p, op) == [property |-> p, operator |-> op]
Kept(c) == {p \in ToSet(Columns) : c[p] # Nothing}
Place(p) == CHOOSE i \in DOMAIN Columns : Columns[i] = p
\* The first of some properties, as a singleton.
Foremost(S) == {p \in S : \A q \in S : Place(p) <= Place(q)}
FirstOf(c, types) ==
  LET fits == {p \in Kept(c) : TypeOf[p] \in types}
  IN  IF fits = {} THEN {Nothing} ELSE Foremost(fits)

\* What a mutation of each kind does to the screen when it is through, it does
\* only if it is the last that was sent.
Kinds == {"newView", "save", "delete", "add"}

\* The default view has a condition; another client may have put a group first.
FirstCondition == Condition(Head(Columns), Head(Operators[Head(Columns)]))
ScreenInit ==
  /\ \E conditions \in {<<FirstCondition>>, <<Group, FirstCondition>>} :
       conf = [v \in Views |->
                 IF v # Default THEN Nothing
                 ELSE [NewConfig EXCEPT !.filters = [EmptyFilter EXCEPT !.conditions = conditions]]]
  /\ column = [p \in ToSet(Columns) |-> IF p \in Existed THEN [name |-> p, config |-> p] ELSE Nothing]
  /\ deleted = {}
  /\ cache = [conf |-> conf, column |-> column] /\ reading = FALSE /\ down = FALSE
  /\ picked = Nothing
  /\ builder = [of |-> Default, filter |-> conf[Default].filters]
  /\ form = Nothing /\ adding = Nothing
  /\ wire = {} /\ heeded = [kind \in Kinds |-> Nothing] /\ actions = 0

\* The view that was picked if the tab knows it, else the default one.
Active == IF picked # Nothing /\ cache.conf[picked] # Nothing THEN picked ELSE Default
Acts == actions < MaxSent /\ actions' = actions + 1

-----------------------------------------------------------------------------
(* Requests: PATCH /views/:id, POST and PATCH /properties                  *)
\* Of two changes of which the tab sent one before it had read what the
\* other did, either may overwrite the other.
Sharing(kind, id) == {r \in wire : r.kind = kind /\ r.id = id}
Stale(kind, id) == reading \/ Sharing(kind, id) # {}
Mutate(kind, id, parts, body, step, carried) ==
  /\ wire' = (wire \ Sharing(kind, id)) \cup {[r EXCEPT !.stale = TRUE] : r \in Sharing(kind, id)}
              \cup {[kind |-> kind, id |-> id, parts |-> parts, body |-> body, step |-> step,
                     carried |-> carried, stale |-> Stale(kind, id), number |-> actions]}
  /\ heeded' = IF kind \in Kinds THEN [heeded EXCEPT ![kind] = actions] ELSE heeded

\* The builder has the filter of the view that it was read from or sent to, as
\* long as no two changes of that view crossed.
BuilderAfter(v) == IF Stale("view", v) /\ builder.of = v THEN [builder EXCEPT !.of = Nothing] ELSE builder

\* [The control sends its own part only.]
WithPartOnly(part, value) == [NewConfig EXCEPT ![part] = value, !.type = cache.conf[Active].type]
WithPart(part, value) == [cache.conf[Active] EXCEPT ![part] = value]
SetPart(part, value) ==
  /\ Acts /\ value # cache.conf[Active][part]
  /\ Mutate("view", Active, {part}, WithPart(part, value), Nothing, FALSE)
  /\ builder' = BuilderAfter(Active)
  /\ UNCHANGED <<conf, column, deleted, cache, reading, picked, form, adding>>

SortBy == \E p \in Kept(cache.column) \cup {Nothing} : SetPart("sorts", p)
GroupBy ==
  \E p \in {q \in Kept(cache.column) : TypeOf[q] \in {"select", "status"}} \cup {Nothing} :
    SetPart("groupBy", p)
\* A view that lists no columns shows all.
ToggleColumn ==
  LET shown == IF cache.conf[Active].visible = Nothing THEN Kept(cache.column) ELSE cache.conf[Active].visible
  IN  \E p \in Kept(cache.column) :
        SetPart("visible", (IF p \in shown THEN shown \ {p} ELSE shown \cup {p}) \cap Kept(cache.column))
\* A board and a calendar get the first property that fits.
SwitchType ==
  \E type \in {"table", "board", "calendar"} \ {cache.conf[Active].type},
     group \in FirstOf(cache.column, {"select", "status"}), day \in FirstOf(cache.column, {"date"}) :
    LET old == cache.conf[Active]
        next == [old EXCEPT !.type = type,
                            !.groupBy = IF type = "board" /\ @ = Nothing THEN group ELSE @,
                            !.date = IF type = "calendar" /\ @ = Nothing THEN day ELSE @]
    IN  /\ Acts
        /\ Mutate("view", Active, {"type", "groupBy", "date"}, next, Nothing, FALSE)
        /\ builder' = BuilderAfter(Active)
        /\ UNCHANGED <<conf, column, deleted, cache, reading, picked, form, adding>>

-----------------------------------------------------------------------------
(* The filter builder                                                      *)
\* The builder shows the conditions that are no groups: the row of the j-th.
Leaves(f) == {j \in DOMAIN f.conditions : f.conditions[j] # Group}
RowOf(f, j) == Cardinality({k \in Leaves(f) : k <= j})
\* Index counts the rows shown, the reducer all conditions.
Steps ==
  LET f == builder.filter
  IN  {[do |-> "conjunction"]}
        \cup {[do |-> "add", condition |-> Condition(p, Head(Operators[p]))] :
                p \in Foremost(Kept(cache.column))}
        \cup {[do |-> "remove", index |-> RowOf(f, j)] : j \in Leaves(f)}
        \cup {[do |-> "property", index |-> RowOf(f, j), property |-> p] :
                j \in Leaves(f), p \in Kept(cache.column)}
        \cup UNION {{[do |-> "operator", index |-> RowOf(f, j), operator |-> op] :
                       op \in ToSet(Operators[f.conditions[j].property])} : j \in Leaves(f)}

\* A group that a condition's change hits stays a group.
Patched(c, step) ==
  IF c = Group THEN c
  ELSE IF step.do = "property" THEN [c EXCEPT !.property = step.property]
  ELSE [c EXCEPT !.operator = step.operator]
Reduced(s, step) ==
  CASE step.do = "conjunction" -> s
    [] step.do = "add" -> Append(s, step.condition)
    [] step.do = "remove" -> RemoveAt(s, step.index)
    [] OTHER -> [i \in DOMAIN s |-> IF i = step.index THEN Patched(s[i], step) ELSE s[i]]
FilterReducer(f, step) ==
  [conjunction |-> IF step.do # "conjunction" THEN f.conjunction
                   ELSE IF f.conjunction = "and" THEN "or" ELSE "and",
   conditions |-> Reduced(f.conditions, step)]

EditFilter ==
  \E step \in Steps :
    LET next == FilterReducer(builder.filter, step)
    IN  /\ Acts
        /\ Mutate("view", Active, {"filters"}, WithPart("filters", next), step, builder.of # Active)
        /\ builder' = [of |-> IF Stale("view", Active) THEN Nothing ELSE Active, filter |-> next]
        /\ UNCHANGED <<conf, column, deleted, cache, reading, picked, form, adding>>

-----------------------------------------------------------------------------
(* The view switcher and the property forms                                *)
\* The builder is not keyed by the view: it keeps what it shows.
Pick(v) ==
  /\ cache.conf[v] # Nothing /\ v # Active
  /\ picked' = v
  /\ UNCHANGED <<conf, column, deleted, cache, reading, builder, form, adding, requests, actions>>
AddView ==
  \E v \in Views :
    /\ conf[v] = Nothing /\ ~Stale("newView", v) /\ Acts
    /\ Mutate("newView", v, {}, NewConfig, Nothing, FALSE)
    /\ UNCHANGED <<conf, column, deleted, cache, reading, local>>

\* A form that is mounted takes what the tab knows.
FormOn(p, known) ==
  [on |-> p, of |-> IF known[p] = column[p] THEN p ELSE Nothing, touched |-> {},
   name |-> known[p].name, config |-> known[p].config]
\* The form keeps what was typed into it when another property is opened;
\* of an options property it keeps the options alone.
OpenForm(p) ==
  /\ cache.column[p] # Nothing
  /\ form' = IF form = Nothing THEN FormOn(p, cache.column) ELSE [form EXCEPT !.on = p]
  /\ form' # form
  /\ UNCHANGED <<conf, column, deleted, cache, reading, picked, builder, adding, requests, actions>>
EditForm ==
  \E part \in {"name", "config"} :
    /\ form # Nothing /\ form[part] # Name
    /\ form' = [form EXCEPT ![part] = Name, !.touched = @ \cup {part}]
    /\ UNCHANGED <<conf, column, deleted, cache, reading, picked, builder, adding, requests, actions>>
CloseForm ==
  /\ form # Nothing /\ form' = Nothing
  /\ UNCHANGED <<conf, column, deleted, cache, reading, picked, builder, adding, requests, actions>>
SaveForm ==
  /\ form # Nothing /\ Acts
  /\ Mutate("save", form.on, form.touched, [name |-> form.name, config |-> form.config], Nothing,
          form.of # form.on)
  /\ UNCHANGED <<conf, column, deleted, cache, reading, local>>
\* Delete is offered for any but the primary property.
DeleteColumn ==
  /\ form # Nothing /\ form.on # Head(Columns) /\ Acts
  /\ Mutate("delete", form.on, {}, Nothing, Nothing, FALSE)
  /\ UNCHANGED <<conf, column, deleted, cache, reading, local>>

\* defaultConfig: a type with what it needs to start with.
OpenAdd ==
  /\ adding = Nothing /\ adding' = "text"
  /\ UNCHANGED <<conf, column, deleted, cache, reading, picked, builder, form, requests, actions>>
ChangeType ==
  \E p \in ToSet(Columns) :
    /\ adding # Nothing /\ adding' = TypeOf[p] /\ adding' # adding
    /\ UNCHANGED <<conf, column, deleted, cache, reading, picked, builder, form, requests, actions>>
SubmitAdd ==
  \E p \in ToSet(Columns) :
    /\ adding # Nothing /\ column[p] = Nothing /\ p \notin deleted /\ TypeOf[p] = adding
    /\ ~Stale("add", p) /\ Acts
    /\ Mutate("add", p, {}, [name |-> Name, config |-> p], Nothing, FALSE)
    /\ UNCHANGED <<conf, column, deleted, cache, reading, local>>

-----------------------------------------------------------------------------
(* The server and the answers                                              *)
\* A PATCH of a control leaves the type, a status property's form lacks the
\* groups its configuration must have.
Taken(r) ==
  CASE r.kind \in {"view", "newView"} -> TRUE
    [] r.kind = "save" -> column[r.id] # Nothing /\ TypeOf[r.id] # "status"
    [] r.kind = "delete" -> column[r.id] # Nothing
    [] r.kind = "add" -> column[r.id] = Nothing
ServedView(r) ==
  IF r.kind = "view" /\ "type" \notin r.parts THEN [r.body EXCEPT !.type = conf[r.id].type] ELSE r.body
\* An answer closes the form that its user sees by now, whichever it is; else
\* what is in the form may be from before.
Heard(r) == r.kind \in Kinds /\ heeded[r.kind] = r.number
Settles(r) ==
  /\ wire' = wire \ {r}
  /\ heeded' = IF Heard(r) THEN [heeded EXCEPT ![r.kind] = Nothing] ELSE heeded
Outdated(r) == form # Nothing /\ form.of = r.id
ServeChange(r) ==
  /\ Taken(r)
  /\ conf' = IF r.kind \in {"view", "newView"} THEN [conf EXCEPT ![r.id] = ServedView(r)] ELSE conf
  /\ column' = IF r.kind \in {"save", "delete", "add"} THEN [column EXCEPT ![r.id] = r.body] ELSE column
  /\ deleted' = IF r.kind = "delete" THEN deleted \cup {r.id} ELSE deleted
  /\ reading' = TRUE
  /\ form' = IF r.kind \notin {"save", "delete"} THEN form
             ELSE IF Heard(r) THEN Nothing
             ELSE IF Outdated(r) THEN [form EXCEPT !.of = Nothing] ELSE form
  /\ adding' = IF r.kind = "add" /\ Heard(r) THEN Nothing ELSE adding
  /\ picked' = IF r.kind = "newView" /\ Heard(r) THEN r.id ELSE picked
  /\ Settles(r)
  /\ UNCHANGED <<cache, down, builder, actions>>
\* The filter that was refused stays in the builder.
Fail(r) ==
  /\ builder' = IF "filters" \in r.parts /\ r.id = builder.of THEN [builder EXCEPT !.of = Nothing] ELSE builder
  /\ Settles(r)
  /\ UNCHANGED <<conf, column, deleted, cache, reading, down, picked, form, adding, actions>>
\* The form of a property that is gone goes; after a failure all is mounted anew.
BuilderOn(v) ==
  LET filter == conf[v].filters
  IN  [of |-> IF filter = Nothing \/ Sharing("view", v) # {} THEN Nothing ELSE v,
       filter |-> IF filter = Nothing THEN EmptyFilter ELSE filter]
Read ==
  /\ reading /\ reading' = FALSE /\ down' = FALSE
  /\ cache' = [conf |-> conf, column |-> column]
  /\ UNCHANGED <<conf, column, deleted, picked, requests, actions>>
  /\ builder' = IF down THEN BuilderOn(Active') ELSE builder
  /\ form' = IF form = Nothing \/ column[form.on] = Nothing THEN Nothing
             ELSE IF down THEN FormOn(form.on, column) ELSE form
  /\ adding' = IF down /\ adding # Nothing THEN "text" ELSE adding
\* Nothing tries again until something else has the tab read.
ReadFails ==
  /\ reading /\ ~down /\ down' = TRUE
  /\ Acts
  /\ UNCHANGED <<conf, column, deleted, cache, reading, local, requests>>

ViewControls == SortBy \/ GroupBy \/ ToggleColumn \/ SwitchType \/ EditFilter \/ AddView \/ (\E v \in Views : Pick(v))
PropertyForms ==
  \/ \E p \in ToSet(Columns) : OpenForm(p)
  \/ EditForm \/ CloseForm \/ SaveForm \/ DeleteColumn \/ OpenAdd \/ ChangeType \/ SubmitAdd
ScreenNext ==
  \/ ~down /\ UNCHANGED down /\ (ViewControls \/ PropertyForms)
  \/ \E r \in wire : ServeChange(r) \/ Fail(r)
  \/ Read \/ ReadFails

ControlSpec == ScreenInit /\ [][ScreenNext]_viewVars

-----------------------------------------------------------------------------
\* What a step on the rows a user sees should do to them.
Expected(rows, step) ==
  CASE step.do = "conjunction" -> rows
    [] step.do = "add" -> rows \o <<step.condition>>
    [] step.do = "remove" -> SubSeq(rows, 1, step.index - 1) \o SubSeq(rows, step.index + 1, Len(rows))
    [] OTHER -> [rows EXCEPT ![step.index] = Patched(rows[step.index], step)]
Grouped(filter) == Group \in ToSet(filter.conditions)

(* "Each control writes the merged ViewConfig back" (ViewControls): what a *)
(* control or a form sends changes the part its user changed and nothing   *)
(* else, and a step in the filter builder does to the filter the server    *)
(* has what it does to the rows on the screen.  That is, unless the tab    *)
(* had not read back its last change yet; the builder was filled for       *)
(* another view, or has missed a change since two of them crossed; the     *)
(* form was opened for another property, or before its last change was     *)
(* read; or a group hides among the conditions.                            *)
ControlsKeepTheRest ==
  [][\A r \in wire \ wire' : ~r.stale /\ ~r.carried /\ (conf' # conf \/ column' # column) =>
       /\ r.kind = "view" =>
            /\ \A part \in DOMAIN NewConfig \ r.parts : conf'[r.id][part] = conf[r.id][part]
            /\ r.step # Nothing /\ ~Grouped(conf[r.id].filters) =>
                 conf'[r.id].filters.conditions = Expected(conf[r.id].filters.conditions, r.step)
       /\ r.kind = "save" =>
            \A part \in {"name", "config"} \ r.parts : column'[r.id][part] = column[r.id][part]]_viewVars
=============================================================================
