------------------------------ MODULE CellLaws -------------------------------
(***************************************************************************)
(* What the engines of a database promise of the cells and rows there may  *)
(* be: what is stored, the conditions of filters, rollups, the order of    *)
(* rows, the answer to a view.  The machine builds a request, one piece of *)
(* JSON at a time, or a table, one row page at a time.                     *)
(***************************************************************************)
EXTENDS RowsQuery

CONSTANTS Atoms, MaxAtoms,    \* JSON a cell may be set to, alone or in a list
          Schema,             \* the columns of the table
          Moment,             \* the moment a condition is evaluated at
          Fillings, MaxRows,  \* the cells and links a row may hold
          Targets,            \* the cells of the rows it links to
          SortIds, Sortings,  \* the columns a view may sort by, and the keys it has
          Views, PageSizes    \* the views, and how many rows a client asks for at once

\* A number's configuration says which places it keeps, a select's the texts to choose
\* from; what prints is a number.
Scalars == {Null} \cup [text : Seq(Nat)] \cup [num : Printable] \cup [flag : BOOLEAN]
ASSUME CellAssumption ==
  /\ Atoms \subseteq Scalars /\ Moment \in Int
  /\ \A p \in ToSet(Schema) :
       /\ p.type \in PropertyTypes
       /\ Is(p.config, "place") => p.config.place \in Nat \ {0}
       /\ Is(p.config, "options") => p.config.options \in Seq([text : Seq(Nat)])

VARIABLES about, input        \* what the input is for, and its pieces up to here
vars == <<about, input>>

AddAtom ==
  /\ about = "cell" /\ Len(input) < MaxAtoms
  /\ \E v \in Atoms : input' = Append(input, v)
  /\ UNCHANGED about

CellSpec == about = "cell" /\ input = <<>> /\ [][AddAtom]_vars

RowPage(n, f, parent, archived) ==
  [parent |-> parent, archived |-> archived, cells |-> f.cells, links |-> f.links,
   created |-> n, edited |-> 0, author |-> Text(<<1>>), editor |-> Null]
AddRow ==
  /\ about = "rows" /\ Len(input) < MaxRows
  /\ \E f \in Fillings, parent \in 0 .. Len(input), archived \in BOOLEAN :
       input' = Append(input, RowPage(Len(input), f, parent, archived))
  /\ UNCHANGED about

RowSpec == about = "rows" /\ input = <<>> /\ [][AddRow]_vars

-----------------------------------------------------------------------------
(* Cells.  Requests: the JSON that these atoms make; Settable: the columns *)
(* a request may set, by type.                                             *)
Requests(atoms) ==
  {Items(atoms)}
    \cup (IF Len(atoms) = 1 THEN {atoms[1], [start |-> atoms[1]]} ELSE {})
    \cup (IF Len(atoms) = 2 THEN {DateRange(atoms[1], atoms[2])} ELSE {})
Settable == {p \in ToSet(Schema) : p.type \notin ComputedTypes \cup {"relation"}}
\* What a valid request leaves in some column.
Stored(p, v) == LET stored == ValidateCellValue(p.type, p.config, v) IN IF stored = Invalid THEN {} ELSE {stored}

Choosable(p) == OptionIds(p.config) \cup {EmptyKey}

\* A cell never holds what its column would refuse or read differently: a stored value
\* can be stored again unchanged, is empty only as null, and puts its row once into each
\* of some columns of a board that the configuration knows; and a card dropped into such
\* a column lands in that one alone (property-value.ts validateCellValue, group.ts
\* keysFor, boardMove.ts moveCardValue).
CellsNormalize ==
  about = "cell" =>
    \A p \in Settable : \A v \in Requests(input) : \A stored \in Stored(p, v) :
      LET keys == KeysFor(p.type, stored)
          again == ValidateCellValue(p.type, p.config, stored)
      IN  /\ again = stored
          /\ p.type # "checkbox" => (IsEmpty(stored) <=> stored = Null)
          /\ keys # <<>> /\ IsInjective(keys)
          /\ p.type \in SelectTypes \cup {"multi_select"} => ToSet(keys) \subseteq Choosable(p)
          /\ p.type \in SelectTypes =>
               \A key \in Choosable(p) :
                 KeysFor(p.type, ValidateCellValue(p.type, p.config, MoveCardValue(key))) = <<key>>

Says(p, op, v, operand) == EvalCondition(p.type, op, v, operand, Moment) = "yes"
Opposite(p, v, operand, op, other) == Says(p, op, v, operand) # Says(p, other, v, operand)
Operands == Atoms \cup {Items(<<v>>) : v \in Atoms}

\* Two filters that are each other's negation never keep or drop the same row, a filter
\* the interface offers for a column's type is never the reason a query is refused, and
\* every dated row is past, of today or future (filter.ts, filterBuilder.ts
\* operatorsForType; a missing number or date fails every comparison, so those negate
\* each other on filled cells).  A column of files is the exception: it is offered
\* conditions on text, and each of them is refused.
OppositesSplit ==
  about = "cell" =>
    \A p \in Settable : \A v \in Requests(input) : \A stored \in Stored(p, v) :
      /\ p.type # "files" =>
           \A operand \in Operands, op \in OperatorsForType(p.type) :
             EvalCondition(p.type, op, stored, operand, Moment) # "throws"
      /\ p.type \notin {"files", "checkbox"} => Opposite(p, stored, Null, "is_empty", "is_not_empty")
      /\ p.type = "checkbox" => Opposite(p, stored, Null, "checked", "unchecked")
      /\ \A operand \in Operands :
           /\ p.type \in TextTypes \cup SelectTypes => Opposite(p, stored, operand, "equals", "not_equals")
           /\ p.type \in TextTypes \cup {"multi_select", "person"}
                => Opposite(p, stored, operand, "contains", "not_contains")
           /\ p.type = "number" /\ Numeric(operand) => Opposite(p, stored, operand, "equals", "not_equals")
           /\ p.type = "number" /\ Numeric(operand) /\ ~IsEmpty(stored) =>
                /\ Opposite(p, stored, operand, "less_than", "greater_than_or_equal")
                /\ Opposite(p, stored, operand, "greater_than", "less_than_or_equal")
           /\ p.type = "date" /\ OperandMs(operand) # NotADate /\ ~IsEmpty(stored) =>
                /\ Opposite(p, stored, operand, "before", "on_or_after")
                /\ Opposite(p, stored, operand, "after", "on_or_before")
      /\ p.type = "date" /\ ~IsEmpty(stored) =>
           /\ Cardinality({op \in {"is_past", "is_today", "is_future"} : Says(p, op, stored, Null)}) = 1
           /\ Says(p, "is_yesterday", stored, Null) => Says(p, "is_past", stored, Null)
           /\ Says(p, "is_tomorrow", stored, Null) => Says(p, "is_future", stored, Null)
           /\ Says(p, "is_today", stored, Null) => Says(p, "is_this_week", stored, Null)

\* The rollups of one column agree with each other: the counts add up, the shares make a
\* whole, and the average and the median lie between the least and the greatest, which
\* are as far apart as the range (rollup.ts computeRollup).  The list is what the linked
\* rows hold, here the numbers, flags and gaps among the atoms; shares are compared where
\* they are whole numbers of units.
RollupsAgree ==
  about = "cell" =>
    LET of(aggregation) == ComputeRollup(aggregation, input, "number")
        both(a, b) == of(a).num + of(b).num
        least == of("min").num
        greatest == of("max").num
    IN  /\ both("count_empty", "count_not_empty") = of("count").num
        /\ of("count_unique").num <= of("count_values").num
        /\ input # <<>> /\ Unit % Len(input) = 0 =>
             /\ both("percent_empty", "percent_not_empty") = Unit
             /\ both("percent_checked", "percent_unchecked") = Unit
        /\ IF NumbersOf(input) = <<>>
           THEN {of(a) : a \in {"min", "max", "avg", "median", "range"}} = {Null}
           ELSE /\ {of("avg").num, of("median").num} \subseteq least .. greatest
                /\ of("range").num = greatest - least
                /\ {least, greatest} \subseteq {v.num : v \in {v \in ToSet(input) : Is(v, "num")}}
                /\ Cardinality({i \in DOMAIN input : Is(input[i], "num") /\ input[i].num < of("median").num})
                     <= Len(NumbersOf(input)) \div 2

-----------------------------------------------------------------------------
(* Rows in the order of a view's keys.                                     *)
Context == [properties |-> Schema, targets |-> Targets, types |-> [t \in DOMAIN Targets[1] |-> "number"], now |-> Moment]
Column(id) == CHOOSE p \in ToSet(Schema) : p.id = id
Cell(row, id) == RowValue(Column(id), row, Context)

\* Text s comes before text t: they agree up to where s ends or has the lower character.
TextBefore(s, t) ==
  \E n \in 0 .. Len(s) :
    /\ n <= Len(t) /\ \A i \in 1 .. n : s[i] = t[i]
    /\ n < Len(t) /\ (n < Len(s) => s[n + 1] < t[n + 1])
Folded(v) == LowerCase(SortText(v))

\* Filled cells v and w of column p, v before w when the key ascends.
Below(p, v, w) ==
  IF p.type = "number" THEN v.num < w.num
  ELSE IF p.type = "checkbox" THEN v # Flag(TRUE) /\ w = Flag(TRUE)
  ELSE IF p.type \in DateTypes THEN DateMs(v) < DateMs(w)
  ELSE IF p.type \in SelectTypes THEN Position(p.config.options, v) < Position(p.config.options, w)
  ELSE TextBefore(Folded(v), Folded(w))
AheadOn(p, direction, v, w) ==
  /\ ~IsEmpty(v)
  /\ IsEmpty(w) \/ (IF direction = "asc" THEN Below(p, v, w) ELSE Below(p, w, v))
TiedOn(p, v, w) == ~AheadOn(p, "asc", v, w) /\ ~AheadOn(p, "asc", w, v)

\* Row x goes before row y; where all keys tie, if it came first.
Precedes(sorts, xs, ys, first) ==
  LET tied(k) == TiedOn(Column(sorts[k].property), xs[k], ys[k])
      ahead(k) == AheadOn(Column(sorts[k].property), sorts[k].direction, xs[k], ys[k])
  IN  \/ \E k \in DOMAIN sorts : ahead(k) /\ \A l \in 1 .. k - 1 : tied(l)
      \/ first /\ \A k \in DOMAIN sorts : tied(k)
KeysOfRow(sorts, row) == [k \in DOMAIN sorts |-> Cell(row, sorts[k].property)]
InOrder(sorts, x, y, first) == Precedes(sorts, KeysOfRow(sorts, x), KeysOfRow(sorts, y), first)

\* These rows are those of a table, sorted.
Sorted(table, sorts, rows) ==
  /\ Len(rows) = Len(table) /\ ToSet(rows) = DOMAIN table
  /\ \A a, b \in DOMAIN rows :
       a < b => InOrder(sorts, table[rows[a]], table[rows[b]], rows[a] < rows[b])

\* A sorted view has each of its rows once and orders them by every key in turn, empty
\* cells last whichever way the key turns, and leaves rows that tie in the order they came
\* (sort.ts sortRows).
SortedAndStable ==
  about = "rows" =>
    \A sorts \in Sortings :
      LET property == [id \in SortIds |-> Column(id)]
          values == [i \in DOMAIN input |-> [id \in SortIds |-> Cell(input[i], id)]]
      IN  Sorted(input, sorts, SortRows([i \in DOMAIN input |-> i], sorts, property, values))

-----------------------------------------------------------------------------
(* The answer to a view.                                                   *)
\* What the filter of a view says of a row.
VerdictOn(view, row) ==
  LET ids == {p.id : p \in ToSet(Schema)} \cup {Gone}
  IN  FilterVerdict(view.filters, [id \in ids |-> PropertyOf(Context, id).type],
                    [id \in ids |-> RowValue(PropertyOf(Context, id), row, Context)], Moment)

\* The rows a table shows: the least set that has every row below the container or below
\* one of its own, unless it is archived.
Shows(table, S) ==
  \A i \in DOMAIN table : ~table[i].archived /\ table[i].parent \in S \cup {0} => i \in S
ShownRows(table) == {i \in DOMAIN table : \A S \in SUBSET (DOMAIN table) : Shows(table, S) => i \in S}
Kept(table, view) == {i \in ShownRows(table) : VerdictOn(view, table[i]) = "yes"}

\* The rows so many levels below the container.  Of two rows the higher one is loaded
\* first, and on one level the one the database returns first.
RowLevels(table) ==
  LET level[n \in 0 .. Len(table)] ==
        IF n = 0 THEN {0}
        ELSE LET above == level[n - 1] IN {i \in DOMAIN table : table[i].parent \in above}
  IN  level
LoadedBefore(levels, i, j) ==
  \E m, n \in DOMAIN levels : i \in levels[m] /\ j \in levels[n] /\ (m < n \/ (m = n /\ i < j))
KeepsOrder(table, view, rows) ==
  LET levels == RowLevels(table)
  IN  \A a, b \in DOMAIN rows :
        a < b => InOrder(view.sorts, table[rows[a]], table[rows[b]], LoadedBefore(levels, rows[a], rows[b]))

\* What a client has with one answer more.
WithPage(last, answer) == [rows |-> last.rows \o answer.rows, next |-> answer.next]

\* What a client has that follows the cursor of each page to the next, tables[n] being
\* what its n-th request finds.
Walk(tables, view, limit) ==
  LET walk[n \in 0 .. Len(tables)] ==
        IF n = 0 THEN [rows |-> <<>>, next |-> NoCursor]
        ELSE LET last == walk[n - 1]
             IN  IF n > 1 /\ last.next = NoCursor THEN last
                 ELSE WithPage(last, Query(tables[n], Context, view, limit, last.next))
  IN  walk[Len(tables)]

\* A client at the end has these rows at least.
Reaches(client, rows) == client.next = NoCursor /\ rows \subseteq ToSet(client.rows)

\* The pages of a table that stands still are its rows; one archived after the first page
\* takes no other with it.
PagesKeep(table, view, rows) ==
  \A limit \in PageSizes :
    LET walk(then) == Walk([n \in 1 .. Len(table) + 1 |-> IF n = 1 THEN table ELSE then], view, limit)
    IN  /\ walk(table) = [rows |-> rows, next |-> NoCursor]
        /\ \A i \in DOMAIN table :
             LET then == [table EXCEPT ![i].archived = TRUE]
             IN  Reaches(walk(then), Kept(then, view))

\* Every row is in the groups its value names and no others, in the order of the rows;
\* each key has one group, every option has one, and the empty one is last.
GroupsHold(rows, groups, keys, named, column) ==
  /\ IsInjective(keys)
  /\ column.type # "checkbox" => OptionIds(column.config) \subseteq ToSet(keys)
  /\ \A k \in DOMAIN keys :
       /\ keys[k] = EmptyKey => k = Len(keys)
       /\ ToSet(groups[k].rows) = {i \in ToSet(rows) : keys[k] \in named[i]}
       /\ \A a, b \in DOMAIN groups[k].rows :
            a < b => Position(rows, groups[k].rows[a]) < Position(rows, groups[k].rows[b])
  /\ \A i \in ToSet(rows) : named[i] \subseteq ToSet(keys)
GroupsKeep(table, rows, groups, column) ==
  GroupsHold(rows, groups, [k \in DOMAIN groups |-> groups[k].key],
             [i \in ToSet(rows) |-> ToSet(KeysFor(column.type, Cell(table[i], column.id)))], column)

\* What an answer is to a view: refused if its filter fails on a row.
KeepsEveryRow(table, view, answer) ==
  /\ ToSet(answer.rows) = Kept(table, view) /\ IsInjective(answer.rows)
  /\ KeepsOrder(table, view, answer.rows)
  /\ PagesKeep(table, view, answer.rows)
  /\ view.groupBy # NoGroup => GroupsKeep(table, answer.rows, answer.groups, Column(view.groupBy))
Fails(table, view) == \E i \in ShownRows(table) : VerdictOn(view, table[i]) = "throws"
Answers(table, view, answer) ==
  IF Fails(table, view) THEN answer = Refused ELSE KeepsEveryRow(table, view, answer)

\* Filters, pages and groups lose no row: an answer has each row that its filter keeps once,
\* of those that are not archived, nor is one above them, in the view's order; the pages
\* of a table that stands still are its rows, each once, and a client that follows them
\* comes to an end; a row archived between two pages takes no other with it; and a row is
\* in the groups its value names and no others.  A filter that fails on one of the rows
\* fails the whole request (query.service.ts query, cursor.ts paginate, group.ts groupRows).
AnswerKeepsEveryRow ==
  about = "rows" =>
    \A view \in Views : Answers(input, view, Query(input, Context, view, Len(input) + 1, NoCursor))

\* A filled cell that its column can compare: what is stored does, unless its option
\* is gone from the column since.
Comparable(p, v) ==
  /\ p.type = "number" => Is(v, "num") /\ v.num \in Int
  /\ p.type \in DateTypes => DateMs(v) \in Int \ {NotADate}
  /\ p.type \in SelectTypes => v \in OptionIds(p.config)
  /\ p.type \notin {"number", "checkbox"} \cup DateTypes \cup SelectTypes => SortText(v) \in Seq(Int)
ASSUME RowAssumption ==
  /\ MaxRows \in Nat /\ SortIds \subseteq {p.id : p \in ToSet(Schema)}
  /\ Sortings \subseteq Seq([property : SortIds, direction : {"asc", "desc"}])
  /\ \A n \in 0 .. MaxRows : \A f \in Fillings, parent \in 0 .. n, archived \in BOOLEAN, id \in SortIds :
       LET v == Cell(RowPage(n, f, parent, archived), id) IN IsEmpty(v) \/ Comparable(Column(id), v)
  /\ \A n \in 0 .. MaxRows : \A f \in Fillings, parent \in 0 .. n, archived \in BOOLEAN, p \in ToSet(Schema) :
       LET v == Cell(RowPage(n, f, parent, archived), p.id) IN Is(v, "items") => v.items \in Seq(ToSet(v.items))
  /\ \A view \in Views : view.sorts \in Sortings /\ view.groupBy \in {p.id : p \in ToSet(Schema)} \cup {NoGroup}
  /\ PageSizes \subseteq Nat \ {0}
=============================================================================
