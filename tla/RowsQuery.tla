----------------------------- MODULE RowsQuery ------------------------------
(***************************************************************************)
(* One request for the rows of a database: load, filter, sort, group, page *)
(* (apps/api/src/databases/query.service.ts, cursor.ts).                   *)
(*                                                                         *)
(* A table is a sequence of row pages in the order the database returns    *)
(* them, which no ORDER BY fixes.  A page's parent is the position of its  *)
(* parent row or 0 for the container.                                      *)
(***************************************************************************)
EXTENDS RowValues

CONSTANTS RowValue(_, _, _),         \* a column's value in a row and context (Evaluation!ValueFor)
          FilterVerdict(_, _, _, _)  \* "yes", "no" or "throws" (Evaluation!EvaluateFilter)

-----------------------------------------------------------------------------
(* loadRows: the row pages under the container, level by level.            *)
NextLevel(table, at) ==
  LET children == {i \in DOMAIN table : /\ table[i].parent \in at.frontier
                                        /\ ~table[i].archived /\ i \notin ToSet(at.rows)}
  IN  [rows |-> at.rows \o Picked([i \in DOMAIN table |-> i], children), frontier |-> children]
LoadRows(table) ==
  LET loaded[n \in 0 .. Len(table)] ==
        IF n = 0 THEN [rows |-> <<>>, frontier |-> {0}] ELSE NextLevel(table, loaded[n - 1])
  IN  loaded[Len(table)].rows

-----------------------------------------------------------------------------
(* paginate: the page after the cursor, and the cursor of the next one.    *)
NoCursor == 0
\* [A cursor that is gone ends the walk.]
PaginateEnding(ordered, limit, cursor) ==
  LET start == IF cursor = NoCursor THEN 0
               ELSE IF cursor \notin ToSet(ordered) THEN Len(ordered) ELSE Position(ordered, cursor)
      items == SubSeq(ordered, start + 1, Min({start + limit, Len(ordered)}))
      more == start + Len(items) < Len(ordered) /\ items # <<>>
  IN  [items |-> items, next |-> IF more THEN Last(items) ELSE NoCursor]

\* A cursor that is gone starts the walk again.
Paginate(ordered, limit, cursor) ==
  LET start == IF cursor \in ToSet(ordered) THEN Position(ordered, cursor) ELSE 0
      items == SubSeq(ordered, start + 1, Min({start + limit, Len(ordered)}))
      more == start + Len(items) < Len(ordered) /\ items # <<>>
  IN  [items |-> items, next |-> IF more THEN Last(items) ELSE NoCursor]

-----------------------------------------------------------------------------
(* query.  config is the view's [filters, sorts, groupBy]; filters may be  *)
(* an empty conjunction and groupBy NoGroup.  Rows are positions in table. *)
(* A view may still name a property that is deleted: Gone stands for any.  *)
NoGroup == "none"
Gone == "gone"
PropertyOf(context, id) ==
  IF \E p \in ToSet(context.properties) : p.id = id
  THEN CHOOSE p \in ToSet(context.properties) : p.id = id
  ELSE [id |-> id, name |-> id, type |-> "text", config |-> Plain]
Refused == [refused |-> TRUE]   \* a 400: some condition throws

\* values: the rows' values by property.  verdicts: what the filter says of each row.
Values(table, rows, property, context) ==
  [i \in ToSet(rows) |-> [id \in DOMAIN property |-> RowValue(property[id], table[i], context)]]
Verdicts(filters, property, values, now) ==
  LET types == [id \in DOMAIN property |-> property[id].type]
  IN  [i \in DOMAIN values |-> FilterVerdict(filters, types, values[i], now)]
GroupsOf(rows, property, values, groupBy) ==
  IF groupBy = NoGroup THEN <<>>
  ELSE GroupRows(rows, property[groupBy], [i \in DOMAIN values |-> values[i][groupBy]])

Answer(groups, page) == [rows |-> page.items, groups |-> groups, next |-> page.next]
AnswerSorted(rows, property, values, config, limit, cursor) ==
  Answer(GroupsOf(rows, property, values, config.groupBy), Paginate(rows, limit, cursor))
AnswerLoaded(rows, property, values, verdicts, config, limit, cursor) ==
  IF \E i \in ToSet(rows) : verdicts[i] = "throws" THEN Refused
  ELSE AnswerSorted(SortRows(Picked(rows, {a \in DOMAIN rows : verdicts[rows[a]] = "yes"}), config.sorts, property, values),
                    property, values, config, limit, cursor)
AnswerComputed(rows, property, values, context, config, limit, cursor) ==
  AnswerLoaded(rows, property, values, Verdicts(config.filters, property, values, context.now), config, limit, cursor)
Query(table, context, config, limit, cursor) ==
  LET property == [id \in {p.id : p \in ToSet(context.properties)} \cup {Gone} |-> PropertyOf(context, id)]
      rows == LoadRows(table)
  IN  AnswerComputed(rows, property, Values(table, rows, property, context), context, config, limit, cursor)
=============================================================================
