------------------------------ MODULE RowValues ------------------------------
(***************************************************************************)
(* What the engines see of a row's properties, formulas aside              *)
(* (apps/api/src/databases/computed.ts RowComputer).                       *)
(*                                                                         *)
(* A row page is [parent, archived, cells, links, created, edited, author, *)
(* editor]: links[p] are the rows linked by relation p.  Those live in     *)
(* another table: targets[r][p] are their stored cells.  context is        *)
(* [properties, targets, types, now].                                      *)
(***************************************************************************)
EXTENDS QueryEngine

LinkId(r) == Text(<<200 + r>>)   \* the id of a row of the other table

StoredCell(row, id) == IF id \in DOMAIN row.cells THEN row.cells[id] ELSE Null
LinkedRows(row, id) == IF id \in DOMAIN row.links THEN row.links[id] ELSE <<>>
PageFields == {"created_time", "last_edited_time", "created_by", "last_edited_by"}
PageField(type, row) ==
  CASE type = "created_time" -> Iso(row.created)
    [] type = "last_edited_time" -> Iso(row.edited)
    [] type = "created_by" -> row.author
    [] type = "last_edited_by" -> IF row.editor = Null THEN row.author ELSE row.editor

\* A rollup reads stored cells only: of a computed target it sees nothing.
ResolveRollup(property, row, context) ==
  LET config == property.config
      linked == LinkedRows(row, config.relation)
      cell(r) == IF config.target \in DOMAIN context.targets[r] THEN context.targets[r][config.target] ELSE Null
  IN  ComputeRollup(config.aggregation, [i \in DOMAIN linked |-> cell(linked[i])], context.types[config.target])

\* The value the engines see of a property: a list of texts.
ListOfTexts(v) == IF Is(v, "items") THEN Items(TextItems(v)) ELSE v
PlainValue(property, row, context) ==
  LET linked == LinkedRows(row, property.id)
  IN  CASE property.type = "relation" -> Items([i \in DOMAIN linked |-> LinkId(linked[i])])
        [] property.type = "rollup" -> ListOfTexts(ResolveRollup(property, row, context))
        [] property.type \in PageFields -> PageField(property.type, row)
        [] OTHER -> StoredCell(row, property.id)
=============================================================================
