----------------------------- MODULE Evaluation -----------------------------
(***************************************************************************)
(* What recurses over a database's own data: formulas that name other      *)
(* columns (apps/api/src/databases/computed.ts), and filters that hold     *)
(* filters (packages/db-engine/src/filter.ts).                             *)
(***************************************************************************)
EXTENDS Formula, RowValues

CONSTANT MaxFormulaDepth   \* MAX_FORMULA_DEPTH

-----------------------------------------------------------------------------
(* RowComputer: formulas.  A name that two properties share is the later   *)
(* one's.                                                                  *)
Names(context) == {property.name : property \in ToSet(context.properties)}
Named(context, name) ==
  context.properties[Max({i \in DOMAIN context.properties : context.properties[i].name = name})]

\* What a formula sees of a cell or a rollup: a list counts.
Primitive(v) ==
  CASE Is(v, "items") -> Num(Len(v.items) * Unit)
    [] Is(v, "start") -> v.start
    [] OTHER -> v

RECURSIVE ResolveFormula(_, _, _, _, _), ResolveRef(_, _, _, _, _)

\* [A cycle reads as an empty cell.]
ResolveFormulaLenient(property, row, context, inFlight, depth) ==
  LET inner == inFlight \cup {property.id}
      env == [name \in Names(context) |-> ResolveRef(Named(context, name), row, context, inner, depth)]
  IN  IF property.id \in inFlight THEN Null
      ELSE Evaluate(ParseFormula(property.config.expression), env, context.now)

\* A formula that is being evaluated already, too deep or malformed is an error.
ResolveFormula(property, row, context, inFlight, depth) ==
  LET inner == inFlight \cup {property.id}
      env == [name \in Names(context) |-> ResolveRef(Named(context, name), row, context, inner, depth)]
  IN  IF depth > MaxFormulaDepth \/ property.id \in inFlight THEN Error
      ELSE Evaluate(ParseFormula(property.config.expression), env, context.now)

ResolveRef(property, row, context, inFlight, depth) ==
  CASE property.type = "formula" -> ResolveFormula(property, row, context, inFlight, depth + 1)
    [] property.type = "rollup" -> Primitive(ResolveRollup(property, row, context))
    [] property.type = "relation" -> Num(Len(LinkedRows(row, property.id)) * Unit)
    [] property.type \in PageFields -> PageField(property.type, row)
    [] OTHER -> Primitive(StoredCell(row, property.id))

\* The value the engines see of a property: an error is an empty cell.
NullIfError(v) == IF v = Error THEN Null ELSE v
ValueFor(property, row, context) ==
  IF property.type # "formula" THEN PlainValue(property, row, context)
  ELSE NullIfError(ResolveFormula(property, row, context, {}, 0))

-----------------------------------------------------------------------------
(* Filters.                                                                *)
\* A tree of conditions; one that throws fails the whole query.
RECURSIVE EvaluateFilter(_, _, _, _)
EvaluateFilter(node, types, value, now) ==
  IF ~Is(node, "conjunction")
  THEN EvalCondition(types[node.property], node.operator, value[node.property], node.operand, now)
  ELSE LET results == {EvaluateFilter(c, types, value, now) : c \in ToSet(node.conditions)}
       IN  IF "throws" \in results THEN "throws"
           ELSE IF node.conjunction = "and" THEN Verdict("no" \notin results)
           ELSE Verdict("yes" \in results)

=============================================================================
