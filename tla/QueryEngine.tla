---------------------------- MODULE QueryEngine -----------------------------
(***************************************************************************)
(* Filter, sort, group and roll up: the pure engines the rows query runs   *)
(* (packages/db-engine/src/filter.ts, sort.ts, group.ts, rollup.ts).       *)
(*                                                                         *)
(* A property is a record [id, type, config]; a row is what value[p] says  *)
(* of each property id p.                                                  *)
(***************************************************************************)
EXTENDS CellFilters

-----------------------------------------------------------------------------
(* Sorting.                                                                *)
SortText(v) ==
  IF Is(v, "flag") THEN (IF v.flag THEN <<1>> ELSE <<0>>)
  ELSE IF Is(v, "items")
  THEN Joined([i \in DOMAIN v.items |-> IF Is(v.items[i], "text") THEN v.items[i].text ELSE <<>>])
  ELSE AsText(v)

\* Sign of the difference of two texts; Collate sets capitals aside.
Lexical(a, b) ==
  LET apart == {i \in (DOMAIN a) \cap (DOMAIN b) : a[i] # b[i]}
  IN  IF apart = {} THEN Len(a) - Len(b) ELSE a[Min(apart)] - b[Min(apart)]
Collate(a, b) == Lexical(LowerCase(a), LowerCase(b))

Position(s, e) == CHOOSE i \in DOMAIN s : s[i] = e

Bit(b) == IF b THEN 1 ELSE 0
\* What is no number or no date, or no option any more, is NaN or a text to compare.
CompareTyped(property, a, b) ==
  LET type == property.type
      known == OptionIds(property.config)
  IN  IF type = "number" THEN IF Is(a, "num") /\ Is(b, "num") THEN a.num - b.num ELSE 1
      ELSE IF type = "checkbox" THEN Bit(a = Flag(TRUE)) - Bit(b = Flag(TRUE))
      ELSE IF type \in DateTypes
      THEN IF NotADate \notin {DateMs(a), DateMs(b)} THEN DateMs(a) - DateMs(b) ELSE 1
      ELSE IF type \in SelectTypes /\ {a, b} \subseteq known
      THEN Position(property.config.options, a) - Position(property.config.options, b)
      ELSE Collate(SortText(a), SortText(b))

\* [The empties turn with the direction.]
CompareTurning(sort, property, a, b) ==
  LET sign == IF IsEmpty(a) /\ IsEmpty(b) THEN 0
              ELSE IF IsEmpty(a) THEN 1 ELSE IF IsEmpty(b) THEN -1
              ELSE CompareTyped(property, a, b)
  IN  IF sort.direction = "desc" THEN -sign ELSE sign

\* One sort key: empties last in both directions.
CompareKey(sort, property, a, b) ==
  IF IsEmpty(a) /\ IsEmpty(b) THEN 0
  ELSE IF IsEmpty(a) THEN 1
  ELSE IF IsEmpty(b) THEN -1
  ELSE IF sort.direction = "desc" THEN -CompareTyped(property, a, b)
  ELSE CompareTyped(property, a, b)

\* The keys in turn.
CompareRows(sorts, property, x, y) ==
  LET sign(k) == LET id == sorts[k].property IN CompareKey(sorts[k], property[id], x[id], y[id])
      apart == {k \in DOMAIN sorts : sign(k) # 0}
  IN  IF apart = {} THEN 0 ELSE sign(Min(apart))

\* values[row] holds the row's values by property.
SortRows(rows, sorts, property, values) ==
  LET sorted[n \in 0 .. Len(rows)] ==
        IF n = 0 THEN <<>>
        ELSE LET out == sorted[n - 1]
                 before ==
                   {i \in DOMAIN out : CompareRows(sorts, property, values[out[i]], values[rows[n]]) <= 0}
             IN  InsertAt(out, Cardinality(before) + 1, rows[n])
  IN  sorted[Len(rows)]

-----------------------------------------------------------------------------
(* Grouping.                                                               *)
\* Every key once: configured ones in their order, others as first seen, the empty last.
\* Every option has a group; a checkbox has one for what there is.
OrderedKeys(property, seen) ==
  LET configured == IF property.type = "checkbox" THEN <<Flag(TRUE), Flag(FALSE)>>
                    ELSE IF Is(property.config, "options") THEN property.config.options ELSE <<>>
      keys == ToSet(seen) \cup (IF property.type = "checkbox" THEN {} ELSE ToSet(configured))
  IN  Picked(configured, {i \in DOMAIN configured :
                            /\ configured[i] \in keys \ {EmptyKey}
                            /\ \A j \in i + 1 .. Len(configured) : configured[j] # configured[i]})
        \o Picked(seen, {i \in DOMAIN seen : /\ seen[i] \notin ToSet(configured) \cup {EmptyKey}
                                             /\ \A j \in 1 .. i - 1 : seen[j] # seen[i]})
        \o (IF EmptyKey \in keys THEN <<EmptyKey>> ELSE <<>>)

\* value[row] is the row's value of the property.
GroupRows(rows, property, value) ==
  LET keys(row) == KeysFor(property.type, value[row])
      seen[n \in 0 .. Len(rows)] == IF n = 0 THEN <<>> ELSE seen[n - 1] \o keys(rows[n])
      order == OrderedKeys(property, seen[Len(rows)])
  IN  [k \in DOMAIN order |->
         [key |-> order[k], rows |-> Picked(rows, {a \in DOMAIN rows : order[k] \in ToSet(keys(rows[a]))})]]

-----------------------------------------------------------------------------
(* Rollups over the values of the linked rows.                             *)
Sum(nums) ==
  LET upTo[n \in 0 .. Len(nums)] == IF n = 0 THEN 0 ELSE upTo[n - 1] + nums[n] IN upTo[Len(nums)]
Least(nums) == Min(ToSet(nums))
Greatest(nums) == Max(ToSet(nums))
NumbersOf(values) ==
  LET numeric == Picked(values, {i \in DOMAIN values : Is(values[i], "num")})
  IN  [n \in DOMAIN numeric |-> numeric[n].num]
DatesOf(values) ==
  LET dated == Picked(values, {i \in DOMAIN values : DateMs(values[i]) # NotADate})
  IN  [n \in DOMAIN dated |-> DateMs(dated[n])]
\* [The middle of the numbers as they come.]
MedianUnsorted(nums) ==
  LET mid == Len(nums) \div 2
  IN  IF Len(nums) % 2 = 1 THEN nums[mid + 1] ELSE (nums[mid] + nums[mid + 1]) \div 2
Median(nums) ==
  LET sorted == Arranged(nums, DOMAIN nums,
                  {p \in (DOMAIN nums) \X (DOMAIN nums) :
                     nums[p[1]] < nums[p[2]] \/ (nums[p[1]] = nums[p[2]] /\ p[1] < p[2])})
      mid == Len(sorted) \div 2
  IN  IF Len(nums) % 2 = 1 THEN sorted[mid + 1] ELSE (sorted[mid] + sorted[mid + 1]) \div 2

\* null when there is nothing to aggregate.
OrNull(nums, v) == IF nums = <<>> THEN Null ELSE v
Share(part, whole) == IF whole = 0 THEN Null ELSE Num((part * Unit) \div whole)
\* The parts of a cell that count: each element of a list.
Counted(v) == IF Is(v, "items") THEN v.items ELSE <<v>>

ComputeRollup(aggregation, values, type) ==
  LET total == Len(values)
      filled == Picked(values, {i \in DOMAIN values : ~IsEmpty(values[i])})
      checked == Cardinality({i \in DOMAIN values : values[i] = Flag(TRUE)})
      nums == NumbersOf(values)
      dates == DatesOf(values)
      dated == type \in DateTypes
  IN  CASE aggregation = "count" -> Num(total * Unit)
        [] aggregation = "count_values" -> Num(Sum([n \in DOMAIN filled |-> Len(Counted(filled[n]))]) * Unit)
        [] aggregation = "count_unique" -> Num(Cardinality(UNION {ToSet(Counted(v)) : v \in ToSet(filled)}) * Unit)
        [] aggregation = "count_empty" -> Num((total - Len(filled)) * Unit)
        [] aggregation = "count_not_empty" -> Num(Len(filled) * Unit)
        [] aggregation = "sum" -> Num(Sum(nums))
        [] aggregation = "avg" -> OrNull(nums, Num(Sum(nums) \div Len(nums)))
        [] aggregation = "median" -> OrNull(nums, Num(Median(nums)))
        [] aggregation = "earliest" \/ (aggregation = "min" /\ dated) -> OrNull(dates, Iso(Least(dates)))
        [] aggregation = "latest" \/ (aggregation = "max" /\ dated) -> OrNull(dates, Iso(Greatest(dates)))
        [] aggregation = "min" /\ ~dated -> OrNull(nums, Num(Least(nums)))
        [] aggregation = "max" /\ ~dated -> OrNull(nums, Num(Greatest(nums)))
        [] aggregation = "range" /\ dated -> OrNull(dates, Num(Greatest(dates) - Least(dates)))
        [] aggregation = "range" /\ ~dated -> OrNull(nums, Num(Greatest(nums) - Least(nums)))
        [] aggregation = "percent_checked" -> Share(checked, total)
        [] aggregation = "percent_unchecked" -> Share(total - checked, total)
        [] aggregation = "percent_empty" -> Share(total - Len(filled), total)
        [] aggregation = "percent_not_empty" -> Share(Len(filled), total)
        [] aggregation = "show_original" -> Items(values)
=============================================================================
