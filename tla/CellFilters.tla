---------------------------- MODULE CellFilters -----------------------------
(***************************************************************************)
(* The conditions a view filters its rows by, one per type of column, and  *)
(* the groups it puts them into (packages/db-engine/src/filter.ts and      *)
(* group.ts).  An operator its type does not know throws.                  *)
(***************************************************************************)
EXTENDS CellValues

Verdict(b) == IF b THEN "yes" ELSE "no"

EmptinessOps == {"is_empty", "is_not_empty"}
Emptiness(op, v) == Verdict(IsEmpty(v) = (op = "is_empty"))

TrueWord == <<20, 18, 21, 5>>
FalseWord == <<6, 1, 12, 19, 5>>
Comma == 60
Json == 61   \* what anything else prints as, in JSON
\* The texts with a comma between each two.
Joined(texts) ==
  LET upTo[n \in 0 .. Len(texts)] ==
        IF n = 0 THEN <<>> ELSE IF n = 1 THEN texts[1] ELSE upTo[n - 1] \o <<Comma>> \o texts[n]
  IN  upTo[Len(texts)]

TextItems(v) == Picked(v.items, {i \in DOMAIN v.items : Is(v.items[i], "text")})
Printed(v) ==
  IF Is(v, "text") THEN v.text
  ELSE IF Is(v, "num") THEN <<NumberPrint + v.num>>
  ELSE IF Is(v, "flag") THEN (IF v.flag THEN TrueWord ELSE FalseWord)
  ELSE <<Json>>
AsText(v) ==
  IF Is(v, "items") THEN Joined([i \in DOMAIN v.items |-> Printed(v.items[i])])
  ELSE IF Is(v, "start") THEN v.start.text
  ELSE IF Is(v, "null") THEN <<>> ELSE Printed(v)

Includes(s, t) == \E i \in 0 .. Len(s) - Len(t) : SubSeq(s, i + 1, i + Len(t)) = t

EvalText(op, v, operand) ==
  LET s == LowerCase(AsText(v))
      t == LowerCase(AsText(operand))
  IN  CASE op \in EmptinessOps -> Emptiness(op, v)
        [] op = "equals" -> Verdict(s = t)
        [] op = "not_equals" -> Verdict(s # t)
        [] op = "contains" -> Verdict(Includes(s, t))
        [] op = "not_contains" -> Verdict(~Includes(s, t))
        [] op = "starts_with" -> Verdict(IsPrefix(t, s))
        [] op = "ends_with" -> Verdict(IsSuffix(t, s))
        [] OTHER -> "throws"

\* Number(operand): null and "" are 0, what is no number is NaN.
Numeric(x) ==
  \/ Is(x, "num") \/ Is(x, "flag") \/ Is(x, "null")
  \/ Is(x, "text") /\ (x.text = <<>> \/ IsNumberText(x.text))
AsNumber(x) ==
  CASE Is(x, "num") -> x.num
    [] Is(x, "flag") /\ x.flag -> Unit
    [] Is(x, "text") /\ IsNumberText(x.text) -> NumberIn(x.text)
    [] OTHER -> 0

\* A missing number satisfies no comparison but not_equals.
EvalNumber(op, v, operand) ==
  LET n == v.num
      target == AsNumber(operand)
  IN  IF op \in EmptinessOps THEN Emptiness(op, v)
      ELSE IF ~Is(v, "num") \/ ~Numeric(operand)
      THEN Verdict(op = "not_equals" /\ Numeric(operand))
      ELSE CASE op = "equals" -> Verdict(n = target)
             [] op = "not_equals" -> Verdict(n # target)
             [] op = "greater_than" -> Verdict(n > target)
             [] op = "greater_than_or_equal" -> Verdict(n >= target)
             [] op = "less_than" -> Verdict(n < target)
             [] op = "less_than_or_equal" -> Verdict(n <= target)
             [] OTHER -> "throws"

AnyOf(operand) == IF Is(operand, "items") THEN ToSet(operand.items) ELSE {}

EvalSelect(op, v, operand) ==
  CASE op \in EmptinessOps -> Emptiness(op, v)
    [] op = "equals" -> Verdict(Is(v, "text") /\ v = operand)
    [] op = "not_equals" -> Verdict(~(Is(v, "text") /\ v = operand))
    [] op = "is_any_of" -> Verdict(Is(v, "text") /\ v \in AnyOf(operand))
    [] OTHER -> "throws"

Membership(v) ==
  IF Is(v, "text") THEN {v} ELSE IF Is(v, "items") THEN ToSet(TextItems(v)) ELSE {}

EvalMultiMembership(op, v, operand) ==
  CASE op = "is_empty" -> Verdict(Membership(v) = {})
    [] op = "is_not_empty" -> Verdict(Membership(v) # {})
    [] op = "contains" -> Verdict(Is(operand, "text") /\ operand \in Membership(v))
    [] op = "not_contains" -> Verdict(~(Is(operand, "text") /\ operand \in Membership(v)))
    [] op = "is_any_of" -> Verdict(Membership(v) \cap AnyOf(operand) # {})
    [] OTHER -> "throws"

\* Days and weeks of instants since the epoch, a Thursday; weeks begin on Monday.
DayLength == 2
Forever == 100000
StartOfDay(t) == (t \div DayLength) * DayLength
StartOfWeek(t) == StartOfDay(t) - (((t \div DayLength) + 3) % 7) * DayLength
\* [The past reaches to this moment.]
RelativeRangeToNow(op, now) ==
  LET today == StartOfDay(now)
  IN  CASE op = "is_today" -> <<today, today + DayLength>>
        [] op = "is_yesterday" -> <<today - DayLength, today>>
        [] op = "is_tomorrow" -> <<today + DayLength, today + 2 * DayLength>>
        [] op = "is_this_week" -> <<StartOfWeek(now), StartOfWeek(now) + 7 * DayLength>>
        [] op = "is_past" -> <<-Forever, now>>
        [] op = "is_future" -> <<today + DayLength, Forever>>
        [] OTHER -> <<>>
\* The instants the relative operators mean; the past and the future leave today out.
RelativeRange(op, now) ==
  LET today == StartOfDay(now)
  IN  CASE op = "is_today" -> <<today, today + DayLength>>
        [] op = "is_yesterday" -> <<today - DayLength, today>>
        [] op = "is_tomorrow" -> <<today + DayLength, today + 2 * DayLength>>
        [] op = "is_this_week" -> <<StartOfWeek(now), StartOfWeek(now) + 7 * DayLength>>
        [] op = "is_past" -> <<-Forever, today>>
        [] op = "is_future" -> <<today + DayLength, Forever>>
        [] OTHER -> <<>>
OperandMs(x) == IF Is(x, "num") THEN x.num ELSE DateMs(x)

\* A missing date satisfies nothing but is_empty.
EvalDate(op, v, operand, now) ==
  LET t == DateMs(v)
      range == RelativeRange(op, now)
      target == OperandMs(operand)
  IN  IF op \in EmptinessOps THEN Emptiness(op, v)
      ELSE IF t = NotADate THEN "no"
      ELSE IF range # <<>> THEN Verdict(range[1] <= t /\ t < range[2])
      ELSE IF target = NotADate THEN "no"
      ELSE CASE op = "equals" -> Verdict(t = target)
             [] op = "before" -> Verdict(t < target)
             [] op = "after" -> Verdict(t > target)
             [] op = "on_or_before" -> Verdict(t <= target)
             [] op = "on_or_after" -> Verdict(t >= target)
             [] OTHER -> "throws"

Truthy(x) ==
  \/ Is(x, "flag") /\ x.flag
  \/ Is(x, "num") /\ x.num # 0
  \/ Is(x, "text") /\ x.text # <<>>
  \/ Is(x, "items") \/ Is(x, "start")

EvalCheckbox(op, v, operand) ==
  CASE op = "equals" -> Verdict((v = Flag(TRUE)) = Truthy(operand))
    [] op = "checked" -> Verdict(v = Flag(TRUE))
    [] op = "unchecked" -> Verdict(v # Flag(TRUE))
    [] OTHER -> "throws"

\* A formula or a rollup is compared as what it came out as.
EvalCondition(type, op, v, operand, now) ==
  LET computed == type \in {"formula", "rollup"}
  IN  CASE type = "number" \/ (computed /\ Is(v, "num")) -> EvalNumber(op, v, operand)
        [] type = "checkbox" \/ (computed /\ Is(v, "flag")) -> EvalCheckbox(op, v, operand)
        [] type \in {"multi_select", "person", "relation", "created_by", "last_edited_by"}
             \/ (computed /\ Is(v, "items")) -> EvalMultiMembership(op, v, operand)
        [] type \in DateTypes \/ (computed /\ Is(v, "start")) -> EvalDate(op, v, operand, now)
        [] type \in SelectTypes -> EvalSelect(op, v, operand)
        [] type \in TextTypes \/ (computed /\ (Is(v, "text") \/ Is(v, "null"))) -> EvalText(op, v, operand)
        [] OTHER -> "throws"

\* The operators the filter builder offers for a type (FILTER_OPERATORS).
Comparisons == {"greater_than", "greater_than_or_equal", "less_than", "less_than_or_equal"}
OperatorsForType(type) ==
  CASE type = "number" -> EmptinessOps \cup Comparisons \cup {"equals", "not_equals"}
    [] type \in SelectTypes -> EmptinessOps \cup {"equals", "not_equals"}
    [] type \in {"multi_select", "person", "relation", "created_by", "last_edited_by"}
         -> EmptinessOps \cup {"contains", "not_contains"}
    [] type \in DateTypes -> EmptinessOps \cup {"equals", "before", "after", "on_or_before", "on_or_after"}
    [] type = "checkbox" -> {"equals"}
    [] OTHER -> EmptinessOps
         \cup {"equals", "not_equals", "contains", "not_contains", "starts_with", "ends_with"}

-----------------------------------------------------------------------------
(* The columns of a board (group.ts, boardMove.ts).                        *)
EmptyKey == Text(<<>>)

\* The groups a value puts its row into.  A checkbox is never empty.
KeysFor(type, v) ==
  IF type = "checkbox" THEN <<Flag(v = Flag(TRUE))>>
  ELSE IF IsEmpty(v) THEN <<EmptyKey>>
  ELSE IF type \in {"multi_select", "person", "relation"} /\ Is(v, "items") THEN TextItems(v)
  ELSE IF Is(v, "text") THEN <<v>> ELSE <<EmptyKey>>

\* What a card dropped into the column of this key asks to store.
MoveCardValue(key) == IF key = EmptyKey THEN Null ELSE key
=============================================================================
