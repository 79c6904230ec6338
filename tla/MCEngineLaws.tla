---------------------------- MODULE MCEngineLaws ----------------------------
(* Constants of the EngineLaws run. *)
EXTENDS EngineLaws

a == Text(<<1>>)
A == Text(<<27>>)
b == Text(<<2>>)

MCTokens == {[num |-> 1], [quoted |-> "x"], Word("x"), Word("prop"), Word("not"), Word("or"),
             Op("-"), Op("*"), Op("=="), Mark("("), Mark(")"), Mark(",")}
MCSpelling == [w \in {"x"} |-> <<24>>]
MCAtoms == {Null, Text(<<>>), a, A, b, Num(12), Num(-12), Num(30), Flag(TRUE), Iso(6), Iso(8), Iso(9), Iso(12)}

x == Word("x")
y == Word("y")
MCNames == {"x", "y", "z"}
MCExpressions == {<<[num |-> 12]>>, <<x>>, <<y>>, <<[ident |-> "z"], Op("+"), x>>,
                  <<Word("true"), Word("or"), y>>, <<Word("not"), x>>,
                  <<Word("if"), Mark("("), x, Mark(","), y, Mark(","), [ident |-> "z"], Mark(")")>>,
                  <<x, Op("*")>>}

Choice == [options |-> <<b, a>>]
MCSchema == << [id |-> "n", name |-> "n", type |-> "number", config |-> [place |-> 12]],
               [id |-> "t", name |-> "t", type |-> "text", config |-> Plain],
               [id |-> "s", name |-> "s", type |-> "select", config |-> Choice],
               [id |-> "m", name |-> "m", type |-> "multi_select", config |-> Choice],
               [id |-> "c", name |-> "c", type |-> "checkbox", config |-> Plain],
               [id |-> "d", name |-> "d", type |-> "date", config |-> Plain],
               [id |-> "o", name |-> "o", type |-> "date", config |-> [oneDay |-> TRUE]],
               [id |-> "w", name |-> "w", type |-> "person", config |-> Plain],
               [id |-> "f", name |-> "f", type |-> "files", config |-> Plain],
               [id |-> "l", name |-> "l", type |-> "relation", config |-> Plain],
               [id |-> "r", name |-> "r", type |-> "rollup",
                config |-> [relation |-> "l", target |-> "p", aggregation |-> "sum"]] >>
By(id, direction) == [property |-> id, direction |-> direction]
MCSortIds == {"n", "t", "s", "c", "r"}
MCSortings == {<<>>} \cup {<<By(id, d)>> : id \in MCSortIds, d \in {"asc", "desc"}}
  \cup {<<By("s", d), By("t", "asc")>> : d \in {"asc", "desc"}}
NoFilter == [conjunction |-> "and", conditions |-> <<>>]
Only(id, op) == [conjunction |-> "and", conditions |-> <<[property |-> id, operator |-> op, operand |-> Null]>>]
MCViews == {[filters |-> v[1], sorts |-> v[2], groupBy |-> g] :
              v \in {<<NoFilter, <<By("t", "asc")>>>>, <<Only("n", "is_not_empty"), <<By("n", "desc")>>>>, <<NoFilter, <<>>>>},
              g \in {"s", "m", "c", "l"}}
           \cup {[filters |-> Only("c", "contains"), sorts |-> <<>>, groupBy |-> NoGroup]}
MCTargets == <<[p |-> Num(12)], [p |-> Num(24)]>>
MCFillings ==
  { [cells |-> [n |-> Num(12), t |-> b, s |-> a, m |-> Items(<<a, b>>), c |-> Flag(TRUE)], links |-> [l |-> <<1, 2>>]],
    [cells |-> [n |-> Num(0), t |-> A, s |-> b, m |-> Items(<<a>>)], links |-> [l |-> <<2>>]],
    [cells |-> [t |-> a, s |-> a, c |-> Flag(FALSE)], links |-> [l |-> <<>>]] }
=============================================================================
