------------------------------ MODULE SortKey ------------------------------
(***************************************************************************)
(* Sibling order: apps/api/src/pages/sort-key.ts over the fractional-      *)
(* indexing library.  A key of that library is an integer part and a       *)
(* fraction; here it is the integer  part * KeyUnit + fraction, so that    *)
(* KeyUnit is the number of fractions between two integer parts.  The real *)
(* fraction is a string of any length: KeyUnit must exceed 2^n when n keys *)
(* are generated, and then no midpoint is lost.                            *)
(***************************************************************************)
EXTENDS Integers

CONSTANTS
  KeyUnit,  \* fractions per integer part
  Null      \* TypeScript's null: no key, no parent, no cursor

ASSUME KeyUnitAssumption == KeyUnit \in Nat \ {0, 1}
ASSUME NullAssumption == Null \notin Int

MaybeKey == Int \cup {Null}

(***************************************************************************)
(* generateKeyBetween(lower, upper).  Equal or inverted bounds make the    *)
(* library throw.  Otherwise it prefers the next integer part, and takes a *)
(* midpoint of the fractions only when that is not below the upper bound.  *)
(***************************************************************************)
Ordered(lower, upper) == lower = Null \/ upper = Null \/ lower < upper

NextUnit(k) == ((k \div KeyUnit) + 1) * KeyUnit
PrevUnit(k) == ((k - 1) \div KeyUnit) * KeyUnit

KeyBetween(lower, upper) ==
  IF lower = Null
  THEN IF upper = Null THEN 0 ELSE PrevUnit(upper)
  ELSE IF upper = Null \/ NextUnit(lower) < upper THEN NextUnit(lower)
       ELSE (lower + upper) \div 2

(***************************************************************************)
(* The edges of a set of keys, as singletons: {Null} stands for "none".    *)
(***************************************************************************)
Highest(K) == IF K = {} THEN {Null} ELSE {k \in K : \A j \in K : j <= k}
Lowest(K)  == IF K = {} THEN {Null} ELSE {k \in K : \A j \in K : k <= j}

(***************************************************************************)
(* The bounds computeSortKey derives for the siblings S with keys key[_].  *)
(* An anchor is [side, page]: side "before" for beforeId (the page to come *)
(* after), "after" for afterId, "end" for neither.  The rows come from     *)
(* findMany without an order and are sorted by key alone, so that a        *)
(* sibling with the anchor's own key may land on either side of it: the    *)
(* neighbour is then the tie or the next distinct key, whichever the       *)
(* database's row order makes it.                                          *)
(***************************************************************************)
KeysOf(S, key) == {key[q] : q \in S}

Ties(S, key, a) == {key[q] : q \in {s \in S \ {a} : key[s] = key[a]}}

NextKeys(S, key, a) ==
  Ties(S, key, a) \cup Lowest({k \in KeysOf(S, key) : k > key[a]})

PrevKeys(S, key, a) ==
  Ties(S, key, a) \cup Highest({k \in KeysOf(S, key) : k < key[a]})

\* Slip: the upper bound is forgotten, so that a page placed after an anchor
\* lands after the anchor's successors too.
BoundsNoUpper(S, key, anchor) ==
  IF anchor.side = "end" THEN Highest(KeysOf(S, key)) \X {Null}
  ELSE IF anchor.page \notin S THEN {}
  ELSE IF anchor.side = "before" THEN {key[anchor.page]} \X {Null}
  ELSE PrevKeys(S, key, anchor.page) \X {key[anchor.page]}

Bounds(S, key, anchor) ==
  IF anchor.side = "end" THEN Highest(KeysOf(S, key)) \X {Null}
  ELSE IF anchor.page \notin S THEN {}
  ELSE IF anchor.side = "before"
       THEN {key[anchor.page]} \X NextKeys(S, key, anchor.page)
       ELSE PrevKeys(S, key, anchor.page) \X {key[anchor.page]}

\* The keys computeSortKey may return, and whether it may throw: the anchor
\* is no sibling, or the two bounds are not in order.
SortKeys(S, key, anchor) ==
  {KeyBetween(b[1], b[2]) :
     b \in {c \in Bounds(S, key, anchor) : Ordered(c[1], c[2])}}

SortKeyThrows(S, key, anchor) ==
  \/ Bounds(S, key, anchor) = {}
  \/ \E b \in Bounds(S, key, anchor) : ~Ordered(b[1], b[2])

=============================================================================
