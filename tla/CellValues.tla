----------------------------- MODULE CellValues -----------------------------
(***************************************************************************)
(* The values a database cell holds and how a request's JSON becomes one   *)
(* (packages/db-engine/src/property-value.ts).                             *)
(*                                                                         *)
(* A value is a record whose one field tells its shape.  A number is       *)
(* counted in units of 1/Unit, so that the mean or the share of up to four *)
(* whole numbers is a number too.  A text is a sequence of characters:     *)
(* 1..26 are small letters, 27..52 their capitals, and a number or an      *)
(* instant prints as one character of its own.                             *)
(***************************************************************************)
EXTENDS Integers, Sequences, SequencesExt

Unit == 12
NumberPrint == 1000   \* the print of n is the character NumberPrint + n
IsoPrint == 5000      \* ... of the instant t, IsoPrint + t
Printable == -500 .. 500

Null == [null |-> TRUE]
Text(s) == [text |-> s]
Num(n) == [num |-> n]
Flag(b) == [flag |-> b]
Items(s) == [items |-> s]
Iso(t) == Text(<<IsoPrint + t>>)
Date(start) == [start |-> start]
DateRange(start, end) == [start |-> start, end |-> end]
File(url) == [url |-> url]
Invalid == [invalid |-> TRUE]   \* a CellValidationError

\* Value v has this shape.
Is(v, shape) == shape \in DOMAIN v

TextTypes == {"text", "url", "email", "phone"}
SelectTypes == {"select", "status"}
DateTypes == {"date", "created_time", "last_edited_time"}
ComputedTypes ==
  {"formula", "rollup", "created_time", "created_by", "last_edited_time", "last_edited_by"}
PropertyTypes ==
  TextTypes \cup SelectTypes \cup DateTypes \cup ComputedTypes
    \cup {"number", "multi_select", "person", "checkbox", "files", "relation"}

\* A cell nobody would call filled.  False and 0 are values.
IsEmpty(v) ==
  \/ Is(v, "null")
  \/ Is(v, "text") /\ v.text = <<>>
  \/ Is(v, "items") /\ v.items = <<>>

\* The instant a date or a text names; NotADate when it names none.
NotADate == -1000
InstantIn(s) == IF Len(s) = 1 /\ s[1] - IsoPrint \in Printable THEN s[1] - IsoPrint ELSE NotADate
DateMs(v) ==
  IF Is(v, "start") THEN InstantIn(v.start.text)
  ELSE IF Is(v, "text") THEN InstantIn(v.text) ELSE NotADate

\* What Number() makes of a text that prints a number.
IsNumberText(s) == Len(s) = 1 /\ s[1] - NumberPrint \in Printable
NumberIn(s) == s[1] - NumberPrint

LowerCase(s) == [i \in DOMAIN s |-> IF s[i] \in 27..52 THEN s[i] - 26 ELSE s[i]]

-----------------------------------------------------------------------------
(* Configurations: the ids of a select's options, the last decimal place a *)
(* number keeps (in units), whether a date may have an end.                *)
Plain == [none |-> TRUE]
OptionIds(config) == IF Is(config, "options") THEN ToSet(config.options) ELSE {}

\* The members of s at these places, as a strict order of the places has them.
RankIn(places, ahead, i) == Cardinality({k \in places : k = i \/ <<k, i>> \in ahead})
Nth(places, ahead, n) == CHOOSE i \in places : RankIn(places, ahead, i) = n
Arranged(s, places, ahead) == [n \in 1 .. Cardinality(places) |-> s[Nth(places, ahead, n)]]
Picked(s, places) == Arranged(s, places, {p \in places \X places : p[1] < p[2]})

\* The first occurrence of each member, in order.
Dedupe(s) == Picked(s, {i \in DOMAIN s : \A j \in 1 .. i - 1 : s[j] # s[i]})

\* Math.round(n * factor) / factor: the nearest multiple of the place, halves up.
Rounded(n, config) ==
  IF Is(config, "place")
  THEN ((2 * n + config.place) \div (2 * config.place)) * config.place
  ELSE n

NormalizeIsoDate(v) ==
  IF Is(v, "num") THEN Iso(v.num)
  ELSE IF Is(v, "text") /\ InstantIn(v.text) # NotADate THEN v
  ELSE Invalid

ValidateNumber(config, v) ==
  IF Is(v, "num") THEN Num(Rounded(v.num, config))
  ELSE IF Is(v, "text") /\ IsNumberText(v.text) THEN Num(Rounded(NumberIn(v.text), config))
  ELSE Invalid

\* [No choice kept as an empty text.]
ValidateSelectKeeping(config, v) ==
  IF Is(v, "text") /\ v \in OptionIds(config) \cup {Text(<<>>)} THEN v ELSE Invalid

ValidateSelect(config, v) ==
  IF ~Is(v, "text") THEN Invalid
  ELSE IF v.text = <<>> THEN Null
  ELSE IF v \in OptionIds(config) THEN v ELSE Invalid

\* multi_select and person: a list of known members, each kept once.
ListMember(type, config, e) ==
  Is(e, "text") /\ IF type = "person" THEN e.text # <<>> ELSE e \in OptionIds(config)
ValidateList(type, config, v) ==
  IF ~Is(v, "items") \/ \E e \in ToSet(v.items) : ~ListMember(type, config, e) THEN Invalid
  ELSE IF v.items = <<>> THEN Null ELSE Items(Dedupe(v.items))

ValidateDate(config, v) ==
  IF Is(v, "text") \/ Is(v, "num")
  THEN IF NormalizeIsoDate(v) = Invalid THEN Invalid ELSE Date(NormalizeIsoDate(v))
  ELSE IF ~Is(v, "start") THEN Invalid
  ELSE IF v.start = Null THEN Null
  ELSE LET start == NormalizeIsoDate(v.start)
           ends == Is(v, "end") /\ v.end # Null
           end == NormalizeIsoDate(v.end)
       IN  IF start = Invalid THEN Invalid
           ELSE IF ~ends THEN Date(start)
           ELSE IF Is(config, "oneDay") \/ end = Invalid \/ DateMs(end) < DateMs(start)
                THEN Invalid ELSE DateRange(start, end)

\* A file is a url or an object that has one.
FileOf(e) == IF Is(e, "text") THEN File(e.text) ELSE e
ValidateFiles(v) ==
  IF ~Is(v, "items") THEN Invalid
  ELSE LET files == [i \in DOMAIN v.items |-> FileOf(v.items[i])]
       IN  IF \E f \in ToSet(files) : ~Is(f, "url") \/ f.url = <<>> THEN Invalid
           ELSE IF files = <<>> THEN Null ELSE Items(files)

\* What setCell stores for this JSON, or Invalid.
ValidateCellValue(type, config, v) ==
  IF type \in ComputedTypes \cup {"relation"} THEN Invalid
  ELSE IF v = Null THEN IF type = "checkbox" THEN Flag(FALSE) ELSE Null
  ELSE CASE type \in TextTypes -> IF ~Is(v, "text") THEN Invalid ELSE IF v.text = <<>> THEN Null ELSE v
         [] type = "number" -> ValidateNumber(config, v)
         [] type = "checkbox" -> IF Is(v, "flag") THEN v ELSE Invalid
         [] type \in SelectTypes -> ValidateSelect(config, v)
         [] type \in {"multi_select", "person"} -> ValidateList(type, config, v)
         [] type = "date" -> ValidateDate(config, v)
         [] type = "files" -> ValidateFiles(v)
=============================================================================
