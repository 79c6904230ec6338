------------------------------ MODULE Formula -------------------------------
(***************************************************************************)
(* The formula language (packages/db-engine/src/formula-parser.ts,         *)
(* formula-ast.ts, formula-eval.ts): tokens to a tree by recursive         *)
(* descent, a tree to a value.                                             *)
(*                                                                         *)
(* A token is a record: [num |-> n], [quoted |-> w], [ident |-> w],        *)
(* [op |-> o] or [mark |-> m] for parentheses and commas.  Identifiers are *)
(* in lower case here; the word w of a quoted token stands for the text    *)
(* Spelling[w].                                                            *)
(***************************************************************************)
EXTENDS QueryEngine

CONSTANTS MaxNesting,   \* MAX_NESTING_DEPTH
          Spelling      \* the texts the words of string literals stand for

Op(o) == [op |-> o]
Word(w) == [ident |-> w]
Mark(m) == [mark |-> m]
EndOfInput == Mark("eof")
TokenAt(ts, i) == IF i \in DOMAIN ts THEN ts[i] ELSE EndOfInput

Literal(v) == [literal |-> v]
Quote(w) == [literal |-> Text(Spelling[w]), word |-> w]
Prop(name) == [prop |-> name]
Unary(op, operand) == [unary |-> op, operand |-> operand]
Binary(op, left, right) == [binary |-> op, left |-> left, right |-> right]
Call(name, args) == [call |-> name, args |-> args]

\* [Sums and products on one level.]
LevelsFlat == << {Word("or"), Op("||")},
                 {Word("and"), Op("&&")},
                 {Op("=="), Op("!="), Op("<"), Op("<="), Op(">"), Op(">=")},
                 {Op("+"), Op("-"), Op("*"), Op("/"), Op("%")} >>
\* The binary operators, loosest first.
Levels == << {Word("or"), Op("||")},
             {Word("and"), Op("&&")},
             {Op("=="), Op("!="), Op("<"), Op("<="), Op(">"), Op(">=")},
             {Op("+"), Op("-")},
             {Op("*"), Op("/"), Op("%")} >>
UnaryOps == {Op("-"), Word("not")}
Name(token) ==
  CASE token \in Levels[1] -> "or"
    [] token \in Levels[2] -> "and"
    [] token = Word("not") -> "not"
    [] OTHER -> token.op

Parsed(ast, at) == [ast |-> ast, at |-> at]
Failed(at) == [failed |-> at]   \* a FormulaParseError at this token

RECURSIVE ParseLevel(_, _, _, _), ParseRest(_, _, _, _), ParseUnary(_, _, _),
          ParsePrimary(_, _, _), ParseArgs(_, _, _, _)

\* parseOr (level 1, which counts the nesting) down to parseMultiplicative.
ParseLevel(ts, level, i, depth) ==
  IF level > Len(Levels) THEN ParseUnary(ts, i, depth)
  ELSE IF level = 1 /\ depth = MaxNesting THEN Failed(0)
  ELSE LET inner == IF level = 1 THEN depth + 1 ELSE depth
           left == ParseLevel(ts, level + 1, i, inner)
       IN  IF Is(left, "failed") THEN left ELSE ParseRest(ts, level, left, inner)

\* The loop of each level: operators of one level associate to the left.
ParseRest(ts, level, left, depth) ==
  LET token == TokenAt(ts, left.at)
      right == ParseLevel(ts, level + 1, left.at + 1, depth)
  IN  IF token \notin Levels[level] THEN left
      ELSE IF Is(right, "failed") THEN right
      ELSE ParseRest(ts, level, Parsed(Binary(Name(token), left.ast, right.ast), right.at), depth)

ParseUnary(ts, i, depth) ==
  LET operand == ParseUnary(ts, i + 1, depth)
  IN  IF TokenAt(ts, i) \notin UnaryOps THEN ParsePrimary(ts, i, depth)
      ELSE IF Is(operand, "failed") THEN operand
      ELSE Parsed(Unary(Name(ts[i]), operand.ast), operand.at)

\* The arguments of a call up to its closing parenthesis.
ParseArgs(ts, i, args, depth) ==
  LET arg == ParseLevel(ts, 1, i, depth)
  IN  IF Is(arg, "failed") THEN arg
      ELSE IF TokenAt(ts, arg.at) = Mark(",") THEN ParseArgs(ts, arg.at + 1, Append(args, arg.ast), depth)
      ELSE IF TokenAt(ts, arg.at) = Mark(")") THEN Parsed(Append(args, arg.ast), arg.at + 1)
      ELSE Failed(arg.at)

\* A parenthesis, a literal, a call, or a name, which is a property's.
ParsePrimary(ts, i, depth) ==
  LET token == TokenAt(ts, i)
      group == ParseLevel(ts, 1, i + 1, depth)
      args == IF TokenAt(ts, i + 2) = Mark(")") THEN Parsed(<<>>, i + 3) ELSE ParseArgs(ts, i + 2, <<>>, depth)
  IN  CASE token = Mark("(") ->
             IF Is(group, "failed") THEN group
             ELSE IF TokenAt(ts, group.at) # Mark(")") THEN Failed(group.at)
             ELSE Parsed(group.ast, group.at + 1)
        [] Is(token, "num") -> Parsed(Literal(Num(token.num)), i + 1)
        [] Is(token, "quoted") -> Parsed(Quote(token.quoted), i + 1)
        [] token \in {Word("true"), Word("false")} -> Parsed(Literal(Flag(token = Word("true"))), i + 1)
        [] Is(token, "ident") /\ token \notin {Word("true"), Word("false")} ->
             IF TokenAt(ts, i + 1) # Mark("(") THEN Parsed(Prop(token.ident), i + 1)
             ELSE IF Is(args, "failed") THEN args
             ELSE IF token # Word("prop") THEN Parsed(Call(token.ident, args.ast), args.at)
             ELSE IF Len(args.ast) = 1 /\ Is(args.ast[1], "word")
             THEN Parsed(Prop(args.ast[1].word), args.at)
             ELSE Failed(0)
        [] OTHER -> Failed(i)

\* Nothing may follow the formula.
AtEnd(ts, expr) ==
  IF Is(expr, "failed") \/ TokenAt(ts, expr.at) = EndOfInput THEN expr ELSE Failed(expr.at)
ParseFormula(ts) == AtEnd(ts, ParseLevel(ts, 1, 1, 0))

-----------------------------------------------------------------------------
(* Evaluation.  Error is what any exception becomes; it is strict in every *)
(* operand that is evaluated.                                              *)
Error == [error |-> TRUE]

Magnitude(n) == IF n < 0 THEN -n ELSE n
\* Division that truncates toward zero, and its remainder.
Truncated(a, b) ==
  LET q == Magnitude(a) \div Magnitude(b) IN IF (a < 0) = (b < 0) THEN q ELSE -q

LooseEq(l, r) ==
  IF Is(l, "text") \/ Is(r, "text") THEN AsText(l) = AsText(r)
  ELSE IF Is(l, "flag") \/ Is(r, "flag") THEN Truthy(l) = Truthy(r)
  ELSE AsNumber(l) = AsNumber(r)

Compare(l, r) ==
  IF Is(l, "text") \/ Is(r, "text") THEN Lexical(AsText(l), AsText(r)) ELSE AsNumber(l) - AsNumber(r)

ApplyBinary(op, l, r) ==
  LET a == AsNumber(l)
      b == AsNumber(r)
  IN  CASE op = "==" -> Flag(LooseEq(l, r))
        [] op = "!=" -> Flag(~LooseEq(l, r))
        [] op = "<" -> Flag(Compare(l, r) < 0)
        [] op = "<=" -> Flag(Compare(l, r) <= 0)
        [] op = ">" -> Flag(Compare(l, r) > 0)
        [] op = ">=" -> Flag(Compare(l, r) >= 0)
        [] op = "+" /\ (Is(l, "text") \/ Is(r, "text")) -> Text(AsText(l) \o AsText(r))
        [] OTHER ->
             IF ~Numeric(l) \/ ~Numeric(r) \/ (op \in {"/", "%"} /\ b = 0) THEN Error
             ELSE CASE op = "+" -> Num(a + b)
                    [] op = "-" -> Num(a - b)
                    [] op = "*" -> Num(Truncated(a * b, Unit))
                    [] op = "/" -> Num(Truncated(a * Unit, b))
                    [] op = "%" -> Num(a - Truncated(a, b) * b)

\* How many arguments a function takes; any number of texts for concat.
Arity(name) ==
  CASE name \in {"not", "empty", "length", "upper", "lower", "abs", "floor", "ceil"} -> 1..1
    [] name = "contains" -> 2..2
    [] name = "round" -> 1..2
    [] name = "now" -> 0..0
    [] name \in {"min", "max"} -> 1..99
    [] name = "concat" -> 0..99
    [] OTHER -> {}

UpperCase(s) == [i \in DOMAIN s |-> IF s[i] \in 1..26 THEN s[i] + 26 ELSE s[i]]
CallFunction(name, args, now) ==
  LET numbers == [i \in DOMAIN args |-> AsNumber(args[i])]
      n == numbers[1]
      s == AsText(args[1])
  IN  CASE name = "not" -> Flag(~Truthy(args[1]))
        [] name = "empty" -> Flag(args[1] \in {Null, Text(<<>>)})
        [] name = "concat" -> Text(FoldLeft(LAMBDA out, v : out \o AsText(v), <<>>, args))
        [] name = "length" -> Num(Len(s) * Unit)
        [] name = "upper" -> Text(UpperCase(s))
        [] name = "lower" -> Text(LowerCase(s))
        [] name = "contains" -> Flag(Includes(s, AsText(args[2])))
        [] name = "now" -> Iso(now)
        [] OTHER ->
             IF \E v \in ToSet(args) : ~Numeric(v) THEN Error
             ELSE CASE name = "abs" -> Num(Magnitude(n))
                    [] name = "floor" -> Num((n \div Unit) * Unit)
                    [] name = "ceil" -> Num(-((-n) \div Unit) * Unit)
                    [] name = "round" ->
                         Num(IF Len(args) = 2 /\ numbers[2] > 0 THEN n ELSE Rounded(n, [place |-> Unit]))
                    [] name = "min" -> Num(Least(numbers))
                    [] name = "max" -> Num(Greatest(numbers))

\* env gives each known name its value, Error for one that has none.
RECURSIVE Eval(_, _, _)
Eval(ast, env, now) ==
  CASE Is(ast, "literal") -> ast.literal
    [] Is(ast, "prop") -> IF ast.prop \in DOMAIN env THEN env[ast.prop] ELSE Error
    [] Is(ast, "unary") ->
         LET v == Eval(ast.operand, env, now)
         IN  IF v = Error THEN Error
             ELSE IF ast.unary = "not" THEN Flag(~Truthy(v))
             ELSE IF Numeric(v) THEN Num(-AsNumber(v)) ELSE Error
    [] Is(ast, "binary") ->
         LET l == Eval(ast.left, env, now)
             r == Eval(ast.right, env, now)
             decided == ast.binary \in {"and", "or"} /\ Truthy(l) = (ast.binary = "or")
         IN  IF l = Error THEN Error
             ELSE IF decided THEN Flag(ast.binary = "or")
             ELSE IF r = Error THEN Error
             ELSE IF ast.binary \in {"and", "or"} THEN Flag(Truthy(r))
             ELSE ApplyBinary(ast.binary, l, r)
    [] Is(ast, "call") ->
         LET args == [i \in DOMAIN ast.args |-> Eval(ast.args[i], env, now)]
         IN  IF ast.call = "if"
             THEN IF Len(args) # 3 \/ args[1] = Error THEN Error
                  ELSE IF Truthy(args[1]) THEN args[2] ELSE args[3]
             ELSE IF Error \in ToSet(args) \/ Len(args) \notin Arity(ast.call) THEN Error
             ELSE CallFunction(ast.call, args, now)
\* A formula that does not parse is an error.
Evaluate(parsed, env, now) == IF Is(parsed, "failed") THEN Error ELSE Eval(parsed.ast, env, now)
=============================================================================
