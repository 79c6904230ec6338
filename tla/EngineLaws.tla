----------------------------- MODULE EngineLaws -----------------------------
(***************************************************************************)
(* What the pure engines of databases and of the sidebar promise, stated   *)
(* against definitions that do not look at how they compute it: a grammar, *)
(* a least fixpoint, a rank, a set of rows, a tree with a page put in it.  *)
(* The machine only builds inputs, one piece at a time: a token, a JSON    *)
(* value, a formula property, a row page, a page of the tree, a block of a *)
(* Markdown file.                                                          *)
(***************************************************************************)
EXTENDS CellLaws, Evaluation, PageView, MarkdownImport

CONSTANTS Tokens, MaxTokens,         \* formulas as token sequences
          FormulaNames, Expressions, MaxFormulas,
          MaxPages,
          MaxPieces                  \* tokens of a Markdown file, a block or a step in or out at a time

Subjects == {"formula", "cell", "refs", "rows", "pages", "markdown"}
Init == about \in Subjects /\ input = <<>>

\* A sequence of tokens that some further token could complete, one longer.
Viable(ts) == LET p == ParseFormula(ts) IN Is(p, "failed") => p.failed = Len(ts) + 1
TypeToken ==
  /\ about = "formula" /\ Len(input) < MaxTokens /\ Viable(input)
  /\ \E t \in Tokens : input' = Append(input, t)
  /\ UNCHANGED about
AddFormula ==
  /\ about = "refs" /\ Len(input) < MaxFormulas
  /\ \E name \in FormulaNames, expression \in Expressions :
       input' = Append(input, [id |-> Len(input) + 1, name |-> name, type |-> "formula",
                               config |-> [expression |-> expression]])
  /\ UNCHANGED about
AddPage ==
  /\ about = "pages" /\ Len(input) < MaxPages
  /\ \E parent \in {Away, Top} \cup DOMAIN input, key \in 1 .. MaxPages :
       /\ \A p \in DOMAIN input : <<input[p].parent, input[p].key>> # <<parent, 10 * key>>
       /\ input' = Append(input, [parent |-> parent, key |-> 10 * key])
  /\ UNCHANGED about
\* What markdown-it makes of a file, with fresh words: input is the pieces up to here.
Inlines(word) ==
  LET text(n) == [type |-> "text", content |-> Wording(n)]
      mark(type) == [type |-> type]
      image == [type |-> "image", src |-> word]
  IN  { <<text(word)>>,
        <<image>>,
        << [type |-> "text", content |-> [box |-> "x", word |-> word]], mark("softbreak"), text(word \o "b") >>,
        << text(""), mark("strong_open"), text(word), mark("em_open"), image, text(word \o "b"), mark("em_close"),
           text(word \o "c"), mark("strong_close"), mark("hardbreak"),
           [type |-> "code_inline", content |-> Wording(word \o "d")] >> }
Surround(open, tokens, close) == <<open>> \o tokens \o <<[type |-> close]>>
Table(word) ==
  LET cell(kind, n) == Surround([type |-> kind \o "_open"],
                                <<[type |-> "inline", children |-> <<[type |-> "text", content |-> Wording(n)]>>]>>,
                                kind \o "_close")
      line(cells) == Surround([type |-> "tr_open"], cells, "tr_close")
      part(name, lines) == Surround([type |-> name \o "_open"], lines, name \o "_close")
  IN  part("table", part("thead", line(cell("th", word) \o cell("th", word \o "b")))
                      \o part("tbody", line(cell("td", word \o "c") \o cell("td", word \o "d"))))
Leaves(word) ==
  LET line(open, close) == {Surround(open, <<[type |-> "inline", children |-> c]>>, close) : c \in Inlines(word)}
  IN  line([type |-> "paragraph_open"], "paragraph_close")
        \cup line([type |-> "heading_open", level |-> 1], "heading_close")
        \cup {<<[type |-> "fence", content |-> Wording(word)]>>, <<[type |-> "hr"]>>, Table(word)}

Around == [blockquote_open |-> "quote", bullet_list_open |-> "list", ordered_list_open |-> "list",
           list_item_open |-> "item", table_open |-> "table", tr_open |-> "row", th_open |-> "cell", td_open |-> "cell"]
Closing == [blockquote_open |-> "blockquote_close", bullet_list_open |-> "bullet_list_close",
            ordered_list_open |-> "ordered_list_close", list_item_open |-> "list_item_close",
            table_open |-> "table_close", tr_open |-> "tr_close", th_open |-> "th_close", td_open |-> "td_close"]
\* The opening tokens, by place, of what is still open after the first n.
OpenAfter(tokens, n) ==
  LET step(path, k) == IF tokens[k].type \in DOMAIN Around THEN Append(path, k)
                       ELSE IF tokens[k].type \in {Closing[o] : o \in DOMAIN Closing} THEN Front(path) ELSE path
  IN  FoldLeft(step, <<>>, [k \in 1 .. n |-> k])
ClosingAll(tokens, path) == [i \in DOMAIN path |-> [type |-> Closing[tokens[path[Len(path) + 1 - i]].type]]]
Steps(tokens) ==
  LET path == OpenAfter(tokens, Len(tokens))
      inItem == path # <<>> /\ tokens[Last(path)].type = "list_item_open"
      item == <<[type |-> "list_item_open"]>>
      last(k) == ClosingAll(tokens, SubSeq(path, Len(path) - k + 1, Len(path)))
  IN  {<<[type |-> "blockquote_open"]>>} \cup {<<[type |-> t]>> \o item : t \in {"bullet_list_open", "ordered_list_open"}}
        \cup (IF path = <<>> THEN {} ELSE {last(IF inItem THEN 2 ELSE 1)})
        \cup (IF inItem THEN {last(1) \o item} ELSE {})
AddPiece ==
  /\ about = "markdown" /\ Len(input) < MaxPieces
  /\ \E piece \in Leaves(ToString(Len(input) + 1)) \cup Steps(FlattenSeq(input)) : input' = Append(input, piece)
  /\ UNCHANGED about
Next == TypeToken \/ AddAtom \/ AddFormula \/ AddRow \/ AddPage \/ AddPiece
Spec == Init /\ [][Next]_vars

-----------------------------------------------------------------------------
(* Formulas.  Readings: the trees the grammar of the parser's heading      *)
(* gives tokens i..j, each with the strength of its outermost operator.    *)
Strength(o) == CASE o = "or" -> 1 [] o = "and" -> 2
                 [] o \in {"==", "!=", "<", "<=", ">", ">="} -> 3
                 [] o \in {"+", "-"} -> 4 [] o \in {"*", "/", "%"} -> 5 [] OTHER -> 0
Tightest == 6
BinaryName(t) == IF t = Word("or") \/ t = Op("||") THEN "or" ELSE IF t = Word("and") \/ t = Op("&&") THEN "and"
                 ELSE IF Is(t, "op") THEN t.op ELSE "none"
UnaryName(t) == CASE t = Op("-") -> "-" [] t = Word("not") -> "not" [] OTHER -> "none"
CanName(t) == Is(t, "ident") /\ t \notin {Word("true"), Word("false"), Word("not")}

RECURSIVE Readings(_, _, _, _), ArgReadings(_, _, _, _)
Readings(ts, i, j, nesting) ==
  LET alone == i = j
      leaf == IF ~alone THEN {}
              ELSE IF Is(ts[i], "num") THEN {Literal(Num(ts[i].num))}
              ELSE IF Is(ts[i], "quoted") THEN {Quote(ts[i].quoted)}
              ELSE IF CanName(ts[i]) THEN {Prop(ts[i].ident)}
              ELSE IF ts[i] \in {Word("true"), Word("false")} THEN {Literal(Flag(ts[i] = Word("true")))} ELSE {}
      bracketed == IF j > i + 1 /\ ts[i] = Mark("(") /\ ts[j] = Mark(")") /\ nesting < MaxNesting
                   THEN {r.ast : r \in Readings(ts, i + 1, j - 1, nesting + 1)} ELSE {}
      argLists == IF j < i + 2 \/ ~CanName(ts[i]) \/ ts[i + 1] # Mark("(") \/ ts[j] # Mark(")") THEN {}
                  ELSE IF j = i + 2 THEN {<<>>} ELSE ArgReadings(ts, i + 2, j - 1, nesting)
      calls == {IF ts[i] = Word("prop") THEN Prop(args[1].word) ELSE Call(ts[i].ident, args) :
                  args \in {a \in argLists : ts[i] = Word("prop") => Len(a) = 1 /\ Is(a[1], "word")}}
      negated == IF alone \/ UnaryName(ts[i]) = "none" THEN {}
                 ELSE {Unary(UnaryName(ts[i]), r.ast) :
                         r \in {r \in Readings(ts, i + 1, j, nesting) : r.strength = Tightest}}
      joined == UNION { LET o == BinaryName(ts[k]) IN
                        {[ast |-> Binary(o, l.ast, r.ast), strength |-> Strength(o)] :
                           l \in {l \in Readings(ts, i, k - 1, nesting) : l.strength >= Strength(o)},
                           r \in {r \in Readings(ts, k + 1, j, nesting) : r.strength > Strength(o)}}
                      : k \in {k \in i + 1 .. j - 1 : Strength(BinaryName(ts[k])) > 0} }
  IN  joined \cup {[ast |-> t, strength |-> Tightest] : t \in leaf \cup bracketed \cup calls \cup negated}
ArgReadings(ts, i, j, nesting) ==
  IF nesting = MaxNesting THEN {} ELSE
  {<<r.ast>> : r \in Readings(ts, i, j, nesting + 1)}
    \cup UNION { {<<r.ast>> \o rest : r \in Readings(ts, i, k - 1, nesting + 1),
                                      rest \in ArgReadings(ts, k + 1, j, nesting)}
               : k \in {k \in i + 1 .. j - 1 : ts[k] = Mark(",")} }
GrammarTrees(ts) == IF ts = <<>> THEN {} ELSE {r.ast : r \in Readings(ts, 1, Len(ts), 1)}

\* The parser accepts exactly the token sequences its grammar derives and gives each
\* the one tree that binds by precedence and, at one level, to the left
\* (formula-parser.ts, its heading against parseOr .. parsePrimary).
ParsesByPrecedence ==
  about = "formula" =>
    LET parsed == ParseFormula(input)
    IN  GrammarTrees(input) = IF Is(parsed, "ast") THEN {parsed.ast} ELSE {}

-----------------------------------------------------------------------------
(* Formulas that refer to each other.  Meaning: start from an error        *)
(* everywhere and evaluate all of them again, as often as there are some.  *)
BlankRow == [cells |-> <<>>, links |-> <<>>, created |-> 0, edited |-> 0, author |-> Null, editor |-> Null]
FormulaContext(ps) == [properties |-> ps, targets |-> Targets, types |-> <<>>, now |-> 0]
OneRound(ps, meaning) ==
  [i \in DOMAIN ps |->
     LET parsed == ParseFormula(ps[i].config.expression)
         env == [name \in Names(FormulaContext(ps)) |-> meaning[Named(FormulaContext(ps), name).id]]
     IN  IF Is(parsed, "failed") THEN Error ELSE Eval(parsed.ast, env, 0)]
RECURSIVE Meaning(_, _)
Meaning(ps, rounds) == IF rounds = 0 THEN [i \in DOMAIN ps |-> Error] ELSE OneRound(ps, Meaning(ps, rounds - 1))

\* A formula whose value needs its own value is an error, one that only mentions such a
\* formula where its value does not matter is not, and neither depends on which formula
\* the evaluation started from (computed.ts resolveFormula, its in-flight set).
CyclesAreErrors ==
  about = "refs" =>
    \A i \in DOMAIN input :
      ResolveFormula(input[i], BlankRow, FormulaContext(input), {}, 0) = Meaning(input, Len(input))[i]

-----------------------------------------------------------------------------
(* The sidebar.                                                            *)
RECURSIVE Ancestors(_, _)
Ancestors(pages, p) ==
  IF pages[p].parent \notin DOMAIN pages THEN {} ELSE {pages[p].parent} \cup Ancestors(pages, pages[p].parent)
Subtree(pages, p) == {q \in DOMAIN pages : q = p \/ p \in Ancestors(pages, q)}
\* What the server makes of a plan: no move into the page's own subtree, and a key
\* strictly between those of the neighbours it was given.
Accepted(pages, active, plan) ==
  plan # NoPlan /\ plan.parent # Away /\ plan.parent \notin Subtree(pages, active)
MovedKey(pages, plan) ==
  IF plan.before # Top THEN pages[plan.before].key + 1 ELSE pages[plan.after].key - 1
AfterMove(pages, active, plan) ==
  [pages EXCEPT ![active] = [parent |-> plan.parent, key |-> MovedKey(pages, plan)]]
\* Pages drawn among the roots whose parent the user may not see.
Strays(pages) == {p \in DOMAIN pages : pages[p].parent = Away}
Without(s, S) == SelectSeq(s, LAMBDA p : p \notin S)

\* A page dropped on another lands with all that is below it directly above that page
\* and moves nothing else; a drop that asks for no move would have changed nothing or was
\* on the page's own subtree; and whatever is collapsed, every page with no collapsed
\* page above it is drawn once (projectMove.ts, flattenTree.ts, buildTree.ts).  Among the
\* roots it may land above a stray, whose keys belong to other siblings.
DropLandsWhereDrawn ==
  about = "pages" =>
    LET drawn == Display(input, {})
    IN  /\ \A collapsed \in SUBSET DOMAIN input :
             /\ IsInjective(Display(input, collapsed))
             /\ ToSet(Display(input, collapsed))
                  = {p \in DOMAIN input : Ancestors(input, p) \cap collapsed = {}}
        /\ \A active, over \in DOMAIN input :
             LET plan == ProjectMove(input, active, over)
                 moving == Subtree(input, active)
                 then == Display(AfterMove(input, active, plan), {})
                 siblings == ChildrenOf(input, input[over].parent)
             IN  IF Accepted(input, active, plan)
                 THEN /\ Without(then, moving) = Without(drawn, moving)
                      /\ plan.parent # Top \/ Strays(input) = {} =>
                           LET at == Position(then, over)
                           IN  /\ at > Cardinality(moving)
                               /\ SubSeq(then, at - Cardinality(moving), at - 1)
                                    = SelectSeq(drawn, LAMBDA p : p \in moving)
                 ELSE \/ over \in moving
                      \/ input[over].parent = Away
                      \/ Position(siblings, over) = Position(siblings \o <<active>>, active) + 1

-----------------------------------------------------------------------------
(* Imported files.  A run is a word with the marks it has and the path of  *)
(* containers around it, each with its kind and its place.                 *)
Written(text) == text \notin {Wording(Blank), NoText}
Run(word, marks, path) == <<[word |-> word, marks |-> marks, path |-> path]>>

MarksAt(children, i) ==
  LET times(marks, m) == Cardinality({k \in 1 .. i : children[k].type \in DOMAIN marks /\ marks[children[k].type] = m})
  IN  {m \in {Opened[o] : o \in DOMAIN Opened} : times(Opened, m) > times(Ended, m)}
InlineRuns(children, path) ==
  FlattenSeq([i \in DOMAIN children |->
     CASE children[i].type = "code_inline" -> Run(children[i].content.word, {"code"}, path)
       [] children[i].type = "text" /\ Written(children[i].content) ->
            Run(children[i].content.word, MarksAt(children, i), path)
       [] OTHER -> <<>>])
FileRuns(tokens) ==
  FlattenSeq([n \in DOMAIN tokens |->
     LET open == OpenAfter(tokens, n)
         path == [k \in DOMAIN open |-> [kind |-> Around[tokens[open[k]].type], at |-> open[k]]]
     IN  CASE tokens[n].type = "inline" -> InlineRuns(tokens[n].children, path)
           [] tokens[n].type = "fence" -> Run(tokens[n].content.word, {}, path)
           [] OTHER -> <<>>])
FileImages(tokens) ==
  LET inlines == SelectSeq(tokens, LAMBDA t : t.type = "inline")
  IN  FlattenSeq([n \in DOMAIN inlines |-> SelectSeq(inlines[n].children, IsImage)])

Kind == [blockquote |-> "quote", bulletList |-> "list", orderedList |-> "list", taskList |-> "list",
         listItem |-> "item", taskItem |-> "item", table |-> "table", tableRow |-> "row",
         tableHeader |-> "cell", tableCell |-> "cell"]
RECURSIVE BlockRuns(_, _), BlockImages(_)
BlockRuns(nodes, path) ==
  FlattenSeq([i \in DOMAIN nodes |->
     LET node == nodes[i] IN
     CASE node.type = "text" -> IF Written(node.text) THEN Run(node.text.word, ToSet(node.marks), path) ELSE <<>>
       [] node.type \in DOMAIN Kind -> BlockRuns(node.content, Append(path, [kind |-> Kind[node.type], at |-> i]))
       [] node.type \in {"paragraph", "heading", "codeBlock"} -> BlockRuns(node.content, path)
       [] OTHER -> <<>>])
BlockImages(nodes) ==
  FlattenSeq([i \in DOMAIN nodes |->
     IF IsImage(nodes[i]) THEN <<nodes[i].src>>
     ELSE IF "content" \in DOMAIN nodes[i] THEN BlockImages(nodes[i].content) ELSE <<>>])
Words(runs) == [i \in DOMAIN runs |-> runs[i].word]

\* Two texts share their first k containers in the one if they do in the other.
SameNesting(runs, others) ==
  \A i, j \in DOMAIN runs : \A k \in 1 .. Min({Len(runs[i].path), Len(runs[j].path)}) :
    SubSeq(runs[i].path, 1, k) = SubSeq(runs[j].path, 1, k)
      <=> SubSeq(others[i].path, 1, k) = SubSeq(others[j].path, 1, k)
Described(runs) ==
  [i \in DOMAIN runs |-> <<runs[i].word, runs[i].marks, [k \in DOMAIN runs[i].path |-> runs[i].path[k].kind]>>]

\* Nothing of a Markdown file gets lost, doubled or misplaced: every text is in the
\* blocks once, in the file's order, with the marks that were open at it and in the same
\* quotes, lists, items and cells; images keep their order; and the pages the blocks are
\* cut into hold all of it, in bodies or in titles taken from headings
\* (markdownImport.ts sliceBlock, tokensToBlocks, splitMarkdownIntoTree).
ImportKeepsText ==
  about = "markdown" =>
    LET pieces == FlattenSeq(input)
        tokens == pieces \o ClosingAll(pieces, OpenAfter(pieces, Len(pieces)))
        written == FileRuns(tokens)
        images == LET found == FileImages(tokens) IN [i \in DOMAIN found |-> found[i].src]
        runs == BlockRuns(TokensToBlocks(tokens), <<>>)
        tree == SplitMarkdownIntoTree(tokens)
        pages == <<tree>> \o tree.children
        below == Words(BlockRuns(tree.body, <<>>))
                   \o FlattenSeq([k \in DOMAIN tree.children |->
                        tree.children[k].title \o Words(BlockRuns(tree.children[k].body, <<>>))])
    IN  /\ Described(runs) = Described(written) /\ SameNesting(runs, written)
        /\ Words(written) \in {below, tree.title \o below}
        /\ FlattenSeq([k \in DOMAIN pages |-> BlockImages(pages[k].body)]) = images
=============================================================================
