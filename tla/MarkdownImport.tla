--------------------------- MODULE MarkdownImport ---------------------------
(***************************************************************************)
(* From a Markdown file to a tree of pages                                 *)
(* (packages/editor/src/markdownImport.ts): the flat tokens of markdown-it *)
(* become nested blocks, the blocks a page and its children.               *)
(*                                                                         *)
(* A token is a record with a type; markdown-it itself is external.  A     *)
(* text is [box, word]: box is the "[ ]" or "[x]" it starts with, if any,  *)
(* and word what follows, Blank if that is only space.                     *)
(***************************************************************************)
EXTENDS Integers, Sequences, FiniteSets, SequencesExt

Blank == "blank"
NoBox == "none"
Wording(word) == [box |-> NoBox, word |-> word]
NoText == Wording("")

Opened == [strong_open |-> "bold", em_open |-> "italic", s_open |-> "strike", link_open |-> "link"]
Ended == [strong_close |-> "bold", em_close |-> "italic", s_close |-> "strike", link_close |-> "link"]

\* The stack without the innermost mark of a type.
RemoveMark(stack, type) ==
  LET found == {i \in DOMAIN stack : stack[i] = type}
  IN  IF found = {} THEN stack ELSE RemoveAt(stack, Max(found))

TextNodes(text, marks) ==
  IF text = NoText THEN <<>> ELSE <<[type |-> "text", text |-> text, marks |-> marks]>>

InlineStep(acc, tok) ==
  LET emit(nodes) == [acc EXCEPT !.nodes = @ \o nodes]
  IN  CASE tok.type \in DOMAIN Opened -> [acc EXCEPT !.stack = Append(@, Opened[tok.type])]
        [] tok.type \in DOMAIN Ended -> [acc EXCEPT !.stack = RemoveMark(@, Ended[tok.type])]
        [] tok.type = "code_inline" -> emit(TextNodes(tok.content, <<"code">>))
        [] tok.type = "softbreak" -> emit(TextNodes(Wording(Blank), acc.stack))
        [] tok.type = "hardbreak" -> emit(<<[type |-> "hardBreak"]>>)
        [] tok.type = "image" -> emit(<<[type |-> "image", src |-> tok.src]>>)
        [] OTHER -> emit(TextNodes(tok.content, acc.stack))
InlineTokensToNodes(children) ==
  FoldLeft(InlineStep, [nodes |-> <<>>, stack |-> <<>>], children).nodes

\* Slip: up to the first close, whoever it belongs to.
SliceToFirst(tokens, start, open, close) ==
  LET closers == {i \in start .. Len(tokens) : tokens[i].type = close}
      at == IF closers = {} THEN Len(tokens) + 1 ELSE Min(closers)
  IN  [tokens |-> SubSeq(tokens, start + 1, at - 1), next |-> at + 1]

\* What lies between the token at start and its matching close, and where to go on.
SliceBlock(tokens, start, open, close) ==
  LET count(type, i) == Cardinality({k \in start .. i : tokens[k].type = type})
      closers == {i \in start .. Len(tokens) : count(open, i) = count(close, i)}
      at == IF closers = {} THEN Len(tokens) + 1 ELSE Min(closers)
  IN  [tokens |-> SubSeq(tokens, start + 1, at - 1), next |-> at + 1]

Block(type, content) == [type |-> type, content |-> content]
IsImage(node) == node.type = "image"

\* Images are blocks of their own, after the rest of the block they were in.
ExtractImages(block) ==
  LET images == SelectSeq(block.content, IsImage)
      rest == SelectSeq(block.content, LAMBDA node : ~IsImage(node))
  IN  IF images = <<>> THEN <<block>>
      ELSE (IF rest = <<>> THEN <<>> ELSE <<[block EXCEPT !.content = rest]>>) \o images

InlineAt(tokens, i) ==
  IF i \in DOMAIN tokens /\ tokens[i].type = "inline" THEN InlineTokensToNodes(tokens[i].children) ELSE <<>>

\* The cells of a row, the rows of a table.
RECURSIVE ParseCells(_, _), ParseRows(_, _)
ParseCells(tokens, i) ==
  IF i > Len(tokens) THEN <<>>
  ELSE IF tokens[i].type \notin {"th_open", "td_open"} THEN ParseCells(tokens, i + 1)
  ELSE LET header == tokens[i].type = "th_open"
           slice == SliceBlock(tokens, i, tokens[i].type, IF header THEN "th_close" ELSE "td_close")
           inlines == {k \in DOMAIN slice.tokens : slice.tokens[k].type = "inline"}
           content == IF inlines = {} THEN <<>> ELSE InlineAt(slice.tokens, Min(inlines))
       IN  <<Block(IF header THEN "tableHeader" ELSE "tableCell", <<Block("paragraph", content)>>)>>
             \o ParseCells(tokens, slice.next)
ParseRows(tokens, i) ==
  IF i > Len(tokens) THEN <<>>
  ELSE IF tokens[i].type # "tr_open" THEN ParseRows(tokens, i + 1)
  ELSE LET slice == SliceBlock(tokens, i, "tr_open", "tr_close")
           cells == ParseCells(slice.tokens, 1)
       IN  (IF cells = <<>> THEN <<>> ELSE <<Block("tableRow", cells)>>) \o ParseRows(tokens, slice.next)
ParseTable(tokens) ==
  LET rows == ParseRows(tokens, 1) IN IF rows = <<>> THEN <<>> ELSE <<Block("table", rows)>>

\* A task is an item whose first block starts with a box, which is taken off its text.
HasBox(blocks) ==
  /\ blocks # <<>> /\ blocks[1].type \in {"paragraph", "heading"} /\ blocks[1].content # <<>>
  /\ blocks[1].content[1].type = "text" /\ blocks[1].content[1].text.box # NoBox
ListItem(blocks) ==
  IF HasBox(blocks)
  THEN [type |-> "taskItem", checked |-> blocks[1].content[1].text.box = "x",
        content |-> [blocks EXCEPT ![1].content[1].text.box = NoBox]]
  ELSE Block("listItem", blocks)
\* One task makes tasks of all items.
ListOf(items, ordered) ==
  LET task(item) == IF item.type = "taskItem" THEN item
                    ELSE [type |-> "taskItem", checked |-> FALSE, content |-> item.content]
  IN  IF \E i \in DOMAIN items : items[i].type = "taskItem"
      THEN Block("taskList", [i \in DOMAIN items |-> task(items[i])])
      ELSE Block(IF ordered THEN "orderedList" ELSE "bulletList", items)

RECURSIVE BlocksFrom(_, _), ParseItems(_, _)
BlocksFrom(tokens, i) ==
  LET type == tokens[i].type
      slice(open, close) == SliceBlock(tokens, i, open, close)
      then(blocks, next) == blocks \o BlocksFrom(tokens, next)
      container(open, close, Make(_)) ==
        LET s == slice(open, close) IN then(Make(s.tokens), s.next)
  IN  IF i > Len(tokens) THEN <<>>
      ELSE CASE type = "heading_open" ->
                  then(ExtractImages([type |-> "heading", level |-> tokens[i].level,
                                      content |-> InlineAt(tokens, i + 1)]), i + 3)
             [] type = "paragraph_open" ->
                  then(ExtractImages(Block("paragraph", InlineAt(tokens, i + 1))), i + 3)
             [] type = "blockquote_open" ->
                  container("blockquote_open", "blockquote_close",
                            LAMBDA inner : <<Block("blockquote", BlocksFrom(inner, 1))>>)
             [] type = "bullet_list_open" ->
                  container("bullet_list_open", "bullet_list_close",
                            LAMBDA inner : <<ListOf(ParseItems(inner, 1), FALSE)>>)
             [] type = "ordered_list_open" ->
                  container("ordered_list_open", "ordered_list_close",
                            LAMBDA inner : <<ListOf(ParseItems(inner, 1), TRUE)>>)
             [] type \in {"fence", "code_block"} ->
                  then(<<Block("codeBlock", TextNodes(tokens[i].content, <<>>))>>, i + 1)
             [] type = "hr" -> then(<<[type |-> "horizontalRule"]>>, i + 1)
             [] type = "table_open" -> container("table_open", "table_close", ParseTable)
             [] OTHER -> BlocksFrom(tokens, i + 1)
ParseItems(tokens, i) ==
  IF i > Len(tokens) THEN <<>>
  ELSE IF tokens[i].type # "list_item_open" THEN ParseItems(tokens, i + 1)
  ELSE LET slice == SliceBlock(tokens, i, "list_item_open", "list_item_close")
       IN  <<ListItem(BlocksFrom(slice.tokens, 1))>> \o ParseItems(tokens, slice.next)
TokensToBlocks(tokens) == BlocksFrom(tokens, 1)

-----------------------------------------------------------------------------
(* The pages.  A title is the words of a heading, or made up.              *)
BlockText(block) ==
  LET nodes == SelectSeq(block.content, LAMBDA node : node.type = "text" /\ node.text.word # Blank)
  IN  [i \in DOMAIN nodes |-> nodes[i].text.word]
Untitled == <<>>   \* the name of the file, or Section k

\* A page is never empty.
WrapDoc(blocks) == IF blocks = <<>> THEN <<Block("paragraph", <<>>)>> ELSE blocks
ImportedPage(title, body, children) == [title |-> title, body |-> WrapDoc(body), children |-> children]
TopHeadings(blocks) == SetToSortSeq({i \in DOMAIN blocks : blocks[i].type = "heading" /\ blocks[i].level = 1}, <)

\* A page of its own for every top heading, if there are two.
SplitBlocks(blocks) ==
  LET tops == TopHeadings(blocks)
      last(k) == IF k < Len(tops) THEN tops[k + 1] - 1 ELSE Len(blocks)
      section(k) == ImportedPage(BlockText(blocks[tops[k]]), SubSeq(blocks, tops[k] + 1, last(k)), <<>>)
  IN  IF Len(tops) >= 2
      THEN ImportedPage(Untitled, SubSeq(blocks, 1, tops[1] - 1), [k \in DOMAIN tops |-> section(k)])
      ELSE IF tops = <<1>> THEN ImportedPage(BlockText(blocks[1]), Tail(blocks), <<>>)
      ELSE IF blocks # <<>> /\ blocks[1].type = "heading" THEN ImportedPage(BlockText(blocks[1]), blocks, <<>>)
      ELSE ImportedPage(Untitled, blocks, <<>>)
SplitMarkdownIntoTree(tokens) == SplitBlocks(TokensToBlocks(tokens))
=============================================================================
