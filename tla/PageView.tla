------------------------------ MODULE PageView ------------------------------
(***************************************************************************)
(* The sidebar's view of the page tree and what a drop in it asks for      *)
(* (apps/web/src/pages/buildTree.ts, flattenTree.ts, projectMove.ts).      *)
(*                                                                         *)
(* pages is the list GET pages/tree answers: a sequence of [parent, key],  *)
(* a page being its position in it.  Top is no parent; Away is a parent    *)
(* that is not in the list.                                                *)
(***************************************************************************)
EXTENDS Integers, Sequences, SequencesExt

Top == 0
Away == -1

\* The pages with these parents, by sort key, ties in list order.
SortedPages(pages, kept) ==
  LET insert(out, p) ==
        InsertAt(out, Cardinality({i \in DOMAIN out : pages[out[i]].key <= pages[p].key}) + 1, p)
  IN  FoldLeft(insert, <<>>, SelectSeq([i \in DOMAIN pages |-> i], LAMBDA i : i \in kept))

Roots(pages) == SortedPages(pages, {p \in DOMAIN pages : pages[p].parent \notin DOMAIN pages})
ChildrenOf(pages, parent) == SortedPages(pages, {p \in DOMAIN pages : pages[p].parent = parent})

\* The rows the sidebar draws for these nodes, top to bottom.
RECURSIVE FlattenTree(_, _, _)
FlattenTree(pages, nodes, collapsed) ==
  LET row(p) == <<p>> \o (IF p \in collapsed THEN <<>>
                          ELSE FlattenTree(pages, ChildrenOf(pages, p), collapsed))
  IN  FoldLeft(LAMBDA out, p : out \o row(p), <<>>, nodes)
Display(pages, collapsed) == FlattenTree(pages, Roots(pages), collapsed)

\* isDescendant looks for the dragged page among the roots only.
IsDescendant(pages, page, parent) ==
  \/ parent = page
  \/ page \in ToSet(Roots(pages)) /\ parent \in ToSet(FlattenTree(pages, <<page>>, {}))

NoPlan == [none |-> TRUE]
Neighbour(siblings, i) == IF i \in DOMAIN siblings THEN siblings[i] ELSE Top

\* [The drop that counts the dragged page among its new siblings.]
ProjectMoveCounting(pages, active, over) ==
  LET parent == pages[over].parent
      siblings == ChildrenOf(pages, parent)
      at == CHOOSE i \in DOMAIN siblings : siblings[i] = over
  IN  IF active = over \/ IsDescendant(pages, active, parent) THEN NoPlan
      ELSE IF pages[active].parent = parent /\ Neighbour(siblings, at - 1) = active THEN NoPlan
      ELSE [parent |-> parent, before |-> Neighbour(siblings, at), after |-> Neighbour(siblings, at + 1)]

\* Dropping active on over: next to over, just above it.
ProjectMove(pages, active, over) ==
  LET parent == pages[over].parent
      siblings == SelectSeq(ChildrenOf(pages, parent), LAMBDA p : p # active)
      ordered == ChildrenOf(pages, parent)
      at == CHOOSE i \in DOMAIN siblings : siblings[i] = over
      above == CHOOSE i \in DOMAIN ordered : ordered[i] = over
  IN  IF active = over \/ IsDescendant(pages, active, parent) THEN NoPlan
      ELSE IF Neighbour(ordered, above - 1) = active THEN NoPlan
      ELSE [parent |-> parent, before |-> Neighbour(siblings, at - 1), after |-> Neighbour(siblings, at)]
=============================================================================
