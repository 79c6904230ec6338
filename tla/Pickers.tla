------------------------------ MODULE Pickers ------------------------------
(***************************************************************************)
(* The menus that list what the server finds for what is typed: the        *)
(* command palette (CommandPalette, useSearch, search.service), the        *)
(* mention field of the comment composer (CommentComposer) and the editor's*)
(* @ and [[ popups (mentionSuggestion, MentionMenu, pages.service          *)
(* searchMentionable).                                                     *)
(*                                                                         *)
(* A term stands for what is typed, Blank for nothing.  Answers come in    *)
(* any order or fail; what the server finds for a term does not change     *)
(* meanwhile.  The palette's queries are kept by term, the composer drops  *)
(* answers to all but its last request, the popup takes every answer.      *)
(***************************************************************************)
EXTENDS Naturals, Sequences, FiniteSets

CONSTANTS Term, Blank,
          Hits, Titled, Members, \* by term: pages by rank, pages by age, people
          Readable, Self,        \* the user's pages, the user
          Limit,                 \* of an answer
          FavoriteList, Actions, \* what the palette has besides
          MaxTyped, MaxUnanswered, Off

First(s, n) == SubSeq(s, 1, IF Len(s) < n THEN Len(s) ELSE n)
ReadableOf(pages) == SelectSeq(pages, LAMBDA p : p \in Readable)

\* What there is to find are lists, and so are the readable of them; the
\* palette has an action at least.
IsList(s) == s \in Seq({s[i] : i \in DOMAIN s})
ASSUME PickersAssumption ==
  /\ Blank \notin Term /\ Off \notin Term /\ Off # Blank /\ Limit \in Nat
  /\ \A t \in Term : IsList(ReadableOf(First(Hits[t], 5 * Limit)))
  /\ \A t \in Term \cup {Blank} :
       IsList(Members[t]) /\ IsList(Titled[t]) /\ IsList(ReadableOf(First(Titled[t], 5 * Limit)))
  /\ IsList(FavoriteList) /\ IsList(Actions) /\ Actions # <<>>
  /\ \A t \in Term : First(ReadableOf(First(Hits[t], 5 * Limit)), Limit) \notin {Blank, Off}

VARIABLES raw, query, ticking,   \* the palette's field, the term it asks for, the debounce
          fetches, found, before, active,
          draft, asks, asking, picks, offered,   \* the composer: term, requests, the last of them, the list
          popup, popping, sent, flying, items, chosen, latest, overtaken,   \* the popup
          guest, trigger,        \* whether the user is one, what the popup is for: "@" or "[["
          typed, unanswered
paletteVars == <<raw, query, ticking, fetches, found, before, active>>
composerVars == <<draft, asks, asking, picks, offered>>
popupVars == <<popup, popping, sent, flying, items, chosen, latest, overtaken>>
pickerVars == <<paletteVars, composerVars, popupVars, guest, trigger, typed, unanswered>>

Text == Term \cup {Blank}
PickerInit ==
  /\ raw = Blank /\ query = Blank /\ ticking = FALSE
  /\ fetches = {} /\ found = [t \in Term |-> Off] /\ before = Blank /\ active = 0
  /\ draft = Off /\ asks = {} /\ asking = 0 /\ picks = <<>> /\ offered = FALSE
  /\ popup = Off /\ popping = FALSE /\ sent = 0 /\ flying = {} /\ items = <<>> /\ chosen = 0
  /\ latest = 0 /\ overtaken = FALSE
  /\ guest \in BOOLEAN /\ trigger \in {"@", "[["} /\ typed = 0 /\ unanswered = 0
Key == typed < MaxTyped /\ typed' = typed + 1
Loses == unanswered < MaxUnanswered /\ unanswered' = unanswered + 1

-----------------------------------------------------------------------------
(* What the server finds                                                   *)
\* More than the limit is fetched, as some may be filtered out.
SearchAnswer(t) == First(ReadableOf(First(Hits[t], 5 * Limit)), Limit)
\* Guests see themselves, and the pages they can read.
Mentionable(t) ==
  [users |-> IF guest THEN <<Self>> ELSE First(Members[t], Limit),
   pages |-> IF guest THEN First(ReadableOf(First(Titled[t], 5 * Limit)), Limit) ELSE First(Titled[t], Limit)]

-----------------------------------------------------------------------------
(* The palette                                                             *)
Answered(t) == t \in Term /\ found[t] \notin {Off, Blank}
\* Kept from the last term that had an answer, while there is none: also when
\* the field is empty again.  Not after a failure.
Results ==
  IF Answered(query) THEN found[query]
  ELSE IF (query \in Term /\ found[query] = Blank) \/ before = Blank THEN <<>>
  ELSE found[before]
Entries == (IF query = Blank THEN FavoriteList ELSE <<>>) \o Results \o Actions
Within(i, n) == IF i < n THEN i ELSE n - 1
\* The highlight stays at its place, within the list.
Rehighlight == active' = Within(active, Len(Entries'))

TypeQuery(t) ==
  /\ Key /\ t # raw
  /\ raw' = t /\ ticking' = TRUE
  /\ UNCHANGED <<query, fetches, found, before, active, composerVars, popupVars, unanswered>>
\* The debounce ends: the term is asked for unless its answer is kept.
AskFor ==
  /\ ticking /\ ticking' = FALSE
  /\ query' = raw
  /\ LET fetch == raw \in Term /\ ~Answered(raw)
     IN  /\ fetches' = IF fetch THEN fetches \cup {raw} ELSE fetches
         /\ found' = IF fetch THEN [found EXCEPT ![raw] = Off] ELSE found
  /\ before' = IF Answered(raw) THEN raw ELSE before
  /\ UNCHANGED <<raw, composerVars, popupVars, typed, unanswered>>
  /\ Rehighlight
SearchArrives(t) ==
  /\ fetches' = fetches \ {t}
  /\ found' = [found EXCEPT ![t] = SearchAnswer(t)]
  /\ before' = IF t = query THEN t ELSE before
  /\ UNCHANGED <<raw, query, ticking, composerVars, popupVars, typed, unanswered>>
  /\ Rehighlight
SearchFails(t) ==
  /\ Loses
  /\ fetches' = fetches \ {t}
  /\ found' = [found EXCEPT ![t] = Blank]
  /\ UNCHANGED <<raw, query, ticking, before, composerVars, popupVars, typed>>
  /\ Rehighlight
Highlight ==
  /\ active' \in {(active + 1) % Len(Entries), (active + Len(Entries) - 1) % Len(Entries)}
  /\ UNCHANGED <<raw, query, ticking, fetches, found, before, composerVars, popupVars, typed, unanswered>>
\* Enter runs the entry and closes the palette, Escape closes it.  What was
\* found is kept.
ClosePalette ==
  /\ raw' = Blank /\ query' = Blank /\ ticking' = FALSE /\ before' = Blank /\ active' = 0
  /\ UNCHANGED <<fetches, found, composerVars, popupVars, typed, unanswered>>
PaletteNext ==
  /\ UNCHANGED <<guest, trigger>>
  /\ \/ \E t \in Text : TypeQuery(t)
     \/ \E t \in fetches : SearchArrives(t) \/ SearchFails(t)
     \/ AskFor \/ Highlight \/ ClosePalette

-----------------------------------------------------------------------------
(* The composer: the draft ends in @ and a term, or in neither             *)
TypeDraft(t) ==
  /\ Key /\ t # draft
  /\ draft' = t
  /\ IF t = Off THEN /\ offered' = FALSE /\ picks' = <<>>
                     /\ UNCHANGED <<asks, asking>>
     ELSE /\ offered' = TRUE /\ asking' = asking + 1
          /\ asks' = asks \cup {[id |-> asking + 1, term |-> t]}
          /\ UNCHANGED picks
  /\ UNCHANGED <<paletteVars, popupVars, unanswered>>
\* [Any answer is taken.]
TakesAny(r) == TRUE
Takes(r) == r.id = asking
UsersArrive(r) ==
  /\ asks' = asks \ {r}
  /\ picks' = IF Takes(r) THEN Mentionable(r.term).users ELSE picks
  /\ UNCHANGED <<draft, asking, offered, paletteVars, popupVars, typed, unanswered>>
\* Nothing handles the failure: the list stays.
UsersFail(r) ==
  /\ Loses
  /\ asks' = asks \ {r}
  /\ UNCHANGED <<draft, asking, picks, offered, paletteVars, popupVars, typed>>
\* Picking clears the list, submitting only hides it.
PickMention ==
  /\ offered /\ picks # <<>>
  /\ draft' = Off /\ offered' = FALSE /\ picks' = <<>>
  /\ UNCHANGED <<asks, asking, paletteVars, popupVars, typed, unanswered>>
Submit ==
  /\ draft' = Off /\ offered' = FALSE
  /\ UNCHANGED <<asks, asking, picks, paletteVars, popupVars, typed, unanswered>>
ComposerNext ==
  /\ UNCHANGED <<guest, trigger>>
  /\ \/ \E t \in Text \cup {Off} : TypeDraft(t)
     \/ \E r \in asks : UsersArrive(r) \/ UsersFail(r)
     \/ PickMention \/ Submit

-----------------------------------------------------------------------------
(* The popup at the caret, of one of the two triggers: each has its own    *)
(* list.                                                                   *)
\* onStart and onUpdate.
TypeTrigger(t) ==
  /\ Key /\ t # popup
  /\ popup' = t /\ popping' = TRUE
  /\ UNCHANGED <<sent, flying, items, chosen, latest, overtaken, paletteVars, composerVars, unanswered>>
AskMentionable ==
  /\ popping /\ popping' = FALSE
  /\ sent' = sent + 1
  /\ flying' = flying \cup {[id |-> sent + 1, term |-> popup]}
  /\ UNCHANGED <<popup, items, chosen, latest, overtaken, paletteVars, composerVars, typed, unanswered>>
\* A new list is highlighted at its top.
Lists(r, list) ==
  /\ flying' = flying \ {r}
  /\ items' = list /\ chosen' = 0
  /\ overtaken' = (r.id < latest)
  /\ latest' = IF r.id > latest THEN r.id ELSE latest
  /\ UNCHANGED <<popup, popping, sent, paletteVars, composerVars, typed>>
\* An @ mentions people and pages, a [[ links pages.
ItemsOf(t) == (IF trigger = "@" THEN Mentionable(t).users ELSE <<>>) \o Mentionable(t).pages
MentionableArrives(r) == Lists(r, ItemsOf(r.term)) /\ UNCHANGED unanswered
MentionableFails(r) == Lists(r, <<>>) /\ Loses
Move ==
  /\ popup # Off /\ items # <<>>
  /\ chosen' \in {(chosen + 1) % Len(items), (chosen + Len(items) - 1) % Len(items)}
  /\ UNCHANGED <<popup, popping, sent, flying, items, latest, overtaken, paletteVars, composerVars, typed, unanswered>>
\* Running the command of an item, or leaving the trigger: requests under way
\* are not taken back.
Exit ==
  /\ popup # Off
  /\ popup' = Off /\ popping' = FALSE /\ items' = <<>> /\ chosen' = 0
  /\ UNCHANGED <<sent, flying, latest, overtaken, paletteVars, composerVars, typed, unanswered>>
PopupNext ==
  /\ UNCHANGED <<guest, trigger>>
  /\ \/ \E t \in Text : TypeTrigger(t)
     \/ \E r \in flying : MentionableArrives(r) \/ MentionableFails(r)
     \/ AskMentionable \/ Move \/ Exit
PickerSpec == PickerInit /\ [][PaletteNext \/ ComposerNext \/ PopupNext]_pickerVars

-----------------------------------------------------------------------------
(* A menu settles on the answer to what is typed.  Once nothing is under   *)
(* way and nothing failed, the palette has the best readable pages for the *)
(* term in its field, the composer the people for the term after the @,    *)
(* though answers came in another order, the mention was given up and      *)
(* begun again or the comment was sent meanwhile; and the popup what its   *)
(* trigger lists for its term, people and pages or pages only, unless an   *)
(* answer to an earlier term came last.  The highlight is always on an     *)
(* entry.                                                                  *)
MenusSettle ==
  /\ raw \in Term /\ ~ticking /\ raw \notin fetches /\ found[raw] # Blank => Results = SearchAnswer(raw)
  /\ active < Len(Entries)
  /\ offered /\ (\A r \in asks : r.id # asking) /\ unanswered = 0 => picks = Mentionable(draft).users
  /\ popup # Off /\ ~popping /\ flying = {} /\ ~overtaken /\ unanswered = 0 => items = ItemsOf(popup)
  /\ items # <<>> => chosen < Len(items)
=============================================================================
