----------------------------- MODULE PageScreen -----------------------------
(***************************************************************************)
(* A tab's workspace screen (Workspace, PageView, Sidebar, TrashView,      *)
(* VersionHistoryPanel, pages/queries): which page is open, the fields of  *)
(* its header, and the lists beside it.                                    *)
(*                                                                         *)
(* Queries are kept by key and fetched when something on the screen        *)
(* observes them; a write that succeeds invalidates keys, which fetches    *)
(* the observed ones again and forgets the fetch under way.  Requests are  *)
(* served and answered in any order or fail.  Nobody else writes.  That    *)
(* archiving takes the subtree along is PageTree's concern, and that the   *)
(* user may read and write the pages is PageAccess's.                      *)
(***************************************************************************)
EXTENDS Naturals, FiniteSets

CONSTANTS Document, Existing,    \* pages that may be, pages there are
          Entry, Untitled,       \* what fields hold, when nothing was entered
          Version, MaxActs, MaxSlips, Missing

\* The header has the title and the icon; the cover goes like the icon.
Field == {"title", "icon"}
Listings == {"tree", "trash"}
MetaRow == [Field -> Entry \cup {Untitled}]
ASSUME ScreenAssumption ==
  /\ Document \cap (Listings \cup {"empty", Missing}) = {}
  /\ Missing \notin Field /\ Missing \notin MetaRow
  /\ Missing \notin Document \X (Entry \cup {Untitled}) \X (Entry \cup {Untitled})

VARIABLES meta, trashed,         \* the rows, the archived of them
          view, copy, fetch,     \* what is open, what was fetched, what is being fetched
          fields, shownKey, typing,   \* the header's fields, what they were last set from, the one with the focus
          broken,                \* keys whose last fetch failed
          sends, callback,       \* writes under way, the number of the last of each kind
          left,                  \* <<page, field, entry>> as each field was last left
          unsure,                \* <<page, field>> with writes that overlapped, a last one that failed, or an abandoned draft
          gone,                  \* pages archived while open by the last archive sent, and not opened again
          lagging,               \* keys with a fetch that began before a write ended, or a write done whose answer was lost
          acts, slips,
          selected, preview, previewing, peeks, openings, passed   \* of the version history
screenVars == <<meta, trashed, view, copy, fetch, fields, shownKey, typing, broken,
                sends, callback, left, unsure, gone, lagging>>
versionVars == <<selected, preview, previewing, peeks, openings, passed>>
shellVars == <<screenVars, versionVars, acts, slips>>
atServer == <<meta, trashed>>

Untrashed == {d \in Document : meta[d] # Missing} \ trashed
\* What the server answers to each query.
ServerHas(key) ==
  CASE key = "tree" -> [d \in Untrashed |-> meta[d].title]
    [] key = "trash" -> [d \in trashed |-> meta[d].title]
    [] OTHER -> meta[key]
Moves == acts < MaxActs /\ acts' = acts + 1
Slips == slips < MaxSlips /\ slips' = slips + 1

ShellInit ==
  /\ meta = [d \in Document |-> IF d \in Existing THEN [f \in Field |-> Untitled] ELSE Missing]
  /\ trashed = {}
  /\ view = "empty" /\ copy = [k \in Document \cup Listings |-> Missing]
  /\ fetch = [k \in Document \cup Listings |-> IF k = "tree" THEN [at |-> "asked"] ELSE [at |-> "none"]]
  /\ fields = [f \in Field |-> Untitled] /\ shownKey = Missing /\ typing = Missing
  /\ sends = {} /\ callback = [kind \in {"update", "create", "archive", "restore"} |-> 0]
  /\ broken = {} /\ left = {} /\ unsure = {} /\ gone = {} /\ lagging = {} /\ acts = 0 /\ slips = 0
  /\ selected = Missing /\ preview = Missing /\ previewing = FALSE /\ peeks = {} /\ openings = 0 /\ passed = FALSE

-----------------------------------------------------------------------------
(* Queries                                                                 *)
Underway == [at |-> "asked"]
Unasked == [at |-> "none"]
Observed(key) == key \in {"tree", view}
\* Fetched when it comes on the screen, unless a fetch is under way.
Mount(key) == IF fetch[key] = Unasked THEN [fetch EXCEPT ![key] = Underway] ELSE fetch
Invalidated(keys) == [k \in DOMAIN fetch |-> IF k \in keys /\ Observed(k) THEN Underway ELSE fetch[k]]
\* A fetch that nothing observes outlives the invalidation.
Missed(keys) == (lagging \ {k \in keys : Observed(k)}) \cup {k \in keys : ~Observed(k) /\ fetch[k] # Unasked}

\* pageKey: the fields follow the page when another is shown or what is known
\* of it changed.
PageKey(d, page) == IF d \notin Document \/ page = Missing THEN Missing ELSE <<d, page.title, page.icon>>
Showing == IF view \in Document THEN copy[view] ELSE Missing
\* The last step of whatever changes the screen.  A field goes with its focus
\* when nothing is known yet of the page that is opened, what was typed is lost.
Renders ==
  LET key == PageKey(view', Showing')
  IN  /\ shownKey' = key
      /\ fields' = IF view' \notin Document THEN [f \in Field |-> Untitled]
                   ELSE IF key # shownKey /\ key # Missing THEN Showing' ELSE fields
      /\ typing' = IF view' # view /\ Showing' = Missing THEN Missing ELSE typing
Unchanging == UNCHANGED <<fields, shownKey, typing>>

QueryRead(key) ==
  /\ fetch[key] = Underway
  /\ fetch' = [fetch EXCEPT ![key] = [at |-> "read", value |-> ServerHas(key)]]
  /\ UNCHANGED <<broken, atServer, view, copy, sends, callback, left, unsure, gone, lagging, acts, slips>> /\ Unchanging
QueryArrives(key) ==
  /\ fetch[key].at = "read"
  /\ copy' = [copy EXCEPT ![key] = fetch[key].value]
  /\ fetch' = [fetch EXCEPT ![key] = Unasked]
  /\ broken' = broken \ {key}
  /\ UNCHANGED <<atServer, view, sends, callback, left, unsure, gone, lagging, acts, slips>>
  /\ Renders
\* What was fetched before is kept, but an open page is not shown: the field
\* with the focus goes and its draft stays.
QueryFails(key) ==
  /\ fetch[key] # Unasked /\ Slips
  /\ fetch' = [fetch EXCEPT ![key] = Unasked]
  /\ broken' = broken \cup {key}
  /\ typing' = IF key = view THEN Missing ELSE typing
  /\ unsure' = IF key = view /\ typing # Missing THEN unsure \cup {<<view, typing>>} ELSE unsure
  /\ UNCHANGED <<atServer, view, copy, fields, shownKey, sends, callback, left, gone, lagging, acts>>

-----------------------------------------------------------------------------
(* What the user does                                                      *)
\* From a list, a breadcrumb or a menu: the field with the focus was left.
\* The sidebar has some pages, and those that were open may be in other lists.
Reachable == {d \in Document : copy[d] # Missing} \cup (IF copy["tree"] = Missing THEN {} ELSE DOMAIN copy["tree"])
Open(to) ==
  /\ to # view /\ typing = Missing /\ Moves
  /\ view' = to
  /\ fetch' = IF to \in DOMAIN fetch THEN Mount(to) ELSE fetch
  /\ lagging' = IF to \in DOMAIN fetch /\ fetch[to] = Unasked THEN lagging \ {to} ELSE lagging
  /\ gone' = gone \ {to}
  /\ UNCHANGED <<broken, atServer, copy, sends, callback, left, unsure, slips>>
  /\ Renders
TypeField(f, e) ==
  /\ Showing # Missing /\ view \notin broken /\ typing \in {Missing, f} /\ Moves
  /\ fields' = [fields EXCEPT ![f] = e] /\ typing' = f
  /\ UNCHANGED <<broken, atServer, view, copy, fetch, shownKey, sends, callback, left, unsure, gone, lagging, slips>>

\* A write under way; from is what was open.
Sends(kind, page, field, entry) ==
  /\ sends' = sends \cup {[id |-> callback[kind] + 1, kind |-> kind, page |-> page, field |-> field, entry |-> entry,
                           from |-> view, served |-> FALSE]}
  /\ callback' = [callback EXCEPT ![kind] = @ + 1]
\* commitMeta on leaving the field, changed or not.
CommitMeta ==
  /\ typing # Missing
  /\ Sends("update", view, typing, fields[typing])
  /\ left' = {l \in left : l[1] # view \/ l[2] # typing} \cup {<<view, typing, fields[typing]>>}
  /\ unsure' = IF \E c \in sends : c.kind = "update" /\ c.page = view /\ c.field = typing
               THEN unsure \cup {<<view, typing>>} ELSE unsure \ {<<view, typing>>}
  /\ typing' = Missing
  /\ UNCHANGED <<broken, atServer, view, copy, fetch, fields, shownKey, gone, lagging, acts, slips>>
Fresh == {d \in Document : meta[d] = Missing}
Create ==
  /\ typing = Missing /\ Moves
  /\ Cardinality(Fresh) > Cardinality({c \in sends : c.kind = "create" /\ ~c.served})
  /\ Sends("create", Missing, Missing, Missing)
  /\ UNCHANGED <<broken, atServer, view, copy, fetch, left, unsure, gone, lagging, slips>> /\ Unchanging
ArchivePage(d) ==
  /\ copy["tree"] # Missing /\ d \in DOMAIN copy["tree"]
  /\ typing = Missing /\ Moves
  /\ Sends("archive", d, Missing, Missing)
  /\ gone' = {e \in {d} : view = e} \cup {e \in gone : ~\E c \in sends : c.kind = "archive" /\ c.page = e}
  /\ UNCHANGED <<broken, atServer, view, copy, fetch, left, unsure, lagging, slips>> /\ Unchanging
Restore(d) ==
  /\ view = "trash" /\ copy["trash"] # Missing /\ d \in DOMAIN copy["trash"] /\ Moves
  /\ Sends("restore", d, Missing, Missing)
  /\ UNCHANGED <<broken, atServer, view, copy, fetch, left, unsure, gone, lagging, slips>> /\ Unchanging

-----------------------------------------------------------------------------
(* Writes                                                                  *)
ServeWrite(c) ==
  /\ ~c.served
  /\ \E d \in IF c.kind = "create" THEN Fresh ELSE {c.page} :
       /\ meta' = CASE c.kind = "update" -> [meta EXCEPT ![d][c.field] = c.entry]
                    [] c.kind = "create" -> [meta EXCEPT ![d] = [f \in Field |-> Untitled]]
                    [] OTHER -> meta
       /\ trashed' = CASE c.kind = "archive" -> trashed \cup {d} [] c.kind = "restore" -> trashed \ {d} [] OTHER -> trashed
       /\ sends' = (sends \ {c}) \cup {[c EXCEPT !.served = TRUE, !.page = d]}
  /\ UNCHANGED <<broken, view, copy, fetch, callback, left, unsure, gone, lagging, acts, slips>> /\ Unchanging
\* onSuccess: the keys of the hook; then, for the last write of its kind only,
\* what the caller asked for.  view is what it was when an archive was sent.
Opens(c) ==
  IF callback[c.kind] # c.id THEN view
  ELSE IF c.kind = "create" THEN c.page
  ELSE IF c.kind = "archive" /\ c.from = c.page THEN "empty" ELSE view
\* [A rename refreshes the lists only.]
TouchedListings(c) == Listings
Touched(c) == Listings \cup (IF c.kind = "update" THEN {c.page} ELSE {})
WriteSucceeds(c) ==
  LET keys == Touched(c)
      to == Opens(c)
      opened == to # view /\ to \in Document
  IN  /\ c.served /\ sends' = sends \ {c}
      /\ view' = to
      /\ fetch' = IF opened THEN [Invalidated(keys) EXCEPT ![to] = Underway] ELSE Invalidated(keys)
      /\ lagging' = IF opened THEN Missed(keys) \ {to} ELSE Missed(keys)
      /\ gone' = IF opened THEN gone \ {to} ELSE gone
      /\ UNCHANGED <<broken, atServer, copy, callback, left, unsure, acts, slips>>
      /\ Renders
\* Refused, or its answer lost: the screen stays as it is.
WriteFails(c) ==
  /\ Slips
  /\ sends' = sends \ {c}
  /\ unsure' = IF c.kind = "update" THEN unsure \cup {<<c.page, c.field>>} ELSE unsure
  /\ gone' = gone \ {c.page}
  /\ lagging' = IF c.served THEN lagging \cup Touched(c) ELSE lagging
  /\ UNCHANGED <<broken, atServer, view, copy, fetch, callback, left, acts>> /\ Unchanging

ScreenShellNext ==
  /\ UNCHANGED versionVars
  /\ \/ \E k \in Document \cup Listings : QueryRead(k) \/ QueryArrives(k) \/ QueryFails(k)
     \/ \E to \in Reachable \cup {"empty", "trash"} : Open(to)
     \/ \E f \in Field, e \in Entry : TypeField(f, e)
     \/ CommitMeta \/ Create
     \/ \E d \in Document : ArchivePage(d) \/ Restore(d)
     \/ \E c \in sends : ServeWrite(c) \/ WriteSucceeds(c) \/ WriteFails(c)

-----------------------------------------------------------------------------
(* The version history: openPreview takes the answers as they come         *)
OpenPreview(v) ==
  /\ Moves
  /\ selected' = v /\ preview' = Missing /\ previewing' = TRUE
  /\ openings' = openings + 1
  /\ peeks' = peeks \cup {[id |-> openings', version |-> v]}
  /\ UNCHANGED <<passed, slips>>
PreviewEnds(p) ==
  /\ peeks' = peeks \ {p} /\ previewing' = FALSE
  /\ \/ preview' = p.version /\ passed' = (p.id # openings) /\ UNCHANGED slips
     \/ UNCHANGED preview /\ passed' = TRUE /\ Slips
  /\ UNCHANGED <<selected, openings, acts>>
VersionNext ==
  /\ UNCHANGED screenVars
  /\ \/ \E v \in Version : OpenPreview(v)
     \/ \E p \in peeks : PreviewEnds(p)
ShellSpec == ShellInit /\ [][ScreenShellNext \/ VersionNext]_shellVars

-----------------------------------------------------------------------------
(* The screen settles. Once the writes of the tab have ended: what was in  *)
(* a field of the header as it was left is stored, on the page whose field *)
(* it was, unless two writes of it overlapped, the last one failed or the  *)
(* page went from the screen under a draft of it; a page that was archived *)
(* while open is not open any more, unless the archive of another was sent *)
(* before it ended or it was opened again; and what was fetched of the     *)
(* tree and of the open page is what the server has, with each field       *)
(* without the focus showing what is stored, unless a fetch is under way   *)
(* or failed, one that began before a write was reused after it, or a      *)
(* write was done and its answer lost. The preview is of the version that  *)
(* was picked last, unless its answer failed or one for an earlier pick    *)
(* came after it.                                                          *)
ScreenSettles ==
  /\ sends = {} =>
       /\ \A l \in left : <<l[1], l[2]>> \notin unsure => meta[l[1]][l[2]] = l[3]
       /\ view \notin gone
       /\ \A key \in {"tree", view} \cap DOMAIN fetch :
            fetch[key] = Unasked /\ key \notin lagging \cup broken =>
              /\ copy[key] = ServerHas(key)
              /\ key \in Document => \A f \in Field \ {typing} :
                                     <<key, f>> \notin unsure => fields[f] = meta[key][f]
  /\ peeks = {} /\ selected # Missing /\ ~passed => preview = selected /\ ~previewing
=============================================================================
