------------------------------ MODULE Personal ------------------------------
(***************************************************************************)
(* What a tab keeps in step with the server around a page: the user's      *)
(* favorites (favorites.service, favoritesQueries), the outgoing           *)
(* references of the page that is open (useReferenceSync, pages.service    *)
(* setReferences) and the file of a media block (files.service,            *)
(* uploadHelper, MediaView).                                               *)
(*                                                                         *)
(* Requests of a tab are under way together and served query by query; one *)
(* may fail before or after it was served, and the server may go on with   *)
(* one whose answer is lost.  One user, whose other clients may reorder or *)
(* remove favorites; one page in the editor.                               *)
(***************************************************************************)
EXTENDS Naturals, Sequences, FiniteSets, SequencesExt

CONSTANTS Starable, Targets,   \* pages that can be favorites, pages that are referenced
          Linkable,            \* of these, other pages of the workspace that are not archived
          MaxToggles, MaxEdits, MaxMishaps, Null

ASSUME PersonalAssumption == \A refs \in SUBSET Targets : refs # Null

VARIABLES favs, stars,         \* the rows, what the tab shows
          calls, toggles,      \* toggles under way, their number
          loading,             \* the fetch of the favorites
          unread,              \* the rows changed without the tab being told, since the last fetch
          doc, links,          \* the references in the document, the stored ones
          synced, armed,       \* the last ones put (Null: none), whether the debounce runs
          puts, edits,         \* PUTs under way, how many edits there were
          since,               \* of these, before the page was last opened
          lastPut, stored,     \* the last PUT that was sent, the last that was stored
          early,               \* the page was left with a PUT to come
          media, mishaps
starVars == <<favs, stars, calls, toggles, loading, unread>>
linkVars == <<doc, links, synced, armed, puts, edits, since, lastPut, stored, early>>
personalVars == <<starVars, linkVars, media, mishaps>>

Mishap == mishaps < MaxMishaps /\ mishaps' = mishaps + 1
Quiet == [at |-> "none", list |-> <<>>]
PersonalInit ==
  /\ favs = <<>> /\ stars = <<>>
  /\ calls = {} /\ toggles = 0 /\ loading = Quiet /\ unread = FALSE
  /\ doc = {} /\ links = {}
  /\ synced = {} /\ armed = FALSE
  /\ puts = {} /\ edits = 0 /\ since = 0 /\ early = FALSE
  /\ lastPut = [number |-> 0, refs |-> {}]
  /\ stored = [number |-> 0, refs |-> {}, crossed |-> FALSE]
  /\ media = [at |-> "empty", tries |-> 0, rows |-> {}, bytes |-> {}, node |-> Null] /\ mishaps = 0

-----------------------------------------------------------------------------
(* Favorites: rows with an order, listed by it and then by age             *)
Row(p, order) == [page |-> p, order |-> order]
Unstarred(p) == SelectSeq(favs, LAMBDA f : f.page # p)
Earlier(f, g) == f.order < g.order
\* favs is in the order of creation.
Listed ==
  LET older(i, j) == Earlier(favs[i], favs[j]) \/ (favs[i].order = favs[j].order /\ i < j)
  IN  [n \in DOMAIN favs |->
        (CHOOSE f \in ToSet(favs) : \E i \in DOMAIN favs :
           favs[i] = f /\ Cardinality({j \in DOMAIN favs : older(j, i)}) = n - 1).page]

\* addFavorite's upsert: a page that is one already stays.
Starred(row) == IF \E i \in DOMAIN favs : favs[i].page = row.page THEN favs ELSE Append(favs, row)
\* The user's other client removes one, or puts them in another order.
Elsewhere ==
  /\ favs # <<>> /\ Mishap
  /\ \/ \E p \in Starable : favs' = Unstarred(p) /\ favs' # favs
     \/ \E i, j \in DOMAIN favs :
          /\ i < j
          /\ favs' = [favs EXCEPT ![i].order = favs[j].order, ![j].order = favs[i].order]
  /\ unread' = TRUE
  /\ UNCHANGED <<stars, calls, toggles, loading, linkVars, media>>

\* useToggleFavorite onMutate: the fetch under way is cancelled.
Toggle(p) ==
  LET off == p \in ToSet(stars)
  IN  /\ toggles < MaxToggles /\ toggles' = toggles + 1
      /\ calls' = calls \cup {[id |-> toggles, page |-> p, off |-> off, before |-> stars,
                               at |-> "sent", order |-> 0, lost |-> FALSE]}
      /\ stars' = IF off THEN SelectSeq(stars, LAMBDA q : q # p) ELSE Append(stars, p)
      /\ loading' = Quiet
      /\ UNCHANGED <<favs, unread, linkVars, media, mishaps>>
\* "New favorites sort to the bottom: order = current count."
CountFavorites(c) ==
  /\ c.at = "sent" /\ ~c.off
  /\ calls' = (calls \ {c}) \cup {[c EXCEPT !.at = "counted", !.order = Len(favs)]}
  /\ UNCHANGED <<favs, stars, toggles, loading, unread, linkVars, media, mishaps>>
\* The upsert of addFavorite, the deleteMany of removeFavorite.
WriteFavorite(c) ==
  /\ c.at = IF c.off THEN "sent" ELSE "counted"
  /\ favs' = IF c.off THEN Unstarred(c.page) ELSE Starred(Row(c.page, c.order))
  /\ calls' = (calls \ {c}) \cup (IF c.lost THEN {} ELSE {[c EXCEPT !.at = "done", !.order = 0]})
  /\ unread' = (unread \/ c.lost)
  /\ UNCHANGED <<stars, toggles, loading, linkVars, media, mishaps>>
\* [Only a failure has the list fetched again.]
AfterToggleQuiet(failed) == IF failed THEN [at |-> "asked", list |-> <<>>] ELSE loading
\* onSettled: the list is fetched again in any case.
AfterToggle(failed) == [at |-> "asked", list |-> <<>>]
ToggleEnds(c) ==
  /\ c.at = "done"
  /\ calls' = calls \ {c}
  /\ loading' = AfterToggle(FALSE)
  /\ UNCHANGED <<favs, stars, toggles, unread, linkVars, media, mishaps>>
\* onError, refused or with its answer lost: what was shown before comes back.
ToggleFails(c) ==
  /\ ~c.lost /\ Mishap
  /\ \/ calls' = calls \ {c}
     \/ c.at # "done" /\ calls' = (calls \ {c}) \cup {[c EXCEPT !.lost = TRUE, !.before = <<>>]}
  /\ stars' = c.before
  /\ loading' = AfterToggle(TRUE)
  /\ UNCHANGED <<favs, toggles, unread, linkVars, media>>

LoadRead ==
  /\ loading.at = "asked"
  /\ loading' = [at |-> "read", list |-> Listed]
  /\ unread' = FALSE
  /\ UNCHANGED <<favs, stars, calls, toggles, linkVars, media, mishaps>>
LoadArrives ==
  /\ loading.at = "read"
  /\ stars' = loading.list /\ loading' = Quiet
  /\ UNCHANGED <<favs, calls, toggles, unread, linkVars, media, mishaps>>
LoadFails ==
  /\ loading.at = "asked" /\ Mishap
  /\ loading' = Quiet /\ unread' = TRUE
  /\ UNCHANGED <<favs, stars, calls, toggles, linkVars, media>>

-----------------------------------------------------------------------------
(* References: createReferenceSync, setReferences                          *)
\* extractPageReferences: each page that is linked or mentioned, once.
ExtractReferences == SUBSET Targets
\* The debounce starts anew with every change, another user's included.
EditDoc ==
  \E refs \in ExtractReferences :
    /\ edits < MaxEdits /\ edits' = edits + 1
    /\ doc' = refs /\ armed' = TRUE
    /\ UNCHANGED <<links, synced, puts, since, lastPut, stored, early, starVars, media, mishaps>>
\* The references count as put before the answer is there.
Sync ==
  /\ armed /\ armed' = FALSE
  /\ IF synced = doc THEN UNCHANGED <<synced, puts, lastPut, early>>
     ELSE /\ synced' = doc
          /\ puts' = puts \cup {[refs |-> doc, number |-> edits, at |-> "sent", existing |-> {},
                                 crossed |-> FALSE, lost |-> FALSE]}
          /\ lastPut' = [number |-> edits, refs |-> doc]
          /\ early' = FALSE
  /\ UNCHANGED <<doc, links, edits, since, stored, starVars, media, mishaps>>
\* What cannot be linked is dropped; what is stored by now is read.
FilterTargets(refs) == refs \cap Linkable
ReadExisting(r) ==
  /\ r.at = "sent"
  /\ puts' = (puts \ {r}) \cup {[r EXCEPT !.at = "read", !.existing = links]}
  /\ UNCHANGED <<doc, links, synced, armed, edits, since, lastPut, stored, early, starVars, media, mishaps>>
\* The transaction: the difference to what was read is deleted and inserted.
\* A PUT that has read and not written yet is crossed by it.
ReferenceDiff(current, desired) == [toDelete |-> current \ desired, toInsert |-> desired \ current]
Crossed(q) == [q EXCEPT !.crossed = q.crossed \/ q.at = "read"]
WriteDiff(r) ==
  /\ r.at = "read"
  /\ LET diff == ReferenceDiff(r.existing, FilterTargets(r.refs))
     IN  links' = (links \ diff.toDelete) \cup diff.toInsert
  /\ puts' = {Crossed(q) : q \in puts \ {r}} \cup {[r EXCEPT !.at = "done", !.existing = {}, !.crossed = FALSE]}
  /\ stored' = [number |-> r.number, refs |-> r.refs, crossed |-> r.crossed]
  /\ UNCHANGED <<doc, synced, armed, edits, since, lastPut, early, starVars, media, mishaps>>
PutEnds(r) ==
  /\ r.at = "done"
  /\ puts' = puts \ {r}
  /\ UNCHANGED <<doc, links, synced, armed, edits, since, lastPut, stored, early, starVars, media, mishaps>>
\* "Clear the cache so the next change retries the PUT", unless the page was
\* opened again since.
PutFails(r) ==
  /\ ~r.lost /\ Mishap
  /\ \/ puts' = puts \ {r}
     \/ r.at # "done" /\ puts' = (puts \ {r}) \cup {[r EXCEPT !.lost = TRUE]}
  /\ synced' = IF r.number > since THEN Null ELSE synced
  /\ UNCHANGED <<doc, links, armed, edits, since, lastPut, stored, early, starVars, media>>
\* The page is left and opened again: the debounce is cancelled, and what the
\* document has by now counts as put.
Reopen ==
  /\ Mishap
  /\ armed' = FALSE /\ synced' = doc /\ since' = edits
  /\ early' = (early \/ armed)
  /\ UNCHANGED <<doc, links, puts, edits, lastPut, stored, starVars, media>>

-----------------------------------------------------------------------------
(* A file block: presign, PUT, the node's attachment                       *)
Picks == media.at = "empty" /\ media.node = Null /\ media.tries < MaxToggles
Presign ==
  /\ Picks
  /\ media' = [media EXCEPT !.at = "presigned", !.tries = @ + 1, !.rows = @ \cup {media.tries}]
  /\ UNCHANGED <<starVars, linkVars, mishaps>>
PutBytes ==
  /\ media.at = "presigned"
  /\ media' = [media EXCEPT !.at = "stored", !.bytes = @ \cup {media.tries - 1}]
  /\ UNCHANGED <<starVars, linkVars, mishaps>>
\* An UploadError, or an answer that is lost: the row stays without a node.
UploadFails ==
  /\ media.at \in {"presigned", "stored"} /\ Mishap
  /\ media' = [media EXCEPT !.at = "empty"]
  /\ UNCHANGED <<starVars, linkVars>>
StoreOnNode ==
  /\ media.at = "stored"
  /\ media' = [media EXCEPT !.at = "empty", !.node = media.tries - 1]
  /\ UNCHANGED <<starVars, linkVars, mishaps>>

StarNext ==
  \/ \E p \in Starable : Toggle(p)
  \/ \E c \in calls : CountFavorites(c) \/ WriteFavorite(c) \/ ToggleEnds(c) \/ ToggleFails(c)
  \/ LoadRead \/ LoadArrives \/ LoadFails \/ Elsewhere
LinkNext ==
  \/ EditDoc \/ Sync \/ Reopen
  \/ \E r \in puts : ReadExisting(r) \/ WriteDiff(r) \/ PutEnds(r) \/ PutFails(r)
MediaNext == Presign \/ PutBytes \/ UploadFails \/ StoreOnNode
PersonalSpec == PersonalInit /\ [][StarNext \/ LinkNext \/ MediaNext]_personalVars

-----------------------------------------------------------------------------
(* What the tab keeps in step is in step once nothing is under way.  The   *)
(* favorites it shows are the server's, in its order, after toggles that   *)
(* overlapped, failed or came back in another order, unless another client *)
(* or a toggle whose answer was lost changed them since they were fetched, *)
(* or a fetch failed; the stored references are those in the document, to  *)
(* pages that can be linked, unless the page was left with a PUT to come,  *)
(* the last PUT stored is not the last one sent, or another was stored     *)
(* between its read and its write; and the attachment a file block names   *)
(* has its row and its bytes.                                              *)
TabKeepsUp ==
  /\ calls = {} /\ loading = Quiet /\ ~unread => stars = Listed
  /\ puts = {} /\ ~armed /\ ~early /\ stored.number = lastPut.number /\ ~stored.crossed
       => links = FilterTargets(doc)
  /\ media.node # Null => media.node \in media.rows \cap media.bytes

(* "The stored set ends up exactly matching the (filtered) desired set"    *)
(* (setReferences).  PUTs of one page that overlap do not see to it: both  *)
(* may take the difference to the same set.                                *)
StoredAsDesired == links = FilterTargets(stored.refs)
=============================================================================
