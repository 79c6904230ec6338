------------------------------ MODULE TabProofs ------------------------------
(***************************************************************************)
(* Proofs about what a browser's tab keeps of the server's state: what a   *)
(* user has of their own, the menus that search, the workspace screen and  *)
(* the controls of a database's views; each for any constants and without  *)
(* the bounds on what may happen.                                          *)
(*                                                                         *)
(* Favorites, references and uploads.  What the tab reads or shows is what *)
(* the server has, or a call of the tab's own is to be answered yet        *)
(* (StarsInv); the document's references are those last put, or are to be, *)
(* and a PUT that no other crossed sees what is stored (LinksInv); a block *)
(* names an attachment after its bytes are there (MediaInv).               *)
(*                                                                         *)
(* Menus.  What the palette keeps for a term is the answer for it, and the *)
(* list always has an entry (PaletteInv); the composer's and the popup's   *)
(* last request is for what is typed, and is under way or its answer is    *)
(* the list (ComposerInv, PopupInv).                                       *)
(*                                                                         *)
(* The workspace screen.  What was read of the server, or is shown of it,  *)
(* is what the server has unless a write was done and not answered yet,    *)
(* whose answer has it read again (QueriesInv).  A field without the focus *)
(* has what is shown of the page or what it was left with (FieldsInv), and *)
(* what it was left with is stored or the one write of it will store it    *)
(* (LeftInv).  A page that is to go from the screen has its archive        *)
(* still to be answered (GoneInv).  The history's preview is of the        *)
(* version picked last (PreviewInv).                                       *)
(*                                                                         *)
(* View controls.  A request that no other for its place crossed carries   *)
(* what is stored but for its own part (WireOK); the builder's filter is   *)
(* the one its view has or is about to get (BuilderOK); what was not typed *)
(* into a property's form is what the property has (FormOK).               *)
(***************************************************************************)
EXTENDS Personal, Pickers, PageScreen, ViewScreen, FiniteSetTheorems, SequenceTheorems, TLAPS
----------------------------------------------------------------------------
(* Favorites. *)

\* A toggle's call, with whatever list it saw and number it counted.
IsCall(c) ==
  \E list, n : c \in [id : Nat, page : Starable, off : BOOLEAN, before : {list},
                   at : {"sent", "counted", "done"}, order : {n}, lost : BOOLEAN]

\* What was read, or is shown, is what the server has, unless a toggle that was
\* served since has still to have the list fetched again.
StarsInv ==
  /\ toggles \in Nat /\ \A c \in calls : IsCall(c)
  /\ loading.at = "read" /\ ~unread /\ (\A c \in calls : c.at # "done") => loading.list = Listed
  /\ loading = Quiet /\ ~unread /\ calls = {} => stars = Listed

LEMMA SameRows == favs' = favs => Listed' = Listed
BY DEF Listed, Earlier

LEMMA StarsInit == PersonalInit => StarsInv
<1> SUFFICES ASSUME PersonalInit PROVE StarsInv
  OBVIOUS
<1>1. favs = <<>> /\ stars = <<>> /\ calls = {} /\ loading = Quiet /\ toggles = 0
  BY DEF PersonalInit
<1>2. Listed = <<>>
  <2>1. DOMAIN favs = {}
    BY <1>1
  <2> QED
    BY <2>1 DEF Listed
<1> QED
  BY <1>1, <1>2 DEF StarsInv, Quiet

LEMMA StarsNext == StarsInv /\ StarNext => StarsInv'
<1> SUFFICES ASSUME StarsInv, StarNext PROVE StarsInv'
  OBVIOUS
<1>q. Quiet.at = "none" /\ Quiet = [at |-> "none", list |-> <<>>]
  BY DEF Quiet
<1>2. ASSUME NEW p \in Starable, Toggle(p) PROVE StarsInv'
  <2> DEFINE c == [id |-> toggles, page |-> p, off |-> p \in ToSet(stars), before |-> stars,
                   at |-> "sent", order |-> 0, lost |-> FALSE]
  <2>1. /\ calls' = calls \cup {c} /\ loading' = Quiet /\ toggles' = toggles + 1
        /\ UNCHANGED favs
    BY <1>2 DEF Toggle
  <2>2. IsCall(c)
    <3>1. c \in [id : Nat, page : Starable, off : BOOLEAN, before : {stars},
                 at : {"sent", "counted", "done"}, order : {0}, lost : BOOLEAN]
      BY DEF StarsInv
    <3> HIDE DEF c
    <3> QED
      BY <3>1 DEF IsCall
  <2> HIDE DEF c
  <2> QED
    BY <1>q, <2>1, <2>2 DEF StarsInv
<1>3. ASSUME NEW c \in calls, CountFavorites(c) PROVE StarsInv'
  <2> DEFINE d == [c EXCEPT !.at = "counted", !.order = Len(favs)]
  <2>1. IsCall(d) /\ d.at # "done" /\ c.at # "done"
    <3>1. PICK list, n : c \in [id : Nat, page : Starable, off : BOOLEAN, before : {list},
                             at : {"sent", "counted", "done"}, order : {n}, lost : BOOLEAN]
      BY DEF StarsInv, IsCall
    <3>2. c.at = "sent"
      BY <1>3 DEF CountFavorites
    <3>3. /\ d \in [id : Nat, page : Starable, off : BOOLEAN, before : {list},
                    at : {"sent", "counted", "done"}, order : {Len(favs)}, lost : BOOLEAN]
          /\ d.at # "done"
      BY <3>1, <3>2
    <3> HIDE DEF d
    <3> QED
      BY <3>2, <3>3 DEF IsCall
  <2>2. /\ calls' = (calls \ {c}) \cup {d}
        /\ UNCHANGED <<favs, stars, toggles, loading, unread>>
    BY <1>3 DEF CountFavorites
  <2> HIDE DEF d
  <2>3. (\A e \in calls' : e.at # "done") => \A e \in calls : e.at # "done"
    BY <2>1, <2>2
  <2>4. calls # {} /\ calls' # {} /\ Listed' = Listed
    BY SameRows, <2>2
  <2> QED
    BY <2>1, <2>2, <2>3, <2>4 DEF StarsInv
\* What is written has still to be answered, or counts as unread.
<1>9. ASSUME NEW c \in calls, WriteFavorite(c) PROVE StarsInv'
  <2> DEFINE d == [c EXCEPT !.at = "done", !.order = 0]
  <2>0. PICK list, n : c \in [id : Nat, page : Starable, off : BOOLEAN, before : {list},
                           at : {"sent", "counted", "done"}, order : {n}, lost : BOOLEAN]
    BY DEF StarsInv, IsCall
  <2>1. IsCall(d) /\ d.at = "done"
    <3>1. /\ d \in [id : Nat, page : Starable, off : BOOLEAN, before : {list},
                    at : {"sent", "counted", "done"}, order : {0}, lost : BOOLEAN]
          /\ d.at = "done"
      BY <2>0
    <3> HIDE DEF d
    <3> QED
      BY <3>1 DEF IsCall
  <2>2. /\ calls' = (calls \ {c}) \cup (IF c.lost THEN {} ELSE {d})
        /\ unread' = (unread \/ c.lost) /\ UNCHANGED <<toggles, loading>>
    BY <1>9 DEF WriteFavorite
  <2>3. unread' \/ d \in calls'
    BY <2>0, <2>2
  <2> HIDE DEF d
  <2>4. calls' \subseteq calls \cup {d}
    BY <2>2
  <2> QED
    BY <2>1, <2>2, <2>3, <2>4 DEF StarsInv
\* The end of a toggle has the list fetched again.
<1>4. ASSUME NEW c \in calls, ToggleEnds(c) \/ ToggleFails(c) PROVE StarsInv'
  <2> DEFINE d == [c EXCEPT !.lost = TRUE, !.before = <<>>]
  <2>1. /\ loading' = [at |-> "asked", list |-> <<>>]
        /\ UNCHANGED <<favs, toggles>>
        /\ calls' \in {calls \ {c}, (calls \ {c}) \cup {d}}
    BY <1>4 DEF ToggleEnds, ToggleFails, AfterToggle
  <2>2. loading'.at = "asked" /\ loading' # Quiet
    BY <1>q, <2>1
  <2>3. IsCall(d)
    <3>1. PICK list, n : c \in [id : Nat, page : Starable, off : BOOLEAN, before : {list},
                             at : {"sent", "counted", "done"}, order : {n}, lost : BOOLEAN]
      BY DEF StarsInv, IsCall
    <3>2. d \in [id : Nat, page : Starable, off : BOOLEAN, before : {<<>>},
                 at : {"sent", "counted", "done"}, order : {n}, lost : BOOLEAN]
      BY <3>1
    <3> HIDE DEF d
    <3> QED
      BY <3>2 DEF IsCall
  <2> HIDE DEF d
  <2>4. \A e \in calls' : IsCall(e)
    BY <2>1, <2>3 DEF StarsInv
  <2> QED
    BY <2>1, <2>2, <2>4 DEF StarsInv
<1>5. CASE LoadRead
  <2>1. /\ loading' = [at |-> "read", list |-> Listed]
        /\ calls' = calls /\ favs' = favs /\ toggles' = toggles
    BY <1>5 DEF LoadRead
  <2>2. loading'.at = "read" /\ loading'.list = Listed /\ loading' # Quiet
    BY <1>q, <2>1
  <2> QED
    BY SameRows, <2>1, <2>2 DEF StarsInv
<1>6. CASE LoadArrives
  <2>1. /\ loading.at = "read" /\ stars' = loading.list /\ loading' = Quiet
        /\ calls' = calls /\ favs' = favs /\ unread' = unread /\ toggles' = toggles
    BY <1>6 DEF LoadArrives
  <2> QED
    BY SameRows, <1>q, <2>1 DEF StarsInv
<1>7. CASE LoadFails
  BY <1>7, <1>q DEF LoadFails, StarsInv
<1>8. CASE Elsewhere
  BY <1>8 DEF Elsewhere, StarsInv
<1> QED
  BY <1>2, <1>3, <1>4, <1>5, <1>6, <1>7, <1>8, <1>9 DEF StarNext

----------------------------------------------------------------------------
(* References. *)

Put == [refs : SUBSET Targets, number : Nat, at : {"sent", "read", "done"},
        existing : SUBSET Targets, crossed : BOOLEAN, lost : BOOLEAN]

\* A PUT's number is of the references it was sent with.
Numbered(number, refs) ==
  /\ number \in Nat /\ number <= lastPut.number
  /\ number = lastPut.number => refs = lastPut.refs

\* What is put last is the document's, until the document changes or the page
\* is left; what a PUT has read is what is stored, and what is stored is what
\* the last PUT desired, unless another was stored in between.
LinksInv ==
  /\ doc \subseteq Targets /\ links \subseteq Targets /\ puts \subseteq Put
  /\ edits \in Nat /\ lastPut.number \in Nat /\ lastPut.number <= edits
  /\ armed \in BOOLEAN /\ early \in BOOLEAN
  /\ \A r \in puts : Numbered(r.number, r.refs)
  /\ Numbered(stored.number, stored.refs)
  /\ armed => lastPut.number < edits
  /\ early \/ armed \/ doc = lastPut.refs
  /\ early \/ synced = Null \/ synced = lastPut.refs
  /\ \A r \in puts : r.at = "read" /\ ~r.crossed => r.existing = links
  /\ ~stored.crossed => links = FilterTargets(stored.refs)

LEMMA LinksInit == PersonalInit => LinksInv
<1> SUFFICES ASSUME PersonalInit PROVE LinksInv
  OBVIOUS
<1>1. /\ doc = {} /\ links = {} /\ synced = {} /\ armed = FALSE
      /\ puts = {} /\ edits = 0 /\ early = FALSE
      /\ lastPut.number = 0 /\ lastPut.refs = {}
      /\ stored.number = 0 /\ stored.refs = {} /\ stored.crossed = FALSE
  BY DEF PersonalInit
<1>b. armed \in BOOLEAN /\ early \in BOOLEAN /\ ~armed
  BY <1>1
<1>2. /\ doc \subseteq Targets /\ links \subseteq Targets /\ puts \subseteq Put
      /\ edits \in Nat /\ lastPut.number \in Nat /\ lastPut.number <= edits
  BY <1>1
<1>3. Numbered(stored.number, stored.refs)
  BY <1>1 DEF Numbered
<1>4. links = FilterTargets(stored.refs)
  BY <1>1 DEF FilterTargets
<1>5. \A r \in puts : Numbered(r.number, r.refs) /\ r.at # "read"
  BY <1>1
<1>6. doc = lastPut.refs /\ synced = lastPut.refs
  BY <1>1
<1> QED
  BY <1>b, <1>2, <1>3, <1>4, <1>5, <1>6 DEF LinksInv

LEMMA LinksNext == LinksInv /\ LinkNext => LinksInv'
<1> SUFFICES ASSUME LinksInv, LinkNext PROVE LinksInv'
  OBVIOUS
<1>n. \A refs \in SUBSET Targets : refs # Null
  BY PersonalAssumption
<1>1. CASE EditDoc
  <2>1. /\ edits' = edits + 1 /\ armed' = TRUE /\ doc' \subseteq Targets
        /\ UNCHANGED <<links, synced, puts, lastPut, stored, early>>
    BY <1>1 DEF EditDoc, ExtractReferences
  <2> QED
    BY <2>1 DEF LinksInv, Numbered, FilterTargets
<1>2. CASE Sync
  <2>1. /\ armed /\ armed' = FALSE /\ UNCHANGED <<doc, links, edits, stored>>
    BY <1>2 DEF Sync
  <2>2. CASE synced = doc
    <3>1. UNCHANGED <<synced, puts, lastPut, early>>
      BY <1>2, <2>2 DEF Sync
    <3>2. early \/ doc = lastPut.refs
      BY <1>n, <2>2 DEF LinksInv
    <3> QED
      BY <2>1, <3>1, <3>2 DEF LinksInv, FilterTargets, Numbered
  <2>3. CASE synced # doc
    <3>0. PICK r : r = [refs |-> doc, number |-> edits, at |-> "sent", existing |-> {},
                        crossed |-> FALSE, lost |-> FALSE]
      OBVIOUS
    <3>1. /\ synced' = doc /\ puts' = puts \cup {r} /\ early' = FALSE
          /\ lastPut' = [number |-> edits, refs |-> doc]
      BY <1>2, <2>3, <3>0 DEF Sync
    <3>2. r \in Put /\ r.at = "sent" /\ r.refs = doc /\ r.number = edits
      BY <3>0 DEF Put, LinksInv
    <3>3. lastPut'.number = edits /\ lastPut'.refs = doc
      BY <3>1
    <3>4. \A q \in puts : q.number \in Nat /\ q.number < edits
      BY <2>1 DEF LinksInv, Numbered
    <3>5. \A q \in puts' : Numbered(q.number, q.refs)'
      BY <3>1, <3>2, <3>3, <3>4 DEF Numbered, LinksInv
    <3>6. Numbered(stored.number, stored.refs)'
      BY <2>1, <3>3 DEF Numbered, LinksInv
    <3>7. /\ doc' \subseteq Targets /\ links' \subseteq Targets /\ puts' \subseteq Put
          /\ edits' \in Nat /\ lastPut'.number \in Nat /\ lastPut'.number <= edits'
      BY <2>1, <3>1, <3>2, <3>3 DEF LinksInv
    <3>8. doc' = lastPut'.refs /\ synced' = lastPut'.refs
      BY <2>1, <3>1, <3>3
    <3>9. \A q \in puts' : q.at = "read" /\ ~q.crossed => q.existing = links'
      BY <2>1, <3>1, <3>2 DEF LinksInv
    <3>10. ~stored'.crossed => links' = FilterTargets(stored.refs)'
      BY <2>1 DEF LinksInv, FilterTargets
    <3>b. armed' \in BOOLEAN /\ early' \in BOOLEAN /\ ~armed'
      BY <2>1, <3>1
    <3> QED
      BY <3>b, <3>5, <3>6, <3>7, <3>8, <3>9, <3>10 DEF LinksInv
  <2> QED
    BY <2>2, <2>3
<1>3. CASE Reopen
  <2>1. /\ armed' = FALSE /\ synced' = doc /\ early' = (early \/ armed)
        /\ UNCHANGED <<doc, links, puts, edits, lastPut, stored>>
    BY <1>3 DEF Reopen
  <2>2. early' \in BOOLEAN /\ (early' \/ doc = lastPut.refs)
    BY <2>1 DEF LinksInv
  <2> QED
    BY <2>1, <2>2 DEF LinksInv, FilterTargets, Numbered
<1>4. ASSUME NEW r \in puts, ReadExisting(r) PROVE LinksInv'
  <2> DEFINE d == [r EXCEPT !.at = "read", !.existing = links]
  <2>1. /\ puts' = (puts \ {r}) \cup {d}
        /\ UNCHANGED <<doc, links, synced, armed, edits, lastPut, stored, early>>
    BY <1>4 DEF ReadExisting
  <2>2. d \in Put /\ d.existing = links /\ d.number = r.number /\ d.refs = r.refs
    BY DEF LinksInv, Put
  <2> HIDE DEF d
  <2> QED
    BY <2>1, <2>2 DEF LinksInv, FilterTargets, Numbered
\* The difference to what is stored makes it what is desired.
<1>5. ASSUME NEW r \in puts, WriteDiff(r) PROVE LinksInv'
  <2> DEFINE d == [r EXCEPT !.at = "done", !.existing = {}, !.crossed = FALSE]
  <2>1. /\ puts' = {Crossed(q) : q \in puts \ {r}} \cup {d} /\ r.at = "read"
        /\ stored' = [number |-> r.number, refs |-> r.refs, crossed |-> r.crossed]
        /\ UNCHANGED <<doc, synced, armed, edits, lastPut, early>>
    BY <1>5 DEF WriteDiff
  <2>2. links' = (links \ (r.existing \ FilterTargets(r.refs)))
                   \cup (FilterTargets(r.refs) \ r.existing)
    BY <1>5 DEF WriteDiff, ReferenceDiff
  <2>3. r \in Put /\ Numbered(r.number, r.refs)
    BY DEF LinksInv
  <2>4. /\ d \in Put /\ d.at = "done" /\ Numbered(d.number, d.refs)
    BY <2>3 DEF Put
  <2>5. ASSUME NEW q \in puts
        PROVE  /\ Crossed(q) \in Put /\ Numbered(Crossed(q).number, Crossed(q).refs)
               /\ Crossed(q).at = "read" => Crossed(q).crossed
    <3>1. q \in Put /\ Numbered(q.number, q.refs)
      BY DEF LinksInv
    <3> QED
      BY <3>1 DEF Crossed, Put
  <2> HIDE DEF d
  <2>6. /\ puts' \subseteq Put
        /\ \A q \in puts' : Numbered(q.number, q.refs)
        /\ \A q \in puts' : q.at = "read" => q.crossed
    BY <2>1, <2>4, <2>5
  <2>7. links' \subseteq Targets
    BY <2>2, <2>3 DEF LinksInv, FilterTargets, Put
  <2>8. stored'.number = r.number /\ stored'.refs = r.refs /\ stored'.crossed = r.crossed
    BY <2>1
  <2>9. ~stored'.crossed => links' = FilterTargets(stored'.refs)
    <3>1. ~r.crossed => r.existing = links
      BY <2>1 DEF LinksInv
    <3> QED
      BY <2>2, <2>8, <3>1
  <2>10. \A q \in puts' : Numbered(q.number, q.refs)'
    BY <2>1, <2>6 DEF Numbered
  <2>11. Numbered(stored.number, stored.refs)'
    BY <2>1, <2>3, <2>8 DEF Numbered
  <2> QED
    BY <2>1, <2>6, <2>7, <2>9, <2>10, <2>11 DEF LinksInv, FilterTargets
<1>6. ASSUME NEW r \in puts, PutEnds(r) PROVE LinksInv'
  <2>1. /\ puts' = puts \ {r}
        /\ UNCHANGED <<doc, links, synced, armed, edits, lastPut, stored, early>>
    BY <1>6 DEF PutEnds
  <2> QED
    BY <2>1 DEF LinksInv, FilterTargets, Numbered
<1>7. ASSUME NEW r \in puts, PutFails(r) PROVE LinksInv'
  <2> DEFINE d == [r EXCEPT !.lost = TRUE]
  <2>1. /\ puts' \in {puts \ {r}, (puts \ {r}) \cup {d}}
        /\ synced' \in {Null, synced}
        /\ UNCHANGED <<doc, links, armed, edits, lastPut, stored, early>>
    BY <1>7 DEF PutFails
  <2>2. /\ d \in Put /\ d.number = r.number /\ d.refs = r.refs
        /\ d.at = r.at /\ d.crossed = r.crossed /\ d.existing = r.existing
    BY DEF LinksInv, Put
  <2> HIDE DEF d
  <2>3. /\ puts' \subseteq Put
        /\ \A q \in puts' : Numbered(q.number, q.refs)
        /\ \A q \in puts' : q.at = "read" /\ ~q.crossed => q.existing = links
    BY <2>1, <2>2 DEF LinksInv
  <2> QED
    BY <2>1, <2>3 DEF LinksInv, FilterTargets, Numbered
<1> QED
  BY <1>1, <1>2, <1>3, <1>4, <1>5, <1>6, <1>7 DEF LinkNext

----------------------------------------------------------------------------
(* A file block. *)

\* The row is there from the presigned URL on, the bytes from the PUT on.
MediaInv ==
  /\ media \in [at : {"empty", "presigned", "stored"}, tries : Nat,
                rows : SUBSET Int, bytes : SUBSET Int, node : Nat \cup {Null}]
  /\ media.at \in {"presigned", "stored"} => media.tries - 1 \in media.rows /\ media.tries # 0
  /\ media.at = "stored" => media.tries - 1 \in media.bytes
  /\ media.node # Null => media.node \in media.rows \cap media.bytes

LEMMA MediaInit == PersonalInit => MediaInv
BY DEF PersonalInit, MediaInv

LEMMA MediaSteps == MediaInv /\ MediaNext => MediaInv'
<1> SUFFICES ASSUME MediaInv, MediaNext PROVE MediaInv'
  OBVIOUS
<1>1. CASE Presign
  <2>1. media' = [media EXCEPT !.at = "presigned", !.tries = media.tries + 1,
                               !.rows = media.rows \cup {media.tries}]
    BY <1>1 DEF Presign
  <2>2. /\ media'.at = "presigned" /\ media'.tries = media.tries + 1
        /\ media'.rows = media.rows \cup {media.tries}
        /\ media'.bytes = media.bytes /\ media'.node = media.node
    BY <2>1 DEF MediaInv
  <2>3. media.rows \cup {media.tries} \in SUBSET Int /\ media.tries + 1 \in Nat
    BY DEF MediaInv
  <2>4. media' \in [at : {"empty", "presigned", "stored"}, tries : Nat,
                    rows : SUBSET Int, bytes : SUBSET Int, node : Nat \cup {Null}]
    BY <2>1, <2>3 DEF MediaInv
  <2> QED
    BY <2>2, <2>4 DEF MediaInv
<1>2. CASE PutBytes
  BY <1>2 DEF PutBytes, MediaInv
<1>3. CASE UploadFails
  BY <1>3 DEF UploadFails, MediaInv
<1>4. CASE StoreOnNode
  <2>1. media' = [media EXCEPT !.at = "empty", !.node = media.tries - 1] /\ media.at = "stored"
    BY <1>4 DEF StoreOnNode
  <2>2. /\ media'.at = "empty" /\ media'.node = media.tries - 1
        /\ media'.rows = media.rows /\ media'.bytes = media.bytes
    BY <2>1 DEF MediaInv
  <2>3. media.tries - 1 \in Nat
    BY <2>1 DEF MediaInv
  <2>4. media' \in [at : {"empty", "presigned", "stored"}, tries : Nat,
                    rows : SUBSET Int, bytes : SUBSET Int, node : Nat \cup {Null}]
    BY <2>1, <2>3 DEF MediaInv
  <2> QED
    BY <2>1, <2>2, <2>4 DEF MediaInv
<1> QED
  BY <1>1, <1>2, <1>3, <1>4 DEF MediaNext

----------------------------------------------------------------------------
(* The three share the count of what goes wrong only. *)

PersonalInv == StarsInv /\ LinksInv /\ MediaInv

LEMMA PersonalStep ==
  PersonalInv /\ [StarNext \/ LinkNext \/ MediaNext]_personalVars => PersonalInv'
<1> SUFFICES ASSUME PersonalInv, [StarNext \/ LinkNext \/ MediaNext]_personalVars
             PROVE  PersonalInv'
  OBVIOUS
<1>1. UNCHANGED starVars => StarsInv'
  BY SameRows DEF starVars, PersonalInv, StarsInv
<1>2. UNCHANGED linkVars => LinksInv'
  BY DEF linkVars, PersonalInv, LinksInv, Numbered, FilterTargets
<1>3. UNCHANGED media => MediaInv'
  BY DEF PersonalInv, MediaInv
<1>4. CASE StarNext
  <2>1. UNCHANGED <<linkVars, media>>
    BY <1>4 DEF StarNext, Toggle, CountFavorites, WriteFavorite, ToggleEnds, ToggleFails, LoadRead, LoadArrives,
                LoadFails, Elsewhere
  <2> QED
    BY <1>2, <1>3, <1>4, <2>1, StarsNext DEF PersonalInv
<1>5. CASE LinkNext
  <2>1. UNCHANGED <<starVars, media>>
    BY <1>5 DEF LinkNext, EditDoc, Sync, Reopen, ReadExisting, WriteDiff, PutEnds, PutFails
  <2> QED
    BY <1>1, <1>3, <1>5, <2>1, LinksNext DEF PersonalInv
<1>6. CASE MediaNext
  <2>1. UNCHANGED <<starVars, linkVars>>
    BY <1>6 DEF MediaNext, Presign, PutBytes, UploadFails, StoreOnNode
  <2> QED
    BY <1>1, <1>2, <1>6, <2>1, MediaSteps DEF PersonalInv
<1>7. CASE UNCHANGED personalVars
  BY <1>1, <1>2, <1>3, <1>7 DEF personalVars, PersonalInv
<1> QED
  BY <1>4, <1>5, <1>6, <1>7

\* What is under way at any time settles into what the server has.
THEOREM PersonalInvariant == PersonalSpec => []PersonalInv
<1>1. PersonalInit => PersonalInv
  BY StarsInit, LinksInit, MediaInit DEF PersonalInv
<1> QED
  BY <1>1, PersonalStep, PTL DEF PersonalSpec

LEMMA PersonalSettles == PersonalInv => TabKeepsUp
<1> SUFFICES ASSUME PersonalInv PROVE TabKeepsUp
  OBVIOUS
<1>1. calls = {} /\ loading = Quiet /\ ~unread => stars = Listed
  BY DEF PersonalInv, StarsInv
<1>2. puts = {} /\ ~armed /\ ~early /\ stored.number = lastPut.number /\ ~stored.crossed
        => links = FilterTargets(doc)
  BY DEF PersonalInv, LinksInv, Numbered
<1>3. media.node # Null => media.node \in media.rows \cap media.bytes
  BY DEF PersonalInv, MediaInv
<1> QED
  BY <1>1, <1>2, <1>3 DEF TabKeepsUp

\* However toggles, PUTs and uploads overlap, fail or come back in another
\* order: once nothing is under way, favorites, references and attachments are
\* the server's (favoritesQueries, useReferenceSync, MediaView).
THEOREM TabIsInStep == PersonalSpec => []TabKeepsUp
BY PersonalInvariant, PersonalSettles, PTL

----------------------------------------------------------------------------
(* Lists. *)

LEMMA ListsJoin ==
  ASSUME NEW s, NEW t, IsList(s), IsList(t)
  PROVE  IsList(s \o t) /\ Len(s \o t) = Len(s) + Len(t) /\ Len(s) \in Nat /\ Len(t) \in Nat
<1> DEFINE S == {s[i] : i \in DOMAIN s}
<1> DEFINE T == {t[i] : i \in DOMAIN t}
<1>1. s \in Seq(S \cup T) /\ t \in Seq(S \cup T)
  <2>1. s \in Seq(S) /\ t \in Seq(T)
    BY DEF IsList
  <2> HIDE DEF S, T
  <2> QED
    BY <2>1
<1> HIDE DEF S, T
<1>2. /\ s \o t \in Seq(S \cup T) /\ Len(s \o t) = Len(s) + Len(t)
      /\ Len(s) \in Nat /\ Len(t) \in Nat
  BY <1>1
<1>3. ASSUME NEW u \in Seq(S \cup T) PROVE IsList(u)
  BY DEF IsList
<1> QED
  BY <1>2, <1>3

LEMMA FirstIsList ==
  ASSUME NEW s, NEW n \in Nat, IsList(s)
  PROVE  IsList(First(s, n))
<1> DEFINE S == {s[i] : i \in DOMAIN s}
<1>1. s \in Seq(S)
  BY DEF IsList
<1> HIDE DEF S
<1>2. First(s, n) \in Seq(S)
  <2> DEFINE m == IF Len(s) < n THEN Len(s) ELSE n
  <2>1. m \in Nat /\ m <= Len(s) /\ Len(s) \in Nat
    BY <1>1
  <2>2. First(s, n) = SubSeq(s, 1, m)
    BY DEF First
  <2> HIDE DEF m
  <2> QED
    BY <1>1, <2>1, <2>2
<1>3. ASSUME NEW u \in Seq(S) PROVE IsList(u)
  BY DEF IsList
<1> QED
  BY <1>2, <1>3

LEMMA ListLength ==
  ASSUME NEW s, IsList(s)
  PROVE  Len(s) \in Nat /\ (s # <<>> => Len(s) > 0)
BY DEF IsList

LEMMA NoneIsList == IsList(<<>>)
BY DEF IsList

LEMMA AnswerIsList == ASSUME NEW t \in Term PROVE IsList(SearchAnswer(t))
BY PickersAssumption, FirstIsList DEF SearchAnswer

LEMMA ItemsAreList == ASSUME NEW t \in Text, IsList(<<Self>>) PROVE IsList(ItemsOf(t))
<1>1. IsList(IF trigger = "@" THEN Mentionable(t).users ELSE <<>>)
  BY PickersAssumption, FirstIsList, NoneIsList DEF Mentionable, Text
<1>2. IsList(Mentionable(t).pages)
  BY PickersAssumption, FirstIsList DEF Mentionable, Text
<1> QED
  BY <1>1, <1>2, ListsJoin DEF ItemsOf

LEMMA OneIsList == IsList(<<Self>>)
BY DEF IsList

LEMMA Wraps == ASSUME NEW i \in Nat, NEW n \in Nat, n > 0
               PROVE  i % n \in Nat /\ i % n < n
OBVIOUS

----------------------------------------------------------------------------
(* The palette. *)

\* What is kept by term is the answer for it, and a term that is not being
\* asked for has been answered or has failed.
PaletteInv ==
  /\ raw \in Text /\ query \in Text /\ fetches \subseteq Term
  /\ ticking \in BOOLEAN /\ (~ticking => query = raw)
  /\ DOMAIN found = Term /\ found = [t \in Term |-> found[t]]
  /\ \A t \in Term : found[t] \in {Off, Blank, SearchAnswer(t)}
  /\ \A t \in fetches : found[t] = Off
  /\ query \in Term \ fetches => found[query] # Off
  /\ before = Blank \/ (before \in Term /\ found[before] = SearchAnswer(before))
  /\ active \in Nat /\ active < Len(Entries)

\* The list is never empty, whatever has been found.
LEMMA SomeEntries ==
  ASSUME NEW R, IsList(R), NEW F, IsList(F)
  PROVE  Len(F \o R \o Actions) \in Nat /\ Len(F \o R \o Actions) > 0
<1>1. IsList(F \o R)
  BY ListsJoin
<1>2. IsList(Actions) /\ Actions # <<>>
  BY PickersAssumption
<1> HIDE DEF IsList
<1>3. /\ Len(F \o R \o Actions) = Len(F \o R) + Len(Actions)
      /\ Len(F \o R) \in Nat /\ Len(Actions) \in Nat
  BY <1>1, <1>2, ListsJoin
<1>4. Len(Actions) > 0
  BY <1>2, ListLength
<1> QED
  BY <1>3, <1>4

\* What is known of the answers is enough for the list to be one.
PaletteKeeps ==
  /\ query \in Text
  /\ \A t \in Term : found[t] \in {Off, Blank, SearchAnswer(t)}
  /\ before = Blank \/ (before \in Term /\ found[before] = SearchAnswer(before))

EntriesCount == Len(Entries) \in Nat /\ Len(Entries) > 0

LEMMA EntriesAreSome == PaletteKeeps => EntriesCount
<1> SUFFICES ASSUME PaletteKeeps PROVE EntriesCount
  OBVIOUS
<1>1. IsList(Results)
  <2>1. ASSUME Answered(query) PROVE IsList(found[query])
    BY <2>1, AnswerIsList DEF PaletteKeeps, Answered
  <2>2. ASSUME before # Blank PROVE IsList(found[before])
    BY <2>2, AnswerIsList DEF PaletteKeeps
  <2> QED
    BY <2>1, <2>2, NoneIsList DEF Results
<1>2. IsList(IF query = Blank THEN FavoriteList ELSE <<>>)
  BY NoneIsList, PickersAssumption
<1> QED
  BY <1>1, <1>2, SomeEntries DEF Entries, EntriesCount

LEMMA WithinIs == ASSUME NEW i \in Nat, NEW n \in Nat, n > 0
                  PROVE  Within(i, n) \in Nat /\ Within(i, n) < n
BY DEF Within

\* So the highlight stays within it.
LEMMA HighlightStays ==
  active \in Nat /\ PaletteKeeps' /\ Rehighlight => active' \in Nat /\ active' < Len(Entries')
<1> SUFFICES ASSUME active \in Nat, PaletteKeeps', Rehighlight
             PROVE  active' \in Nat /\ active' < Len(Entries')
  OBVIOUS
<1>1. Len(Entries') \in Nat /\ Len(Entries') > 0
  <2>1. EntriesCount'
    BY EntriesAreSome, PTL
  <2> QED
    BY <2>1 DEF EntriesCount
<1>2. PICK n : n = Len(Entries')
  OBVIOUS
<1>3. active' = Within(active, n)
  BY <1>2 DEF Rehighlight
<1> QED
  BY <1>1, <1>2, <1>3, WithinIs

LEMMA PaletteInit == PickerInit => PaletteInv
<1> SUFFICES ASSUME PickerInit PROVE PaletteInv
  OBVIOUS
<1>1. /\ raw = Blank /\ query = Blank /\ ticking = FALSE /\ fetches = {}
      /\ found = [t \in Term |-> Off] /\ before = Blank /\ active = 0
  BY DEF PickerInit
<1>2. PaletteKeeps
  BY <1>1 DEF PaletteKeeps, Text
<1>3. Len(Entries) \in Nat /\ Len(Entries) > 0
  BY <1>2, EntriesAreSome DEF EntriesCount
<1> QED
  BY <1>1, <1>3, PickersAssumption DEF PaletteInv, Text

LEMMA PaletteSame == PaletteInv /\ UNCHANGED paletteVars => PaletteInv'
<1> SUFFICES ASSUME PaletteInv, UNCHANGED paletteVars PROVE PaletteInv'
  OBVIOUS
<1>1. UNCHANGED <<raw, query, ticking, fetches, found, before, active>>
  BY DEF paletteVars
<1>2. Entries' = Entries
  BY <1>1 DEF Entries, Results, Answered
<1> QED
  BY <1>1, <1>2 DEF PaletteInv

LEMMA PaletteStep == PaletteInv /\ PaletteNext => PaletteInv'
<1> SUFFICES ASSUME PaletteInv, PaletteNext PROVE PaletteInv'
  OBVIOUS
<1>k. PaletteKeeps
  BY DEF PaletteInv, PaletteKeeps
<1>n. Len(Entries) \in Nat /\ Len(Entries) > 0
  BY <1>k, EntriesAreSome DEF EntriesCount
<1>1. ASSUME NEW t \in Text, TypeQuery(t) PROVE PaletteInv'
  <2>1. UNCHANGED <<query, fetches, found, before, active>> /\ raw' = t /\ ticking' = TRUE
    BY <1>1 DEF TypeQuery
  <2>2. Entries' = Entries
    BY <2>1 DEF Entries, Results, Answered
  <2> QED
    BY <2>1, <2>2 DEF PaletteInv
<1>2. CASE AskFor
  <2> DEFINE goesOut == raw \in Term /\ ~Answered(raw)
  <2>1. /\ ticking' = FALSE /\ query' = raw /\ raw' = raw /\ Rehighlight
        /\ fetches' = IF goesOut THEN fetches \cup {raw} ELSE fetches
        /\ found' = IF goesOut THEN [found EXCEPT ![raw] = Off] ELSE found
        /\ before' = IF Answered(raw) THEN raw ELSE before
    BY <1>2 DEF AskFor
  <2>2. /\ DOMAIN found' = Term /\ found' = [t \in Term |-> found'[t]]
        /\ \A t \in Term : found'[t] = IF goesOut /\ t = raw THEN Off ELSE found[t]
    BY <2>1 DEF PaletteInv
  <2>3. \A t \in Term : SearchAnswer(t) \notin {Blank, Off}
    BY PickersAssumption DEF SearchAnswer
  <2>4. before' = Blank \/ (before' \in Term /\ found'[before'] = SearchAnswer(before'))
    <3>1. CASE Answered(raw)
      BY <2>1, <2>2, <3>1 DEF PaletteInv, Answered
    <3>2. CASE ~Answered(raw)
      <4>1. before' = before
        BY <2>1, <3>2
      <4>2. CASE before = Blank
        BY <4>1, <4>2
      <4>3. CASE before # Blank
        <5>1. before \in Term /\ found[before] = SearchAnswer(before)
          BY <4>3 DEF PaletteInv
        <5>2. Answered(before)
          BY <5>1, <2>3 DEF Answered
        <5>3. before # raw
          BY <5>2, <3>2
        <5> QED
          BY <4>1, <5>1, <5>3, <2>2
      <4> QED
        BY <4>2, <4>3
    <3> QED
      BY <3>1, <3>2
  <2>5. \A t \in Term : found'[t] \in {Off, Blank, SearchAnswer(t)}
    BY <2>2 DEF PaletteInv
  <2>6. PaletteKeeps'
    <3>1. query' \in Text
      BY <2>1 DEF PaletteInv
    <3> QED
      BY <2>4, <2>5, <3>1 DEF PaletteKeeps, SearchAnswer
  <2>7. active' \in Nat /\ active' < Len(Entries')
    BY <2>1, <2>6, HighlightStays DEF PaletteInv
  <2>8. \A t \in fetches' : found'[t] = Off
    BY <2>1, <2>2 DEF PaletteInv
  <2>9. query' \in Term \ fetches' => found'[query'] # Off
    BY <2>1, <2>2 DEF Answered
  <2>10. fetches' \subseteq Term
    BY <2>1 DEF PaletteInv
  <2> HIDE DEF goesOut
  <2> QED
    BY <2>1, <2>2, <2>4, <2>5, <2>7, <2>8, <2>9, <2>10 DEF PaletteInv, SearchAnswer
<1>3. ASSUME NEW t \in fetches, SearchArrives(t) PROVE PaletteInv'
  <2>1. /\ fetches' = fetches \ {t} /\ found' = [found EXCEPT ![t] = SearchAnswer(t)]
        /\ before' = IF t = query THEN t ELSE before
        /\ UNCHANGED <<raw, query, ticking>> /\ Rehighlight
    BY <1>3 DEF SearchArrives
  <2>2. /\ t \in Term /\ DOMAIN found' = Term /\ found' = [u \in Term |-> found'[u]]
        /\ \A u \in Term : found'[u] = IF u = t THEN SearchAnswer(t) ELSE found[u]
    BY <2>1 DEF PaletteInv
  <2>3. SearchAnswer(t) \notin {Blank, Off}
    BY <2>2, PickersAssumption DEF SearchAnswer
  <2>4. before' = Blank \/ (before' \in Term /\ found'[before'] = SearchAnswer(before'))
    BY <2>1, <2>2 DEF PaletteInv
  <2>5. \A u \in Term : found'[u] \in {Off, Blank, SearchAnswer(u)}
    BY <2>2 DEF PaletteInv
  <2>6. PaletteKeeps'
    <3>1. query' \in Text
      BY <2>1 DEF PaletteInv
    <3> QED
      BY <2>4, <2>5, <3>1 DEF PaletteKeeps, SearchAnswer
  <2>7. active' \in Nat /\ active' < Len(Entries')
    BY <2>1, <2>6, HighlightStays DEF PaletteInv
  <2>8. \A u \in fetches' : found'[u] = Off
    BY <2>1, <2>2 DEF PaletteInv
  <2>9. query' \in Term \ fetches' => found'[query'] # Off
    BY <2>1, <2>2, <2>3 DEF PaletteInv
  <2>10. fetches' \subseteq Term
    BY <2>1 DEF PaletteInv
  <2> QED
    BY <2>1, <2>2, <2>4, <2>5, <2>7, <2>8, <2>9, <2>10 DEF PaletteInv, SearchAnswer
<1>4. ASSUME NEW t \in fetches, SearchFails(t) PROVE PaletteInv'
  <2>1. /\ fetches' = fetches \ {t} /\ found' = [found EXCEPT ![t] = Blank]
        /\ UNCHANGED <<raw, query, ticking, before>> /\ Rehighlight
    BY <1>4 DEF SearchFails
  <2>2. /\ t \in Term /\ DOMAIN found' = Term /\ found' = [u \in Term |-> found'[u]]
        /\ \A u \in Term : found'[u] = IF u = t THEN Blank ELSE found[u]
    BY <2>1 DEF PaletteInv
  <2>3. SearchAnswer(t) \notin {Blank, Off} /\ found[t] = Off /\ Off # Blank
    BY <2>2, PickersAssumption DEF SearchAnswer, PaletteInv
  <2>4. before' = Blank \/ (before' \in Term /\ found'[before'] = SearchAnswer(before'))
    BY <2>1, <2>2, <2>3 DEF PaletteInv
  <2>5. \A u \in Term : found'[u] \in {Off, Blank, SearchAnswer(u)}
    BY <2>2 DEF PaletteInv
  <2>6. PaletteKeeps'
    <3>1. query' \in Text
      BY <2>1 DEF PaletteInv
    <3> QED
      BY <2>4, <2>5, <3>1 DEF PaletteKeeps, SearchAnswer
  <2>7. active' \in Nat /\ active' < Len(Entries')
    BY <2>1, <2>6, HighlightStays DEF PaletteInv
  <2>8. \A u \in fetches' : found'[u] = Off
    BY <2>1, <2>2 DEF PaletteInv
  <2>9. query' \in Term \ fetches' => found'[query'] # Off
    BY <2>1, <2>2, <2>3 DEF PaletteInv
  <2>10. fetches' \subseteq Term
    BY <2>1 DEF PaletteInv
  <2> QED
    BY <2>1, <2>2, <2>4, <2>5, <2>7, <2>8, <2>9, <2>10 DEF PaletteInv, SearchAnswer
<1>5. CASE Highlight
  <2>1. UNCHANGED <<raw, query, ticking, fetches, found, before>>
    BY <1>5 DEF Highlight
  <2>2. Entries' = Entries
    BY <2>1 DEF Entries, Results, Answered
  <2>3. active' \in Nat /\ active' < Len(Entries)
    <3>1. PICK n : n = Len(Entries)
      OBVIOUS
    <3>2. active' \in {(active + 1) % n, (active + n - 1) % n} /\ active \in Nat
      BY <1>5, <3>1 DEF Highlight, PaletteInv
    <3>3. active + 1 \in Nat /\ active + n - 1 \in Nat /\ n \in Nat /\ n > 0
      BY <3>1, <3>2, <1>n
    <3>4. /\ (active + 1) % n \in Nat /\ (active + 1) % n < n
          /\ (active + n - 1) % n \in Nat /\ (active + n - 1) % n < n
      BY <3>3, Wraps
    <3> QED
      BY <3>1, <3>2, <3>4
  <2> QED
    BY <2>1, <2>2, <2>3 DEF PaletteInv, SearchAnswer
<1>6. CASE ClosePalette
  <2>1. /\ raw' = Blank /\ query' = Blank /\ ticking' = FALSE /\ before' = Blank /\ active' = 0
        /\ UNCHANGED <<fetches, found>>
    BY <1>6 DEF ClosePalette
  <2>2. PaletteKeeps'
    BY <2>1, <1>k DEF PaletteKeeps, Text, SearchAnswer
  <2>3. Len(Entries') \in Nat /\ Len(Entries') > 0
    <3>1. EntriesCount'
      BY <2>2, EntriesAreSome, PTL
    <3> QED
      BY <3>1 DEF EntriesCount
  <2> QED
    BY <2>1, <2>3, PickersAssumption DEF PaletteInv, Text, SearchAnswer
<1> QED
  BY <1>1, <1>2, <1>3, <1>4, <1>5, <1>6 DEF PaletteNext

----------------------------------------------------------------------------
(* The composer. *)

\* The last request is for what is typed after the @; while the people are
\* offered, it is under way or the list is its answer.
ComposerInv ==
  /\ asking \in Nat /\ unanswered \in Nat
  /\ \A r \in asks : r.id \in Nat /\ r.id <= asking
  /\ offered => \A r \in asks : r.id = asking => r.term = draft
  /\ offered /\ unanswered = 0 =>
       (\E r \in asks : r.id = asking) \/ picks = Mentionable(draft).users

LEMMA ComposerInit == PickerInit => ComposerInv
BY DEF PickerInit, ComposerInv

LEMMA ComposerSame ==
  /\ ComposerInv
  /\ UNCHANGED <<composerVars, guest>> /\ unanswered' \in {unanswered, unanswered + 1}
  => ComposerInv'
BY DEF ComposerInv, composerVars, Mentionable

LEMMA ComposerStep == ComposerInv /\ ComposerNext => ComposerInv'
<1> SUFFICES ASSUME ComposerInv, ComposerNext PROVE ComposerInv'
  OBVIOUS
<1>g. guest' = guest
  BY DEF ComposerNext
<1>1. ASSUME NEW t \in Text \cup {Off}, TypeDraft(t) PROVE ComposerInv'
  <2>0. unanswered' = unanswered /\ draft' = t
    BY <1>1 DEF TypeDraft
  <2>1. CASE t = Off
    <3>1. offered' = FALSE /\ asks' = asks /\ asking' = asking
      BY <1>1, <2>1 DEF TypeDraft
    <3> QED
      BY <2>0, <3>1 DEF ComposerInv
  <2>2. CASE t # Off
    <3> DEFINE c == [id |-> asking + 1, term |-> t]
    <3>1. asking' = asking + 1 /\ asks' = asks \cup {c}
      BY <1>1, <2>2 DEF TypeDraft
    <3>2. c \in asks' /\ c.id = asking' /\ c.term = draft'
      BY <2>0, <3>1
    <3>3. \A r \in asks' : r.id \in Nat /\ r.id <= asking'
      BY <3>1 DEF ComposerInv
    <3>4. \A r \in asks' : r.id = asking' => r.term = draft'
      BY <2>0, <3>1 DEF ComposerInv
    <3> HIDE DEF c
    <3> QED
      BY <2>0, <3>1, <3>2, <3>3, <3>4 DEF ComposerInv
  <2> QED
    BY <2>1, <2>2
<1>2. ASSUME NEW r \in asks, UsersArrive(r) PROVE ComposerInv'
  <2>1. /\ asks' = asks \ {r} /\ UNCHANGED <<draft, asking, offered, unanswered>>
        /\ picks' = IF r.id = asking THEN Mentionable(r.term).users ELSE picks
    BY <1>2 DEF UsersArrive, Takes
  <2>2. (offered /\ unanswered = 0)' =>
          (\E q \in asks : q.id = asking)' \/ (picks = Mentionable(draft).users)'
    <3>1. CASE r.id = asking
      BY <1>g, <2>1, <3>1 DEF ComposerInv, Mentionable
    <3>2. CASE r.id # asking
      BY <1>g, <2>1, <3>2 DEF ComposerInv, Mentionable
    <3> QED
      BY <3>1, <3>2
  <2> QED
    BY <2>1, <2>2 DEF ComposerInv
<1>3. ASSUME NEW r \in asks, UsersFail(r) PROVE ComposerInv'
  BY <1>3 DEF UsersFail, Loses, ComposerInv
<1>4. CASE PickMention
  BY <1>4 DEF PickMention, ComposerInv
<1>5. CASE Submit
  BY <1>5 DEF Submit, ComposerInv
<1> QED
  BY <1>1, <1>2, <1>3, <1>4, <1>5 DEF ComposerNext

----------------------------------------------------------------------------
(* The popup. *)

\* The last request is for the trigger's term; once none is to be sent, it is
\* under way, or its answer was the last but for those that overtook it.
PopupInv ==
  /\ sent \in Nat /\ latest \in Nat /\ latest <= sent /\ unanswered \in Nat
  /\ \A r \in flying : r.id \in Nat /\ r.id <= sent /\ r.term \in Text
  /\ \A r, q \in flying : r.id = q.id => r = q
  /\ popup \in Text \cup {Off} /\ (popping => popup \in Text)
  /\ popup # Off /\ ~popping /\ unanswered = 0 =>
       \/ \E r \in flying : r.id = sent /\ r.term = popup
       \/ /\ latest = sent /\ \A r \in flying : r.id # sent
          /\ ~overtaken => items = ItemsOf(popup)
  /\ IsList(items) /\ chosen \in Nat /\ (items # <<>> => chosen < Len(items))

LEMMA PopupInit == PickerInit => PopupInv
<1> SUFFICES ASSUME PickerInit PROVE PopupInv
  OBVIOUS
<1>1. IsList(items)
  BY NoneIsList DEF PickerInit
<1> QED
  BY <1>1 DEF PickerInit, PopupInv

LEMMA PopupSame ==
  /\ PopupInv
  /\ UNCHANGED <<popupVars, guest, trigger>> /\ unanswered' \in {unanswered, unanswered + 1}
  => PopupInv'
<1> SUFFICES ASSUME PopupInv, UNCHANGED <<popupVars, guest, trigger>>, unanswered' \in {unanswered, unanswered + 1}
             PROVE  PopupInv'
  OBVIOUS
<1>1. ItemsOf(popup)' = ItemsOf(popup) /\ IsList(items)' = IsList(items)
  BY DEF popupVars, ItemsOf, Mentionable, IsList
<1>2. unanswered' \in Nat /\ (unanswered' = 0 => unanswered = 0)
  BY DEF PopupInv
<1> QED
  BY <1>1, <1>2 DEF PopupInv, popupVars

\* An answer's list, or the empty one of a failure.
LEMMA ListTaken ==
  ASSUME PopupInv, NEW r \in flying, NEW list, IsList(list), Lists(r, list), guest' = guest, trigger' = trigger,
         unanswered' \in Nat, unanswered' = 0 => unanswered = 0 /\ list = ItemsOf(r.term)
  PROVE  PopupInv'
<1>1. /\ flying' = flying \ {r} /\ items' = list /\ chosen' = 0 /\ overtaken' = (r.id < latest)
      /\ latest' = IF r.id > latest THEN r.id ELSE latest
      /\ UNCHANGED <<popup, popping, sent>>
  BY DEF Lists
<1>2. IsList(items)' /\ (items # <<>> => chosen < Len(items))' /\ chosen' \in Nat
  <2>1. list # <<>> => 0 < Len(list)
    BY ListLength
  <2> QED
    BY <1>1, <2>1 DEF IsList
<1>3. latest' \in Nat /\ latest' <= sent'
  BY <1>1 DEF PopupInv
<1>4. (/\ \A q \in flying : q.id \in Nat /\ q.id <= sent /\ q.term \in Text
       /\ \A p, q \in flying : p.id = q.id => p = q)'
  BY <1>1 DEF PopupInv
<1>5. ASSUME popup # Off, ~popping, unanswered' = 0
      PROVE  \/ \E q \in flying' : q.id = sent /\ q.term = popup
             \/ /\ latest' = sent /\ \A q \in flying' : q.id # sent
                /\ ~overtaken' => items' = ItemsOf(popup)
  <2>1. CASE \E q \in flying : q.id = sent /\ q.term = popup
    <3>1. PICK q \in flying : q.id = sent /\ q.term = popup
      BY <2>1
    <3>2. CASE q = r
      <4>1. latest' = sent
        BY <1>1, <3>1, <3>2 DEF PopupInv
      <4>2. \A p \in flying' : p.id # sent
        BY <1>1, <3>1, <3>2 DEF PopupInv
      <4>3. items' = ItemsOf(popup)
        BY <1>1, <1>5, <3>1, <3>2
      <4> QED
        BY <4>1, <4>2, <4>3
    <3>3. CASE q # r
      BY <1>1, <3>1, <3>3
    <3> QED
      BY <3>2, <3>3
  <2>2. CASE latest = sent /\ \A q \in flying : q.id # sent
    <3>1. r.id < latest /\ r.id \in Nat /\ latest \in Nat
      BY <2>2 DEF PopupInv
    <3>2. overtaken'
      BY <1>1, <3>1, Zenon
    <3>3. latest' = sent
      BY <1>1, <2>2, <3>1
    <3> QED
      BY <1>1, <2>2, <3>2, <3>3
  <2> QED
    BY <1>5, <2>1, <2>2 DEF PopupInv
<1>6. ItemsOf(popup)' = ItemsOf(popup)
  BY <1>1 DEF ItemsOf, Mentionable
<1> QED
  BY <1>1, <1>2, <1>3, <1>4, <1>5, <1>6 DEF PopupInv

LEMMA PopupStep == PopupInv /\ PopupNext => PopupInv'
<1> SUFFICES ASSUME PopupInv, PopupNext PROVE PopupInv'
  OBVIOUS
<1>g. guest' = guest /\ trigger' = trigger
  BY DEF PopupNext
<1>1. ASSUME NEW t \in Text, TypeTrigger(t) PROVE PopupInv'
  BY <1>1 DEF TypeTrigger, PopupInv, IsList
<1>2. CASE AskMentionable
  <2> DEFINE c == [id |-> sent + 1, term |-> popup]
  <2>1. /\ popping /\ popping' = FALSE /\ sent' = sent + 1 /\ flying' = flying \cup {c}
        /\ UNCHANGED <<popup, items, chosen, latest, overtaken, unanswered>>
    BY <1>2 DEF AskMentionable
  <2>2. c \in flying' /\ c.id = sent' /\ c.term = popup'
    BY <2>1
  <2>3. \A r \in flying' : r.id \in Nat /\ r.id <= sent' /\ r.term \in Text
    BY <2>1 DEF PopupInv
  <2>4. \A r, q \in flying' : r.id = q.id => r = q
    <3>1. \A r \in flying : r.id # c.id
      BY DEF PopupInv
    <3> QED
      BY <2>1, <3>1 DEF PopupInv
  <2>5. sent' \in Nat /\ latest' \in Nat /\ latest' <= sent'
    BY <2>1 DEF PopupInv
  <2> HIDE DEF c
  <2> QED
    BY <2>1, <2>2, <2>3, <2>4, <2>5 DEF PopupInv, IsList
<1>3. ASSUME NEW r \in flying, MentionableArrives(r) PROVE PopupInv'
  <2>1. IsList(ItemsOf(r.term))
    BY OneIsList, ItemsAreList DEF PopupInv
  <2> QED
    BY <1>3, <1>g, <2>1, ListTaken DEF MentionableArrives, PopupInv
<1>4. ASSUME NEW r \in flying, MentionableFails(r) PROVE PopupInv'
  <2>1. unanswered' \in Nat /\ unanswered' # 0
    BY <1>4 DEF MentionableFails, Loses, PopupInv
  <2> QED
    BY <1>4, <1>g, <2>1, NoneIsList, ListTaken DEF MentionableFails
<1>5. CASE Move
  <2>1. /\ items # <<>>
        /\ UNCHANGED <<popup, popping, sent, flying, items, latest, overtaken, unanswered>>
    BY <1>5 DEF Move
  <2>2. PICK n : n = Len(items)
    OBVIOUS
  <2>3. n \in Nat /\ n > 0 /\ chosen \in Nat
    BY <2>1, <2>2, ListLength DEF PopupInv
  <2>4. chosen' \in {(chosen + 1) % n, (chosen + n - 1) % n}
    BY <1>5, <2>2 DEF Move
  <2>5. chosen + 1 \in Nat /\ chosen + n - 1 \in Nat
    BY <2>3
  <2>6. chosen' \in Nat /\ chosen' < n
    BY <2>3, <2>4, <2>5, Wraps
  <2>7. ItemsOf(popup)' = ItemsOf(popup)
    BY <1>g, <2>1 DEF ItemsOf, Mentionable
  <2> QED
    BY <2>1, <2>2, <2>6, <2>7 DEF PopupInv, IsList
<1>6. CASE Exit
  <2>1. /\ popup' = Off /\ popping' = FALSE /\ items' = <<>> /\ chosen' = 0
        /\ UNCHANGED <<sent, flying, latest, overtaken, unanswered>>
    BY <1>6 DEF Exit
  <2> QED
    BY <2>1, NoneIsList DEF PopupInv, IsList
<1> QED
  BY <1>1, <1>2, <1>3, <1>4, <1>5, <1>6 DEF PopupNext

----------------------------------------------------------------------------
(* The three share only the count of what was not answered. *)

MenusInv == PaletteInv /\ ComposerInv /\ PopupInv

LEMMA MenusStep ==
  MenusInv /\ [PaletteNext \/ ComposerNext \/ PopupNext]_pickerVars => MenusInv'
<1> SUFFICES ASSUME MenusInv, [PaletteNext \/ ComposerNext \/ PopupNext]_pickerVars
             PROVE  MenusInv'
  OBVIOUS
<1>n. unanswered \in Nat
  BY DEF MenusInv, ComposerInv
<1>1. CASE PaletteNext
  <2>1. UNCHANGED <<composerVars, popupVars, guest, trigger>> /\ unanswered' \in {unanswered, unanswered + 1}
    BY <1>1 DEF PaletteNext, TypeQuery, AskFor, SearchArrives, SearchFails, Highlight,
       ClosePalette, Loses
  <2> QED
    BY <1>1, <2>1, PaletteStep, ComposerSame, PopupSame DEF MenusInv
<1>2. CASE ComposerNext
  <2>1. UNCHANGED <<paletteVars, popupVars, guest, trigger>> /\ unanswered' \in {unanswered, unanswered + 1}
    BY <1>2 DEF ComposerNext, TypeDraft, UsersArrive, UsersFail, PickMention, Submit, Loses
  <2> QED
    BY <1>2, <2>1, PaletteSame, ComposerStep, PopupSame DEF MenusInv
<1>3. CASE PopupNext
  <2>1. UNCHANGED <<paletteVars, composerVars, guest>> /\ unanswered' \in {unanswered, unanswered + 1}
    BY <1>3 DEF PopupNext, TypeTrigger, AskMentionable, MentionableArrives, MentionableFails,
                Lists, Move, Exit, Loses
  <2> QED
    BY <1>3, <2>1, PaletteSame, ComposerSame, PopupStep DEF MenusInv
<1>4. CASE UNCHANGED pickerVars
  BY <1>4, PaletteSame, ComposerSame, PopupSame DEF MenusInv, pickerVars
<1> QED
  BY <1>1, <1>2, <1>3, <1>4

\* Whatever comes in whichever order, each menu has the answer to what is typed
\* or waits for it.
THEOREM MenusInvariant == PickerSpec => []MenusInv
<1>1. PickerInit => MenusInv
  BY PaletteInit, ComposerInit, PopupInit DEF MenusInv
<1> QED
  BY <1>1, MenusStep, PTL DEF PickerSpec

LEMMA MenusAreSettled == MenusInv => MenusSettle
<1> SUFFICES ASSUME MenusInv PROVE MenusSettle
  OBVIOUS
<1>1. raw \in Term /\ ~ticking /\ raw \notin fetches /\ found[raw] # Blank => Results = SearchAnswer(raw)
  BY DEF MenusInv, PaletteInv, Results, Answered
<1>2. active < Len(Entries)
  BY DEF MenusInv, PaletteInv
<1>3. offered /\ (\A r \in asks : r.id # asking) /\ unanswered = 0 => picks = Mentionable(draft).users
  BY DEF MenusInv, ComposerInv
<1>4. popup # Off /\ ~popping /\ flying = {} /\ ~overtaken /\ unanswered = 0 => items = ItemsOf(popup)
  BY DEF MenusInv, PopupInv
<1>5. items # <<>> => chosen < Len(items)
  BY DEF MenusInv, PopupInv
<1> QED
  BY <1>1, <1>2, <1>3, <1>4, <1>5 DEF MenusSettle

\* In whichever order answers come or fail to: what a menu lists is the answer
\* to what is typed in it, once none is under way, and its highlight is on an
\* entry (CommandPalette, CommentComposer, MentionMenu).
THEOREM MenusShowAnswers == PickerSpec => []MenusSettle
BY MenusInvariant, MenusAreSettled, PTL

----------------------------------------------------------------------------
(* The workspace screen. *)

Value == Entry \cup {Untitled}
Keys == Document \cup Listings
Known == {d \in Document : meta[d] # Missing}
Spot == Document \cup {"empty", "trash"}
SendKinds == {"update", "create", "archive", "restore"}
Write == [id : Nat, kind : SendKinds, page : Document \cup {Missing}, field : Field \cup {Missing},
          entry : Value \cup {Missing}, from : Spot, served : BOOLEAN]

RowsOK == meta \in [Document -> MetaRow \cup {Missing}]

\* What is fetched or being fetched is of pages there are.
CopyOK ==
  /\ copy = [k \in Keys |-> copy[k]]
  /\ \A d \in Document : copy[d] = Missing \/ (d \in Known /\ copy[d] \in MetaRow)
  /\ copy["tree"] # Missing => DOMAIN copy["tree"] \subseteq Known
FetchOK ==
  /\ fetch = [k \in Keys |-> fetch[k]]
  /\ \A k \in Keys : \/ fetch[k] = Unasked \/ fetch[k] = Underway
                     \/ fetch[k] = [at |-> "read", value |-> fetch[k].value]
  /\ \A d \in Document : /\ fetch[d] # Unasked => d \in Known
                         /\ fetch[d].at = "read" => fetch[d].value \in MetaRow
  /\ fetch["tree"].at = "read" => DOMAIN fetch["tree"].value \subseteq Known

\* The fields were set last from what is shown, and only a shown page has one
\* with the focus.
ScreenOK ==
  /\ view \in Known \cup {"empty", "trash"}
  /\ fields \in MetaRow /\ shownKey = PageKey(view, Showing)
  /\ typing \in Field \cup {Missing} /\ (typing # Missing => Showing # Missing)

SendsOK ==
  /\ sends \subseteq Write /\ callback \in [SendKinds -> Nat]
  /\ \A c \in sends : /\ c.kind = "update" => c.page \in Known /\ c.field \in Field /\ c.entry \in Value
                      /\ c.kind \in {"archive", "restore"} => c.page \in Document
                      /\ c.kind = "create" /\ c.served => c.page \in Known

\* What was left in a field is stored, or the only write of the field will.
Of(c, d, f) == c.kind = "update" /\ c.page = d /\ c.field = f
LeftInv ==
  /\ left \subseteq Known \X Field \X Value
  /\ \A d \in Document, f \in Field, e \in Value : <<d, f, e>> \in left /\ <<d, f>> \notin unsure =>
       /\ \A b, c \in sends : Of(b, d, f) /\ Of(c, d, f) => b = c
       /\ \A c \in sends : Of(c, d, f) => c.entry = e
       /\ (\E c \in sends : Of(c, d, f) /\ ~c.served) \/ meta[d][f] = e

\* A page that is to go from the screen does so with the last archive's answer.
Closes(c, d) == c.kind = "archive" /\ c.page = d /\ c.from = d /\ c.id = callback["archive"]
GoneInv ==
  /\ gone \subseteq Document
  /\ view \in gone => \E c \in sends : Closes(c, view)

\* What was read, and what is on the screen, is what the server has, but for
\* writes that were done and not answered.
Pending(k) == \E c \in sends : c.served /\ k \in Touched(c)
QueriesInv ==
  \A k \in Keys : k \notin lagging /\ ~Pending(k) =>
    /\ fetch[k].at = "read" => fetch[k].value = ServerHas(k)
    /\ Observed(k) /\ fetch[k] = Unasked /\ k \notin broken => copy[k] = ServerHas(k)

\* A field without the focus has what is shown of the page, or what it was left
\* with.
FieldsInv ==
  Showing # Missing =>
    \A f \in Field \ {typing} : <<view, f>> \notin unsure =>
      fields[f] = Showing[f] \/ <<view, f, fields[f]>> \in left

ShellInv == /\ RowsOK /\ CopyOK /\ FetchOK /\ ScreenOK /\ SendsOK
            /\ LeftInv /\ GoneInv /\ QueriesInv /\ FieldsInv

LEMMA Apart ==
  /\ \A d \in Document : d \notin Listings /\ d # "empty" /\ d # Missing /\ d # "tree" /\ d # "trash"
  /\ Missing \notin MetaRow /\ Missing \notin Field
  /\ \A d \in Document, s, t \in Value : <<d, s, t>> # Missing
BY ScreenAssumption DEF Value, Listings

LEMMA HasIs ==
  /\ ServerHas("tree") = [d \in Untrashed |-> meta[d].title]
  /\ ServerHas("trash") = [d \in trashed |-> meta[d].title]
  /\ \A d \in Document : ServerHas(d) = meta[d]
BY Apart DEF ServerHas

LEMMA States == /\ Unasked # Underway /\ Unasked.at = "none" /\ Underway.at = "asked"
                /\ \A v : /\ [at |-> "read", value |-> v] # Unasked
                          /\ [at |-> "read", value |-> v] # Underway
                          /\ [at |-> "read", value |-> v].at = "read"
                          /\ [at |-> "read", value |-> v].value = v
BY DEF Unasked, Underway

LEMMA RowIs == ASSUME NEW x \in MetaRow
               PROVE  x.title \in Value /\ x.icon \in Value /\ x["title"] = x.title /\ x["icon"] = x.icon
                      /\ \A y \in MetaRow : x.title = y.title /\ x.icon = y.icon => x = y
<1>1. ASSUME NEW y \in MetaRow, x.title = y.title, x.icon = y.icon PROVE x = y
  <2>1. \A f \in Field : x[f] = y[f]
    BY <1>1 DEF Field
  <2> QED
    BY <2>1 DEF MetaRow
<1> QED
  BY <1>1 DEF MetaRow, Field, Value

LEMMA ShellStarts == ShellInit => ShellInv
<1> SUFFICES ASSUME ShellInit PROVE ShellInv
  OBVIOUS
<1>1. /\ meta = [d \in Document |-> IF d \in Existing THEN [f \in Field |-> Untitled] ELSE Missing]
      /\ view = "empty" /\ copy = [k \in Keys |-> Missing]
      /\ fetch = [k \in Keys |-> IF k = "tree" THEN Underway ELSE Unasked]
      /\ fields = [f \in Field |-> Untitled] /\ shownKey = Missing /\ typing = Missing
      /\ sends = {} /\ callback = [kind \in SendKinds |-> 0]
      /\ left = {} /\ gone = {}
  BY DEF ShellInit, Keys, SendKinds, Underway, Unasked
<1>2. [f \in Field |-> Untitled] \in MetaRow
  BY DEF MetaRow
<1>3. view \notin Document /\ Showing = Missing
  BY <1>1, Apart DEF Showing
<1>4. RowsOK
  BY <1>1, <1>2 DEF RowsOK
<1>5. CopyOK
  BY <1>1 DEF CopyOK, Keys, Listings
<1>6. FetchOK /\ QueriesInv
  BY <1>1, <1>3, States, Apart DEF FetchOK, QueriesInv, Keys, Listings, Observed
<1>7. ScreenOK /\ FieldsInv
  BY <1>1, <1>2, <1>3 DEF ScreenOK, FieldsInv, PageKey
<1>8. SendsOK /\ LeftInv /\ GoneInv
  BY <1>1 DEF SendsOK, LeftInv, GoneInv
<1> QED
  BY <1>4, <1>5, <1>6, <1>7, <1>8 DEF ShellInv

\* The last step of what changes the screen.
LEMMA RendersKeeps ==
  ASSUME ScreenOK, FieldsInv, CopyOK, CopyOK', Renders,
         view' \in Known' \cup {"empty", "trash"}, UNCHANGED <<left, unsure>>,
         \A d \in Document : copy[d] # Missing => copy'[d] # Missing
  PROVE  ScreenOK' /\ FieldsInv'
<1>1. /\ shownKey' = PageKey(view', Showing')
      /\ fields' = IF view' \notin Document THEN [f \in Field |-> Untitled]
                   ELSE IF PageKey(view', Showing') # shownKey /\ PageKey(view', Showing') # Missing
                        THEN Showing' ELSE fields
      /\ typing' = IF view' # view /\ Showing' = Missing THEN Missing ELSE typing
  BY DEF Renders
<1>2. Showing' = IF view' \in Document THEN copy'[view'] ELSE Missing
  BY DEF Showing
<1>3. /\ Showing = Missing \/ (view \in Document /\ Showing = copy[view] /\ Showing \in MetaRow)
      /\ Showing' = Missing \/ (view' \in Document /\ Showing' = copy'[view'] /\ Showing' \in MetaRow)
  BY <1>2 DEF Showing, CopyOK
<1>4. typing' \in Field \cup {Missing}
  BY <1>1 DEF ScreenOK
<1>5. view' = view /\ Showing # Missing => Showing' # Missing
  BY <1>2, <1>3
<1>6. typing' # Missing => Showing' # Missing
  BY <1>1, <1>5 DEF ScreenOK
<1>7. CASE Showing' = Missing
  <2>1. fields' \in MetaRow
    <3>1. [f \in Field |-> Untitled] \in MetaRow
      BY DEF MetaRow
    <3>2. PageKey(view', Showing') = Missing
      BY <1>7 DEF PageKey
    <3> QED
      BY <1>1, <3>1, <3>2 DEF ScreenOK
  <2> QED
    BY <1>1, <1>4, <1>6, <1>7, <2>1 DEF ScreenOK, FieldsInv
<1>8. CASE Showing' # Missing
  <2>1. view' \in Document /\ Showing' \in MetaRow
    BY <1>3, <1>8
  <2>2. /\ PageKey(view', Showing') = <<view', Showing'.title, Showing'.icon>>
        /\ PageKey(view', Showing') # Missing
    <3>1. PageKey(view', Showing') = <<view', Showing'.title, Showing'.icon>>
      BY <2>1, <1>8 DEF PageKey
    <3> QED
      BY <2>1, <3>1, RowIs, Apart
  <2>3. CASE PageKey(view', Showing') # shownKey
    <3>1. fields' = Showing'
      BY <1>1, <2>1, <2>2, <2>3
    <3> QED
      BY <1>1, <1>4, <1>6, <2>1, <3>1 DEF ScreenOK, FieldsInv
  <2>4. CASE PageKey(view', Showing') = shownKey
    <3>1. shownKey = PageKey(view, Showing) /\ shownKey # Missing
      BY <2>2, <2>4 DEF ScreenOK
    <3>2. view \in Document /\ Showing # Missing /\ shownKey = <<view, Showing.title, Showing.icon>>
      BY <3>1 DEF PageKey
    <3>3. view' = view /\ Showing'.title = Showing.title /\ Showing'.icon = Showing.icon
      BY <2>2, <2>4, <3>2
    <3>4. Showing' = Showing
      BY <1>3, <2>1, <3>2, <3>3, RowIs
    <3>5. fields' = fields /\ typing' = typing
      BY <1>1, <2>1, <2>4, <3>3
    <3>6. FieldsInv'
      BY <3>3, <3>4, <3>5 DEF FieldsInv
    <3> QED
      BY <1>1, <1>4, <1>6, <3>5, <3>6 DEF ScreenOK
  <2> QED
    BY <2>3, <2>4
<1> QED
  BY <1>7, <1>8

\* What a step leaves alone.
LEMMA SameMeta == UNCHANGED meta => Known' = Known /\ (RowsOK => RowsOK')
BY DEF Known, RowsOK
LEMMA SameCopy == CopyOK /\ UNCHANGED <<copy, meta>> => CopyOK'
BY DEF CopyOK, Known
LEMMA SameFetch == FetchOK /\ UNCHANGED <<fetch, meta>> => FetchOK'
BY DEF FetchOK, Known
LEMMA SameScreen == ScreenOK /\ UNCHANGED <<view, copy, meta, fields, shownKey, typing>> => ScreenOK'
BY DEF ScreenOK, Known, Showing, PageKey
LEMMA SameSends == SendsOK /\ UNCHANGED <<sends, callback, meta>> => SendsOK'
BY DEF SendsOK, Known
LEMMA SameLeft == LeftInv /\ UNCHANGED <<left, unsure, sends, meta>> => LeftInv'
BY DEF LeftInv, Known, Of
LEMMA SameGone == GoneInv /\ UNCHANGED <<gone, view, sends, callback>> => GoneInv'
BY DEF GoneInv, Closes
LEMMA SameHas == UNCHANGED atServer => \A k : ServerHas(k)' = ServerHas(k)
BY DEF ServerHas, atServer, Untrashed
LEMMA SameQueries ==
  QueriesInv /\ UNCHANGED <<lagging, sends, fetch, view, broken, copy, atServer>> => QueriesInv'
BY SameHas DEF QueriesInv, Pending, Touched, Observed
LEMMA SameFields == FieldsInv /\ UNCHANGED <<view, copy, typing, unsure, left, fields>> => FieldsInv'
BY DEF FieldsInv, Showing

LEMMA ReadStep == ASSUME ShellInv, NEW key \in Keys, QueryRead(key) PROVE ShellInv'
<1>1. /\ fetch[key] = Underway
      /\ fetch' = [fetch EXCEPT ![key] = [at |-> "read", value |-> ServerHas(key)]]
      /\ UNCHANGED <<broken, atServer, meta, view, copy, sends, callback, left, unsure, gone, lagging>>
      /\ UNCHANGED <<fields, shownKey, typing>>
  BY DEF QueryRead, Unchanging, atServer
<1>2. PICK new : new = [at |-> "read", value |-> ServerHas(key)]
  OBVIOUS
<1>3. /\ fetch' = [k \in Keys |-> fetch'[k]]
      /\ \A k \in Keys : fetch'[k] = IF k = key THEN new ELSE fetch[k]
  BY <1>1, <1>2 DEF ShellInv, FetchOK
<1>4. /\ new.at = "read"
      /\ new.value = ServerHas(key)
      /\ new # Unasked
      /\ new = [at |-> "read", value |-> new.value]
  BY <1>2, States
<1>5. Known' = Known
  BY <1>1, SameMeta
<1>6. FetchOK'
  <2>1. ASSUME key \in Document PROVE key \in Known /\ new.value \in MetaRow
    <3>1. key \in Known
      BY <1>1, <2>1, States DEF ShellInv, FetchOK
    <3>2. meta[key] \in MetaRow
      BY <3>1 DEF ShellInv, RowsOK, Known
    <3> QED
      BY <1>4, <2>1, <3>1, <3>2, HasIs
  <2>2. ASSUME key = "tree" PROVE DOMAIN new.value \subseteq Known
    BY <1>4, <2>2, HasIs DEF Untrashed, Known
  <2> QED
    BY <1>3, <1>4, <1>5, <2>1, <2>2, Apart DEF ShellInv, FetchOK, Keys, Listings
<1>7. QueriesInv'
  BY <1>1, <1>3, <1>4, SameHas DEF ShellInv, QueriesInv, Pending, Touched, Observed
<1> QED
  BY <1>1, <1>6, <1>7, SameMeta, SameCopy, SameScreen, SameSends, SameLeft, SameGone, SameFields
  DEF ShellInv

LEMMA ArriveStep == ASSUME ShellInv, NEW key \in Keys, QueryArrives(key) PROVE ShellInv'
<1>1. /\ fetch[key].at = "read"
      /\ copy' = [copy EXCEPT ![key] = fetch[key].value]
      /\ fetch' = [fetch EXCEPT ![key] = Unasked]
      /\ broken' = broken \ {key}
      /\ UNCHANGED <<atServer, meta, view, sends, callback, left, unsure, gone, lagging>>
      /\ Renders
  BY DEF QueryArrives, atServer
<1>2. /\ fetch' = [k \in Keys |-> fetch'[k]]
      /\ \A k \in Keys : fetch'[k] = IF k = key THEN Unasked ELSE fetch[k]
  BY <1>1 DEF ShellInv, FetchOK
<1>3. /\ copy' = [k \in Keys |-> copy'[k]]
      /\ \A k \in Keys : copy'[k] = IF k = key THEN fetch[key].value ELSE copy[k]
  BY <1>1 DEF ShellInv, CopyOK
<1>4. Known' = Known
  BY <1>1, SameMeta
<1>5. FetchOK'
  BY <1>2, <1>4, States DEF ShellInv, FetchOK, Keys, Listings
<1>6. key \in Document => fetch[key].value \in MetaRow /\ key \in Known
  BY <1>1, States DEF ShellInv, FetchOK
<1>7. key = "tree" => DOMAIN fetch[key].value \subseteq Known
  BY <1>1 DEF ShellInv, FetchOK
<1>8. CopyOK'
  BY <1>3, <1>4, <1>6, <1>7, Apart DEF ShellInv, CopyOK, Keys, Listings
<1>9. \A d \in Document : copy[d] # Missing => copy'[d] # Missing
  BY <1>3, <1>6, Apart DEF Keys
<1>10. view' \in Known' \cup {"empty", "trash"} /\ UNCHANGED <<left, unsure>>
  BY <1>1, <1>4 DEF ShellInv, ScreenOK
<1>11. ScreenOK' /\ FieldsInv'
  BY <1>1, <1>8, <1>9, <1>10, RendersKeeps DEF ShellInv
<1>12. QueriesInv'
  BY <1>1, <1>2, <1>3, States, SameHas DEF ShellInv, QueriesInv, Pending, Touched, Observed
<1> QED
  BY <1>1, <1>5, <1>8, <1>11, <1>12, SameMeta, SameSends, SameLeft, SameGone DEF ShellInv

LEMMA FailStep == ASSUME ShellInv, NEW key \in Keys, QueryFails(key) PROVE ShellInv'
<1>1. /\ fetch' = [fetch EXCEPT ![key] = Unasked]
      /\ broken' = broken \cup {key}
      /\ typing' = (IF key = view THEN Missing ELSE typing)
      /\ unsure' = (IF key = view /\ typing # Missing THEN unsure \cup {<<view, typing>>} ELSE unsure)
      /\ UNCHANGED <<atServer, meta, view, copy, fields, shownKey, sends, callback, left, gone, lagging>>
  BY DEF QueryFails, atServer
<1>2. /\ fetch' = [k \in Keys |-> fetch'[k]]
      /\ \A k \in Keys : fetch'[k] = IF k = key THEN Unasked ELSE fetch[k]
  BY <1>1 DEF ShellInv, FetchOK
<1>3. Known' = Known
  BY <1>1, SameMeta
<1>4. FetchOK'
  BY <1>2, <1>3, States DEF ShellInv, FetchOK, Keys, Listings
<1>5. ScreenOK'
  BY <1>1, <1>3 DEF ShellInv, ScreenOK, Showing, PageKey
<1>6. LeftInv'
  <2>1. unsure \subseteq unsure'
    BY <1>1
  <2> QED
    BY <1>1, <1>3, <2>1 DEF ShellInv, LeftInv, Of
<1>7. FieldsInv'
  <2>1. \A f \in Field \ {typing'} : <<view, f>> \notin unsure' => f # typing /\ <<view, f>> \notin unsure
    BY <1>1, Apart DEF ShellInv, ScreenOK
  <2> QED
    BY <1>1, <2>1 DEF ShellInv, FieldsInv, Showing
<1>8. QueriesInv'
  BY <1>1, <1>2, States, SameHas DEF ShellInv, QueriesInv, Pending, Touched, Observed
<1> QED
  BY <1>1, <1>4, <1>5, <1>6, <1>7, <1>8, SameMeta, SameCopy, SameSends, SameGone DEF ShellInv

LEMMA TypeStep == ASSUME ShellInv, NEW f \in Field, NEW e \in Entry, TypeField(f, e) PROVE ShellInv'
<1>1. /\ Showing # Missing /\ typing \in {Missing, f}
      /\ fields' = [fields EXCEPT ![f] = e] /\ typing' = f
      /\ UNCHANGED <<broken, atServer, meta, view, copy, fetch, shownKey, sends, callback, left, unsure,
                     gone, lagging>>
  BY DEF TypeField, atServer
<1>2. fields' \in MetaRow /\ \A g \in Field \ {f} : fields'[g] = fields[g]
  BY <1>1 DEF ShellInv, ScreenOK, MetaRow
<1>3. Known' = Known /\ Showing' = Showing
  BY <1>1, SameMeta DEF Showing
<1>4. ScreenOK'
  BY <1>1, <1>2, <1>3 DEF ShellInv, ScreenOK, PageKey
<1>5. FieldsInv'
  <2>1. \A g \in Field \ {f} : g # typing
    BY <1>1, Apart
  <2> QED
    BY <1>1, <1>2, <1>3, <2>1 DEF ShellInv, FieldsInv
<1> QED
  BY <1>1, <1>4, <1>5, SameMeta, SameCopy, SameFetch, SameSends, SameLeft, SameGone, SameQueries
  DEF ShellInv

\* A write is sent: one more, not served.
LEMMA OneSent ==
  ASSUME ShellInv, NEW kind \in SendKinds, NEW page \in Document \cup {Missing},
         NEW field \in Field \cup {Missing}, NEW entry \in Value \cup {Missing},
         Sends(kind, page, field, entry),
         kind = "update" => page \in Known /\ field \in Field /\ entry \in Value,
         kind \in {"archive", "restore"} => page \in Document,
         UNCHANGED <<meta, trashed, copy, fetch, view, broken, lagging>>
  PROVE  \E c \in Write :
           /\ c.id = callback[kind] + 1 /\ c.kind = kind /\ c.page = page /\ c.field = field /\ c.entry = entry
           /\ c.from = view /\ ~c.served /\ sends' = sends \cup {c}
           /\ callback' = [callback EXCEPT ![kind] = callback[kind] + 1]
           /\ SendsOK' /\ QueriesInv'
<1> DEFINE c == [id |-> callback[kind] + 1, kind |-> kind, page |-> page, field |-> field, entry |-> entry,
                 from |-> view, served |-> FALSE]
<1>1. sends' = sends \cup {c} /\ callback' = [callback EXCEPT ![kind] = callback[kind] + 1]
  BY DEF Sends
<1>2. callback[kind] \in Nat /\ view \in Spot
  BY DEF ShellInv, SendsOK, ScreenOK, Known, Spot
<1>3. c \in Write
  BY <1>2 DEF Write
<1>4. /\ c.id = callback[kind] + 1 /\ c.kind = kind /\ c.page = page /\ c.field = field /\ c.entry = entry
      /\ c.from = view /\ ~c.served
  OBVIOUS
<1> HIDE DEF c
<1>5. Known' = Known
  BY SameMeta
<1>6. callback' \in [SendKinds -> Nat]
  BY <1>1, <1>2 DEF ShellInv, SendsOK
<1>7. SendsOK'
  BY <1>1, <1>3, <1>4, <1>5, <1>6 DEF ShellInv, SendsOK, SendKinds
<1>8. \A k \in Keys : Pending(k)' <=> Pending(k)
  BY <1>1, <1>4 DEF Pending, Touched
<1>9. QueriesInv'
  BY <1>8, SameHas DEF ShellInv, QueriesInv, Observed, atServer
<1> QED
  BY <1>1, <1>3, <1>4, <1>7, <1>9

LEMMA CommitStep == ASSUME ShellInv, CommitMeta PROVE ShellInv'
<1>1. /\ typing # Missing /\ Sends("update", view, typing, fields[typing])
      /\ left' = {l \in left : l[1] # view \/ l[2] # typing} \cup {<<view, typing, fields[typing]>>}
      /\ unsure' = (IF \E c \in sends : c.kind = "update" /\ c.page = view /\ c.field = typing
                    THEN unsure \cup {<<view, typing>>} ELSE unsure \ {<<view, typing>>})
      /\ typing' = Missing
      /\ UNCHANGED <<broken, meta, trashed, atServer, view, copy, fetch, fields, shownKey, gone, lagging>>
  BY DEF CommitMeta, atServer
<1>2. typing \in Field /\ Showing # Missing /\ fields \in MetaRow
  BY <1>1 DEF ShellInv, ScreenOK
<1>3. view \in Known /\ fields[typing] \in Value
  BY <1>2 DEF ShellInv, ScreenOK, Showing, CopyOK, MetaRow, Value
<1>4. PICK c \in Write :
        /\ c.kind = "update" /\ c.page = view /\ c.field = typing /\ c.entry = fields[typing]
        /\ ~c.served /\ sends' = sends \cup {c}
        /\ callback' = [callback EXCEPT !["update"] = callback["update"] + 1]
        /\ SendsOK' /\ QueriesInv'
  <2>1. view \in Document
    BY <1>3 DEF Known
  <2> QED
    BY <1>1, <1>2, <1>3, <2>1, OneSent DEF SendKinds
<1>5. Known' = Known /\ Showing' = Showing
  BY <1>1, SameMeta DEF Showing
<1>6. ScreenOK'
  BY <1>1, <1>5 DEF ShellInv, ScreenOK
<1>7. FieldsInv'
  <2> SUFFICES ASSUME Showing # Missing, NEW f \in Field, <<view, f>> \notin unsure'
               PROVE  fields[f] = Showing[f] \/ <<view, f, fields[f]>> \in left'
    BY <1>1, <1>5 DEF FieldsInv
  <2>1. CASE f = typing
    BY <1>1, <2>1
  <2>2. CASE f # typing
    <3>1. <<view, f>> \notin unsure
      BY <1>1, <2>2
    <3> QED
      BY <1>1, <2>2, <3>1 DEF ShellInv, FieldsInv
  <2> QED
    BY <2>1, <2>2
<1>8. GoneInv'
  <2>1. callback'["archive"] = callback["archive"]
    BY <1>4 DEF ShellInv, SendsOK
  <2> QED
    BY <1>1, <1>4, <2>1 DEF ShellInv, GoneInv, Closes
<1>9. LeftInv'
  <2>0. <<view, typing, fields[typing]>> \in Known \X Field \X Value
    BY <1>2, <1>3
  <2>1. left' \subseteq Known' \X Field \X Value
    BY <1>1, <1>5, <2>0 DEF ShellInv, LeftInv
  <2> SUFFICES ASSUME NEW d \in Document, NEW f \in Field, NEW e \in Value,
                      <<d, f, e>> \in left', <<d, f>> \notin unsure'
               PROVE  /\ \A b, q \in sends' : Of(b, d, f) /\ Of(q, d, f) => b = q
                      /\ \A q \in sends' : Of(q, d, f) => q.entry = e
                      /\ (\E q \in sends' : Of(q, d, f) /\ ~q.served) \/ meta'[d][f] = e
    BY <2>1 DEF LeftInv, Of
  <2>2. CASE d = view /\ f = typing
    <3>1. e = fields[typing]
      BY <1>1, <2>2
    <3>2. \A q \in sends : ~Of(q, d, f)
      BY <1>1, <2>2 DEF Of
    <3>3. Of(c, d, f) /\ ~c.served /\ c.entry = e
      BY <1>4, <2>2, <3>1 DEF Of
    <3> QED
      BY <1>4, <3>2, <3>3
  <2>3. CASE ~(d = view /\ f = typing)
    <3>1. <<d, f, e>> \in left /\ <<d, f>> \notin unsure
      BY <1>1, <2>3
    <3>2. ~Of(c, d, f)
      BY <1>4, <2>3 DEF Of
    <3> QED
      BY <1>1, <1>4, <3>1, <3>2 DEF ShellInv, LeftInv
  <2> QED
    BY <2>2, <2>3
<1> QED
  BY <1>1, <1>4, <1>6, <1>7, <1>8, <1>9, SameMeta, SameCopy, SameFetch DEF ShellInv

\* The others leave the fields alone.
LEMMA OtherSent ==
  ASSUME ShellInv, NEW kind \in {"create", "archive", "restore"}, NEW page \in Document \cup {Missing},
         Sends(kind, page, Missing, Missing), kind # "create" => page \in Document,
         UNCHANGED <<meta, trashed, copy, fetch, view, broken, lagging, left, unsure, fields, shownKey,
                     typing>>,
         gone' \subseteq Document,
         kind = "archive" => \A d \in gone' :
                               d = page \/ (d \in gone /\ ~\E c \in sends : c.kind = "archive" /\ c.page = d),
         kind # "archive" => gone' = gone
  PROVE  ShellInv'
<1>1. PICK c \in Write :
        /\ c.id = callback[kind] + 1 /\ c.kind = kind /\ c.page = page
        /\ c.from = view /\ ~c.served /\ sends' = sends \cup {c}
        /\ callback' = [callback EXCEPT ![kind] = callback[kind] + 1]
        /\ SendsOK' /\ QueriesInv'
  BY OneSent DEF SendKinds
<1>2. \A d, f : ~Of(c, d, f)
  BY <1>1 DEF Of
<1>3. LeftInv'
  BY <1>1, <1>2, SameMeta DEF ShellInv, LeftInv, Of
<1>4. GoneInv'
  <2>1. CASE kind = "archive"
    <3>1. callback'["archive"] = c.id
      BY <1>1, <2>1 DEF ShellInv, SendsOK, SendKinds
    <3>2. ASSUME view \in gone' PROVE Closes(c, view)'
      <4>1. view = page
        BY <2>1, <3>2 DEF ShellInv, GoneInv, Closes
      <4> QED
        BY <1>1, <2>1, <3>1, <4>1 DEF Closes
    <3> QED
      BY <1>1, <3>2 DEF GoneInv
  <2>2. CASE kind # "archive"
    <3>1. callback'["archive"] = callback["archive"]
      BY <1>1, <2>2 DEF ShellInv, SendsOK
    <3> QED
      BY <1>1, <2>2, <3>1 DEF ShellInv, GoneInv, Closes
  <2> QED
    BY <2>1, <2>2
<1> QED
  BY <1>1, <1>3, <1>4, SameMeta, SameCopy, SameFetch, SameScreen, SameFields DEF ShellInv

LEMMA CreateStep == ASSUME ShellInv, Create PROVE ShellInv'
<1>1. /\ Sends("create", Missing, Missing, Missing)
      /\ UNCHANGED <<meta, trashed, copy, fetch, view, broken, lagging, left, unsure, fields, shownKey,
                     typing, gone>>
  BY DEF Create, Unchanging, atServer
<1> QED
  BY <1>1, OtherSent DEF ShellInv, GoneInv

LEMMA ArchiveStep == ASSUME ShellInv, NEW d \in Document, ArchivePage(d) PROVE ShellInv'
<1>1. /\ Sends("archive", d, Missing, Missing)
      /\ gone' = {e \in {d} : view = e} \cup {e \in gone : ~\E c \in sends : c.kind = "archive" /\ c.page = e}
      /\ UNCHANGED <<meta, trashed, copy, fetch, view, broken, lagging, left, unsure, fields, shownKey, typing>>
  BY DEF ArchivePage, Unchanging, atServer
<1>2. gone \subseteq Document
  BY DEF ShellInv, GoneInv
<1> QED
  BY <1>1, <1>2, OtherSent

LEMMA RestoreStep == ASSUME ShellInv, NEW d \in Document, Restore(d) PROVE ShellInv'
<1>1. /\ Sends("restore", d, Missing, Missing)
      /\ UNCHANGED <<meta, trashed, copy, fetch, view, broken, lagging, left, unsure, fields, shownKey,
                     typing, gone>>
  BY DEF Restore, Unchanging, atServer
<1> QED
  BY <1>1, OtherSent DEF ShellInv, GoneInv

\* The server does a write: the row of an update's page has the entry, and a
\* new page has a row.
LEMMA Served ==
  ASSUME ShellInv, NEW c \in sends, ServeWrite(c)
  PROVE  \E d \in Document, s \in Write :
           /\ ~c.served /\ s.served /\ s.page = d /\ (c.kind # "create" => d = c.page)
           /\ s.id = c.id /\ s.kind = c.kind /\ s.field = c.field /\ s.entry = c.entry /\ s.from = c.from
           /\ sends' = (sends \ {c}) \cup {s}
           /\ RowsOK' /\ Known \subseteq Known' /\ d \in Known' \cup (IF c.kind = "create" THEN {} ELSE {d})
           /\ \A e \in Known : /\ ~(c.kind = "update" /\ e = d) => meta'[e] = meta[e]
                               /\ \A f \in Field : meta'[e][f] = IF Of(c, e, f) THEN c.entry ELSE meta[e][f]
<1>1. PICK d \in IF c.kind = "create" THEN Fresh ELSE {c.page} :
        /\ ~c.served
        /\ meta' = CASE c.kind = "update" -> [meta EXCEPT ![d][c.field] = c.entry]
                     [] c.kind = "create" -> [meta EXCEPT ![d] = [f \in Field |-> Untitled]]
                     [] OTHER -> meta
        /\ sends' = (sends \ {c}) \cup {[c EXCEPT !.served = TRUE, !.page = d]}
  BY DEF ServeWrite
<1>2. c \in Write /\ c.kind \in SendKinds
  BY DEF ShellInv, SendsOK, Write
<1>3. d \in Document /\ (c.kind # "create" => d = c.page)
  <2>1. c.kind = "create" => d \in Document
    BY DEF Fresh
  <2>2. c.kind # "create" => c.page \in Document /\ d = c.page
    BY <1>2 DEF ShellInv, SendsOK, SendKinds, Known
  <2> QED
    BY <2>1, <2>2
<1> DEFINE s == [c EXCEPT !.served = TRUE, !.page = d]
<1>4. /\ s \in Write /\ s.served /\ s.page = d
      /\ s.id = c.id /\ s.kind = c.kind /\ s.field = c.field /\ s.entry = c.entry /\ s.from = c.from
  BY <1>2, <1>3 DEF Write
<1>5. sends' = (sends \ {c}) \cup {s}
  BY <1>1
<1> HIDE DEF s
<1>6. /\ RowsOK' /\ Known \subseteq Known' /\ (c.kind = "create" => d \in Known')
      /\ \A e \in Known : /\ ~(c.kind = "update" /\ e = d) => meta'[e] = meta[e]
                          /\ \A f \in Field : meta'[e][f] = IF Of(c, e, f) THEN c.entry ELSE meta[e][f]
  <2>0. meta \in [Document -> MetaRow \cup {Missing}] /\ \A e \in Known : e \in Document /\ meta[e] \in MetaRow
    BY DEF ShellInv, RowsOK, Known
  <2>1. CASE c.kind = "update"
    <3>1. meta' = [meta EXCEPT ![d] = [meta[d] EXCEPT ![c.field] = c.entry]]
      BY <1>1, <2>1
    <3>2. d \in Known /\ c.field \in Field /\ c.entry \in Value /\ d = c.page
      BY <1>3, <2>1 DEF ShellInv, SendsOK
    <3> DEFINE x == [meta[d] EXCEPT ![c.field] = c.entry]
    <3>m. meta' = [meta EXCEPT ![d] = x]
      BY <3>1
    <3>3. x \in MetaRow /\ \A f \in Field : x[f] = IF f = c.field THEN c.entry ELSE meta[d][f]
      <4>1. meta[d] \in MetaRow
        BY <2>0, <3>2
      <4> QED
        BY <3>2, <4>1 DEF MetaRow, Value
    <3> HIDE DEF x
    <3>4. x # Missing
      BY <3>3, Apart
    <3>5. /\ meta' \in [Document -> MetaRow \cup {Missing}]
          /\ \A e \in Document : meta'[e] = IF e = d THEN x ELSE meta[e]
      BY <2>0, <3>2, <3>3, <3>m
    <3>6. Known \subseteq Known'
      BY <3>4, <3>5 DEF Known
    <3> QED
      BY <2>0, <2>1, <3>2, <3>3, <3>5, <3>6 DEF RowsOK, Of
  <2>2. CASE c.kind = "create"
    <3>1. PICK x \in MetaRow : x = [f \in Field |-> Untitled]
      BY DEF MetaRow
    <3>2. meta' = [meta EXCEPT ![d] = x]
      BY <1>1, <2>2, <3>1
    <3>3. d \notin Known
      BY <2>2 DEF Fresh, Known
    <3>4. x # Missing
      BY Apart
    <3>5. /\ meta' \in [Document -> MetaRow \cup {Missing}]
          /\ \A e \in Document : meta'[e] = IF e = d THEN x ELSE meta[e]
      BY <1>3, <2>0, <3>2
    <3>6. Known \subseteq Known' /\ d \in Known'
      BY <1>3, <3>4, <3>5 DEF Known
    <3> QED
      BY <2>0, <2>2, <3>3, <3>5, <3>6 DEF RowsOK, Of
  <2>3. CASE c.kind \notin {"update", "create"}
    <3>1. meta' = meta
      BY <1>1, <2>3
    <3> QED
      BY <2>0, <2>3, <3>1 DEF RowsOK, Of, Known
  <2> QED
    BY <2>1, <2>2, <2>3
<1> QED
  BY <1>1, <1>3, <1>4, <1>5, <1>6

LEMMA ServeStep == ASSUME ShellInv, NEW c \in sends, ServeWrite(c) PROVE ShellInv'
<1>1. PICK d \in Document, s \in Write :
           /\ ~c.served /\ s.served /\ s.page = d /\ (c.kind # "create" => d = c.page)
           /\ s.id = c.id /\ s.kind = c.kind /\ s.field = c.field /\ s.entry = c.entry /\ s.from = c.from
           /\ sends' = (sends \ {c}) \cup {s}
           /\ RowsOK' /\ Known \subseteq Known' /\ d \in Known' \cup (IF c.kind = "create" THEN {} ELSE {d})
           /\ \A e \in Known : /\ ~(c.kind = "update" /\ e = d) => meta'[e] = meta[e]
                               /\ \A f \in Field : meta'[e][f] = IF Of(c, e, f) THEN c.entry ELSE meta[e][f]
  BY Served
<1>2. UNCHANGED <<broken, view, copy, fetch, callback, left, unsure, gone, lagging, fields, shownKey, typing>>
  BY DEF ServeWrite, Unchanging
<1>3. CopyOK' /\ FetchOK'
  BY <1>1, <1>2 DEF ShellInv, CopyOK, FetchOK
<1>4. ScreenOK'
  BY <1>1, <1>2 DEF ShellInv, ScreenOK, Showing, PageKey
<1>5. SendsOK'
  <2>1. /\ s.kind = "update" => s.page \in Known' /\ s.field \in Field /\ s.entry \in Value
        /\ s.kind = "create" => s.page \in Known'
    BY <1>1 DEF ShellInv, SendsOK
  <2> QED
    BY <1>1, <1>2, <2>1 DEF ShellInv, SendsOK
<1>6. FieldsInv'
  BY <1>2, SameFields DEF ShellInv
<1>7. GoneInv'
  <2> SUFFICES ASSUME view \in gone PROVE \E q \in sends' : Closes(q, view)'
    BY <1>2 DEF ShellInv, GoneInv
  <2>1. PICK w \in sends : Closes(w, view)
    BY DEF ShellInv, GoneInv
  <2>2. CASE w = c
    BY <1>1, <1>2, <2>1, <2>2 DEF Closes
  <2>3. CASE w # c
    BY <1>1, <1>2, <2>1, <2>3 DEF Closes
  <2> QED
    BY <2>2, <2>3
<1>8. LeftInv'
  <2>1. \A e, f : Of(s, e, f) <=> Of(c, e, f)
    BY <1>1 DEF Of
  <2> SUFFICES ASSUME NEW p \in Document, NEW f \in Field, NEW e \in Value,
                      <<p, f, e>> \in left, <<p, f>> \notin unsure
               PROVE  /\ \A b, q \in sends' : Of(b, p, f) /\ Of(q, p, f) => b = q
                      /\ \A q \in sends' : Of(q, p, f) => q.entry = e
                      /\ (\E q \in sends' : Of(q, p, f) /\ ~q.served) \/ meta'[p][f] = e
    BY <1>1, <1>2 DEF ShellInv, LeftInv, Of
  <2>2. p \in Known
    BY DEF ShellInv, LeftInv
  <2>3. /\ \A b, q \in sends : Of(b, p, f) /\ Of(q, p, f) => b = q
        /\ \A q \in sends : Of(q, p, f) => q.entry = e
        /\ (\E q \in sends : Of(q, p, f) /\ ~q.served) \/ meta[p][f] = e
    BY DEF ShellInv, LeftInv
  <2>4. CASE Of(c, p, f)
    BY <1>1, <2>1, <2>2, <2>3, <2>4
  <2>5. CASE ~Of(c, p, f)
    BY <1>1, <2>1, <2>2, <2>3, <2>5
  <2> QED
    BY <2>4, <2>5
<1>9. QueriesInv'
  <2> SUFFICES ASSUME NEW k \in Keys, k \notin lagging, ~Pending(k)'
               PROVE  /\ fetch[k].at = "read" => fetch[k].value = ServerHas(k)'
                      /\ Observed(k) /\ fetch[k] = Unasked /\ k \notin broken => copy[k] = ServerHas(k)'
    BY <1>2 DEF QueriesInv, Observed
  <2>1. ~Pending(k)
    BY <1>1 DEF Pending, Touched
  <2>2. k \notin Touched(s)
    BY <1>1 DEF Pending, Touched
  <2>3. k \in Document /\ ~(c.kind = "update" /\ k = d)
    BY <1>1, <2>2 DEF Touched, Keys
  <2>4. CASE k \in Known
    <3>1. ServerHas(k)' = ServerHas(k)
      <4>1. ServerHas(k) = meta[k] /\ ServerHas(k)' = meta'[k]
        BY <2>3, Apart DEF ServerHas
      <4> QED
        BY <1>1, <2>3, <2>4, <4>1
    <3> QED
      BY <2>1, <3>1 DEF ShellInv, QueriesInv
  <2>5. CASE k \notin Known
    <3>1. fetch[k] = Unasked
      BY <2>3, <2>5 DEF ShellInv, FetchOK
    <3>2. ~Observed(k)
      BY <2>3, <2>5, Apart DEF ShellInv, ScreenOK, Observed
    <3> QED
      BY <3>1, <3>2, States
  <2> QED
    BY <2>4, <2>5
<1> QED
  BY <1>1, <1>3, <1>4, <1>5, <1>6, <1>7, <1>8, <1>9 DEF ShellInv

\* An answer of a write: its keys are fetched again, and the screen may go on
\* to a page there is or to none.
LEMMA SucceedStep == ASSUME ShellInv, NEW c \in sends, WriteSucceeds(c) PROVE ShellInv'
<1> DEFINE keys == Touched(c)
<1> DEFINE opened == view' # view /\ view' \in Document
<1>1. /\ c.served /\ sends' = sends \ {c} /\ view' = Opens(c)
      /\ fetch' = (IF opened THEN [Invalidated(keys) EXCEPT ![view'] = Underway] ELSE Invalidated(keys))
      /\ lagging' = (IF opened THEN Missed(keys) \ {view'} ELSE Missed(keys))
      /\ gone' = (IF opened THEN gone \ {view'} ELSE gone)
      /\ UNCHANGED <<broken, atServer, meta, copy, callback, left, unsure>>
      /\ Renders
  BY DEF WriteSucceeds, atServer
<1>2. Known' = Known
  BY <1>1, SameMeta
<1>3. /\ view' = view \/ view' = "empty" \/ (c.kind = "create" /\ view' = c.page /\ view' \in Known)
      /\ view' \in Known \cup {"empty", "trash"}
  <2>1. c.kind = "create" => c.page \in Known
    BY <1>1 DEF ShellInv, SendsOK
  <2> QED
    BY <1>1, <2>1 DEF Opens, ShellInv, ScreenOK
<1>4. /\ fetch' = [k \in Keys |-> fetch'[k]]
      /\ \A k \in Keys :
           fetch'[k] = IF (opened /\ k = view') \/ (k \in keys /\ Observed(k)) THEN Underway ELSE fetch[k]
  <2>1. /\ Invalidated(keys) = [k \in Keys |-> IF k \in keys /\ Observed(k) THEN Underway ELSE fetch[k]]
    BY DEF Invalidated, ShellInv, FetchOK
  <2>2. PICK g : g = Invalidated(keys)
    OBVIOUS
  <2>3. g = [k \in Keys |-> IF k \in keys /\ Observed(k) THEN Underway ELSE fetch[k]]
    BY <2>1, <2>2
  <2>4. opened => view' \in Keys
    BY DEF Keys
  <2> HIDE DEF keys
  <2> QED
    BY <1>1, <2>2, <2>3, <2>4
<1> HIDE DEF keys
<1>5. CopyOK'
  BY <1>1, SameCopy DEF ShellInv
<1>6. FetchOK'
  <2>1. \A k \in Keys : Observed(k) => k \notin Document \/ k \in Known
    BY Apart DEF Observed, ShellInv, ScreenOK
  <2>2. opened => view' \in Known /\ view' # "tree"
    BY <1>3, Apart
  <2>3. \A k \in Keys : fetch'[k] = Underway \/ fetch'[k] = fetch[k]
    BY <1>4
  <2>4. \A d \in Document : fetch'[d] # Unasked => d \in Known
    BY <1>4, <2>1, <2>2 DEF ShellInv, FetchOK, Keys
  <2>5. "tree" \in Keys /\ Document \subseteq Keys
    BY DEF Keys, Listings
  <2> QED
    BY <1>2, <1>4, <2>3, <2>4, <2>5, States DEF ShellInv, FetchOK
<1>7. ScreenOK' /\ FieldsInv'
  BY <1>1, <1>2, <1>3, <1>5, RendersKeeps DEF ShellInv
<1>8. SendsOK'
  BY <1>1, <1>2 DEF ShellInv, SendsOK
<1>9. LeftInv'
  BY <1>1, <1>2 DEF ShellInv, LeftInv, Of
<1>10. GoneInv'
  <2>1. gone' \subseteq gone
    BY <1>1
  <2> SUFFICES ASSUME view' \in gone' PROVE \E q \in sends' : Closes(q, view)'
    BY <2>1 DEF ShellInv, GoneInv
  <2>2. view' = view /\ view \in gone /\ view \in Document /\ view # "empty"
    BY <1>1, <2>1, Apart DEF ShellInv, GoneInv
  <2>3. PICK w \in sends : Closes(w, view)
    BY <2>2 DEF ShellInv, GoneInv
  <2>4. w # c
    BY <1>1, <2>2, <2>3 DEF Closes, Opens
  <2> QED
    BY <1>1, <2>2, <2>3, <2>4 DEF Closes
<1>11. QueriesInv'
  <2> SUFFICES ASSUME NEW k \in Keys, k \notin lagging', ~Pending(k)'
               PROVE  /\ fetch'[k].at = "read" => fetch'[k].value = ServerHas(k)
                      /\ Observed(k)' /\ fetch'[k] = Unasked /\ k \notin broken => copy[k] = ServerHas(k)
    BY <1>1, SameHas DEF QueriesInv
  <2>1. CASE (opened /\ k = view') \/ (k \in keys /\ Observed(k))
    BY <1>4, <2>1, States
  <2>2. CASE ~(opened /\ k = view') /\ ~(k \in keys /\ Observed(k))
    <3>1. fetch'[k] = fetch[k]
      BY <1>4, <2>2
    <3>2. k \notin Missed(keys)
      BY <1>1, <2>2
    <3>3. Observed(k)' => Observed(k)
      BY <1>3, <2>2, Apart DEF Observed, Keys, Listings, Known
    <3>4. CASE k \in keys
      <4>1. ~Observed(k) /\ fetch[k] = Unasked
        BY <2>2, <3>2, <3>4 DEF Missed
      <4> QED
        BY <3>1, <3>3, <4>1, States
    <3>5. CASE k \notin keys
      <4>1. k \notin lagging
        BY <3>2, <3>5 DEF Missed
      <4>2. ~Pending(k)
        BY <1>1, <3>5 DEF Pending, Touched, keys
      <4> QED
        BY <3>1, <3>3, <4>1, <4>2 DEF ShellInv, QueriesInv
    <3> QED
      BY <3>4, <3>5
  <2> QED
    BY <2>1, <2>2
<1> QED
  BY <1>1, <1>5, <1>6, <1>7, <1>8, <1>9, <1>10, <1>11, SameMeta DEF ShellInv

LEMMA RefuseStep == ASSUME ShellInv, NEW c \in sends, WriteFails(c) PROVE ShellInv'
<1>1. /\ sends' = sends \ {c}
      /\ unsure' = (IF c.kind = "update" THEN unsure \cup {<<c.page, c.field>>} ELSE unsure)
      /\ gone' = gone \ {c.page}
      /\ lagging' = (IF c.served THEN lagging \cup Touched(c) ELSE lagging)
      /\ UNCHANGED <<broken, atServer, meta, view, copy, fetch, callback, left, fields, shownKey, typing>>
  BY DEF WriteFails, Unchanging, atServer
<1>2. Known' = Known
  BY <1>1, SameMeta
<1>3. SendsOK'
  BY <1>1, <1>2 DEF ShellInv, SendsOK
<1>4. LeftInv'
  <2>1. unsure \subseteq unsure'
    BY <1>1
  <2>2. \A d, f : <<d, f>> \notin unsure' => ~Of(c, d, f)
    BY <1>1 DEF Of
  <2> QED
    BY <1>1, <1>2, <2>1, <2>2 DEF ShellInv, LeftInv, Of
<1>5. GoneInv'
  BY <1>1 DEF ShellInv, GoneInv, Closes
<1>6. QueriesInv'
  <2> SUFFICES ASSUME NEW k \in Keys, k \notin lagging', ~Pending(k)'
               PROVE  k \notin lagging /\ ~Pending(k)
    BY <1>1, SameHas DEF ShellInv, QueriesInv, Observed
  <2> QED
    BY <1>1 DEF Pending, Touched
<1>7. FieldsInv'
  BY <1>1 DEF ShellInv, FieldsInv, Showing
<1> QED
  BY <1>1, <1>3, <1>4, <1>5, <1>6, <1>7, SameMeta, SameCopy, SameFetch, SameScreen DEF ShellInv

LEMMA OpenStep ==
  ASSUME ShellInv, NEW to \in Reachable \cup {"empty", "trash"}, Open(to) PROVE ShellInv'
<1>1. /\ to # view /\ view' = to
      /\ fetch' = (IF to \in DOMAIN fetch THEN Mount(to) ELSE fetch)
      /\ lagging' = (IF to \in DOMAIN fetch /\ fetch[to] = Unasked THEN lagging \ {to} ELSE lagging)
      /\ gone' = gone \ {to}
      /\ UNCHANGED <<broken, atServer, meta, copy, sends, callback, left, unsure>>
      /\ Renders
  BY DEF Open, atServer
<1>2. Known' = Known
  BY <1>1, SameMeta
<1>3. to \in Known \cup {"empty", "trash"} /\ to # "tree"
  <2>1. Reachable \subseteq Known
    BY DEF Reachable, ShellInv, CopyOK
  <2> QED
    BY <2>1, Apart DEF Known
<1>4. /\ fetch' = [k \in Keys |-> fetch'[k]]
      /\ \A k \in Keys : fetch'[k] = IF k = to /\ fetch[to] = Unasked THEN Underway ELSE fetch[k]
  BY <1>1 DEF ShellInv, FetchOK, Mount
<1>5. CopyOK'
  BY <1>1, SameCopy DEF ShellInv
<1>6. FetchOK'
  <2>1. \A k \in Keys : fetch'[k] = Underway \/ fetch'[k] = fetch[k]
    BY <1>4
  <2>2. \A d \in Document : fetch'[d] # Unasked => d \in Known
    BY <1>3, <1>4, Apart DEF ShellInv, FetchOK, Keys
  <2>3. "tree" \in Keys /\ Document \subseteq Keys
    BY DEF Keys, Listings
  <2> QED
    BY <1>2, <1>4, <2>1, <2>2, <2>3, States DEF ShellInv, FetchOK
<1>7. ScreenOK' /\ FieldsInv'
  BY <1>1, <1>2, <1>3, <1>5, RendersKeeps DEF ShellInv
<1>8. GoneInv'
  BY <1>1 DEF ShellInv, GoneInv
<1>9. QueriesInv'
  <2> SUFFICES ASSUME NEW k \in Keys, k \notin lagging', ~Pending(k)
               PROVE  /\ fetch'[k].at = "read" => fetch'[k].value = ServerHas(k)
                      /\ Observed(k)' /\ fetch'[k] = Unasked /\ k \notin broken => copy[k] = ServerHas(k)
    BY <1>1, SameHas DEF QueriesInv, Pending, Touched
  <2>1. CASE k = to /\ fetch[to] = Unasked
    BY <1>4, <2>1, States
  <2>2. CASE ~(k = to /\ fetch[to] = Unasked)
    <3>1. fetch'[k] = fetch[k] /\ k \notin lagging
      BY <1>1, <1>4, <2>2
    <3>2. Observed(k)' /\ fetch[k] = Unasked => Observed(k)
      BY <1>1, <2>2 DEF Observed
    <3> QED
      BY <3>1, <3>2 DEF ShellInv, QueriesInv
  <2> QED
    BY <2>1, <2>2
<1> QED
  BY <1>1, <1>5, <1>6, <1>7, <1>8, <1>9, SameMeta, SameSends, SameLeft DEF ShellInv

----------------------------------------------------------------------------
(* The version history. *)

\* The last request for a preview is for the version that is picked: it is
\* under way, or its answer is shown, or another's came after it.
PreviewInv ==
  /\ openings \in Nat
  /\ \A p \in peeks : p.id \in Nat /\ p.id <= openings /\ (p.id = openings => p.version = selected)
  /\ selected # Missing => \/ \E p \in peeks : p.id = openings
                           \/ passed \/ (preview = selected /\ ~previewing)

LEMMA PreviewStarts == ShellInit => PreviewInv
BY DEF ShellInit, PreviewInv

LEMMA PreviewStep == PreviewInv /\ VersionNext => PreviewInv'
<1> SUFFICES ASSUME PreviewInv, VersionNext PROVE PreviewInv'
  OBVIOUS
<1>1. ASSUME NEW v \in Version, OpenPreview(v) PROVE PreviewInv'
  <2> DEFINE p == [id |-> openings + 1, version |-> v]
  <2>1. openings' = openings + 1 /\ peeks' = peeks \cup {p} /\ selected' = v
    BY <1>1 DEF OpenPreview
  <2>2. p \in peeks' /\ p.id = openings' /\ p.version = selected'
    BY <2>1
  <2>3. \A q \in peeks' : q.id \in Nat /\ q.id <= openings' /\ (q.id = openings' => q.version = selected')
    BY <2>1 DEF PreviewInv
  <2> HIDE DEF p
  <2> QED
    BY <2>1, <2>2, <2>3 DEF PreviewInv
<1>2. ASSUME NEW p \in peeks, PreviewEnds(p) PROVE PreviewInv'
  <2>1. peeks' = peeks \ {p} /\ previewing' = FALSE /\ UNCHANGED <<selected, openings>>
    BY <1>2 DEF PreviewEnds
  <2>2. CASE preview' = p.version /\ passed' = (p.id # openings)
    <3>1. CASE p.id = openings
      BY <2>1, <2>2, <3>1 DEF PreviewInv
    <3>2. CASE p.id # openings
      <4>1. passed'
        BY <2>2, <3>2
      <4> QED
        BY <2>1, <4>1 DEF PreviewInv
    <3> QED
      BY <3>1, <3>2
  <2>3. CASE passed' = TRUE
    BY <2>1, <2>3 DEF PreviewInv
  <2> QED
    BY <1>2, <2>2, <2>3 DEF PreviewEnds
<1> QED
  BY <1>1, <1>2 DEF VersionNext

\* The pages and the version history share the count of acts and slips only.
LEMMA PagesSame == ShellInv /\ UNCHANGED screenVars => ShellInv'
<1> SUFFICES ASSUME ShellInv, UNCHANGED screenVars PROVE ShellInv'
  OBVIOUS
<1>1. /\ UNCHANGED <<meta, trashed, view, copy, fetch, fields, shownKey, typing, broken>>
      /\ UNCHANGED <<sends, callback, left, unsure, gone, lagging>>
  BY DEF screenVars
<1> QED
  BY <1>1, SameMeta, SameCopy, SameFetch, SameScreen, SameSends, SameLeft, SameGone, SameQueries,
     SameFields
  DEF ShellInv, atServer

LEMMA PreviewSame == PreviewInv /\ UNCHANGED versionVars => PreviewInv'
BY DEF PreviewInv, versionVars

LEMMA PagesStep == ShellInv /\ ScreenShellNext => ShellInv'
BY ReadStep, ArriveStep, FailStep, OpenStep, TypeStep, CommitStep, CreateStep, ArchiveStep,
   RestoreStep,
   ServeStep, SucceedStep, RefuseStep DEF ScreenShellNext, Keys

\* What a tab's screen knows, shows and has under way, however fetches, writes
\* and the user's steps interleave, are answered late or fail.
THEOREM ScreenInvariant == ShellSpec => [](ShellInv /\ PreviewInv)
<1>1. ShellInit => ShellInv /\ PreviewInv
  BY ShellStarts, PreviewStarts
<1>2. ShellInv /\ PreviewInv /\ [ScreenShellNext \/ VersionNext]_shellVars => ShellInv' /\ PreviewInv'
  <2>1. ScreenShellNext => UNCHANGED versionVars
    BY DEF ScreenShellNext
  <2>2. VersionNext => UNCHANGED screenVars
    BY DEF VersionNext
  <2>3. UNCHANGED shellVars => UNCHANGED screenVars /\ UNCHANGED versionVars
    BY DEF shellVars
  <2> QED
    BY <2>1, <2>2, <2>3, PagesStep, PreviewStep, PagesSame, PreviewSame
<1> QED
  BY <1>1, <1>2, PTL DEF ShellSpec

LEMMA SettledScreen == ShellInv /\ PreviewInv => ScreenSettles
<1> SUFFICES ASSUME ShellInv, PreviewInv PROVE ScreenSettles
  OBVIOUS
<1>1. ASSUME sends = {}, NEW l \in left, <<l[1], l[2]>> \notin unsure PROVE meta[l[1]][l[2]] = l[3]
  <2>1. PICK d \in Document, f \in Field, e \in Value : l = <<d, f, e>>
    BY DEF ShellInv, LeftInv, Known
  <2>2. l[1] = d /\ l[2] = f /\ l[3] = e
    BY <2>1
  <2>3. <<d, f, e>> \in left /\ <<d, f>> \notin unsure
    BY <1>1, <2>1, <2>2
  <2> QED
    BY <1>1, <2>2, <2>3 DEF ShellInv, LeftInv
<1>2. sends = {} => view \notin gone
  BY DEF ShellInv, GoneInv
<1>3. ASSUME sends = {}, NEW key \in {"tree", view} \cap DOMAIN fetch,
             fetch[key] = Unasked, key \notin lagging \cup broken
      PROVE  /\ copy[key] = ServerHas(key)
             /\ key \in Document => \A f \in Field \ {typing} :
                                      <<key, f>> \notin unsure => fields[f] = meta[key][f]
  <2>1. key \in Keys /\ Observed(key) /\ ~Pending(key)
    BY <1>3 DEF ShellInv, FetchOK, Observed, Pending
  <2>2. copy[key] = ServerHas(key)
    BY <1>3, <2>1 DEF ShellInv, QueriesInv
  <2>3. ASSUME key \in Document, NEW f \in Field \ {typing}, <<key, f>> \notin unsure
        PROVE  fields[f] = meta[key][f]
    <3>1. key = view /\ view \in Known
      BY <2>3, Apart DEF ShellInv, ScreenOK
    <3>2. Showing = meta[key] /\ Showing # Missing
      BY <2>2, <2>3, <3>1, HasIs DEF Showing, Known
    <3>3. fields[f] = Showing[f] \/ <<view, f, fields[f]>> \in left
      BY <2>3, <3>1, <3>2 DEF ShellInv, FieldsInv
    <3>4. CASE <<view, f, fields[f]>> \in left
      <4>1. fields[f] \in Value
        BY <2>3 DEF ShellInv, ScreenOK, MetaRow, Value
      <4> QED
        BY <1>3, <2>3, <3>1, <3>4, <4>1 DEF ShellInv, LeftInv
    <3> QED
      BY <3>2, <3>3, <3>4
  <2> QED
    BY <2>2, <2>3
<1>4. peeks = {} /\ selected # Missing /\ ~passed => preview = selected /\ ~previewing
  BY DEF PreviewInv
<1> QED
  BY <1>1, <1>2, <1>3, <1>4 DEF ScreenSettles

\* Once the writes of a tab have ended, what was left in a field is stored, a
\* page that was archived is not open, and the tree, the page and its fields
\* are the server's, but for what ScreenSettles excepts (PageView commitMeta,
\* Workspace, Sidebar); the preview is of the version picked last.
THEOREM ScreenSettled == ShellSpec => []ScreenSettles
BY ScreenInvariant, SettledScreen, PTL

----------------------------------------------------------------------------
(* The controls of a view. *)

\* Known to have been a property: it is there, or was deleted.
Lived(p) == column[p] # Nothing \/ p \in deleted

ServerOK ==
  /\ conf \in [Views -> ViewConfigs \cup {Nothing}]
  /\ column \in [ToSet(Columns) -> Properties \cup {Nothing}]
  /\ conf[Default] # Nothing

CacheOK ==
  /\ cache.conf \in [Views -> ViewConfigs \cup {Nothing}]
  /\ cache.column \in [ToSet(Columns) -> Properties \cup {Nothing}]
  /\ \A v \in Views : cache.conf[v] # Nothing => conf[v] # Nothing
  /\ cache.conf[Default] # Nothing
  /\ \A p \in ToSet(Columns) : cache.column[p] # Nothing => Lived(p)
  /\ picked \in Views \cup {Nothing}
  /\ ~reading => cache.conf = conf /\ cache.column = column

\* What a request that no other crossed would change of what is stored now.
Shaped(r) ==
  r = [kind |-> r.kind, id |-> r.id, parts |-> r.parts, body |-> r.body, step |-> r.step,
       carried |-> r.carried, stale |-> r.stale, number |-> r.number]
KeepsView(r) ==
  /\ \A part \in DOMAIN NewConfig \ r.parts : r.body[part] = conf[r.id][part]
  /\ r.step # Nothing /\ ~r.carried =>
       r.body.filters.conditions = Expected(conf[r.id].filters.conditions, r.step)
KeepsProperty(r) ==
  ~r.carried /\ column[r.id] # Nothing =>
    \A part \in {"name", "config"} \ r.parts : r.body[part] = column[r.id][part]

RequestOK(r) ==
  /\ Shaped(r)
  /\ \/ /\ r.kind = "view" /\ r.id \in Views /\ r.body \in ViewConfigs
        /\ conf[r.id] # Nothing
        /\ ~r.stale => KeepsView(r)
     \/ /\ r.kind = "newView" /\ r.id \in Views /\ r.body \in ViewConfigs
        /\ conf[r.id] = Nothing /\ ~r.stale
     \/ /\ r.kind = "save" /\ r.id \in ToSet(Columns) /\ r.body \in Properties
        /\ Lived(r.id)
        /\ ~r.stale => KeepsProperty(r)
     \/ /\ r.kind = "delete" /\ r.id \in ToSet(Columns) /\ r.body = Nothing
     \/ /\ r.kind = "add" /\ r.id \in ToSet(Columns) /\ r.body \in Properties
        /\ column[r.id] = Nothing /\ r.id \notin deleted /\ ~r.stale

WireOK ==
  /\ \A r \in wire : RequestOK(r)
  /\ \A q, r \in wire : q.kind = r.kind /\ q.id = r.id /\ ~r.stale => q = r

\* The builder's filter is what the view has or is about to get.
BuilderOK ==
  /\ builder = [of |-> builder.of, filter |-> builder.filter]
  /\ builder.filter \in Filters
  /\ builder.of # Nothing =>
       /\ builder.of \in Views /\ conf[builder.of] # Nothing
       /\ \A r \in Sharing("view", builder.of) : r.body.filters = builder.filter
       /\ (\A r \in Sharing("view", builder.of) : "filters" \notin r.parts) =>
            conf[builder.of].filters = builder.filter

\* The parts of the form that nobody touched are what the property has.
FormOK ==
  form # Nothing =>
    /\ form = [on |-> form.on, of |-> form.of, touched |-> form.touched,
               name |-> form.name, config |-> form.config]
    /\ form.on \in ToSet(Columns) /\ Lived(form.on)
    /\ [name |-> form.name, config |-> form.config] \in Properties
    /\ form.of # Nothing =>
         /\ form.of \in ToSet(Columns) /\ column[form.of] # Nothing
         /\ \A part \in {"name", "config"} \ form.touched : form[part] = column[form.of][part]

ControlInv == ServerOK /\ CacheOK /\ WireOK /\ BuilderOK /\ FormOK

----------------------------------------------------------------------------
\* The view that is shown is stored.
LEMMA ActiveIsStored ==
  ASSUME ServerOK, CacheOK
  PROVE  /\ Active \in Views /\ cache.conf[Active] # Nothing /\ conf[Active] # Nothing
         /\ cache.conf[Active] \in ViewConfigs /\ Active # Nothing
BY ControlAssumption DEF Active, CacheOK, ServerOK

\* The row of a condition in the builder is a place in the list.
LEMMA RowIsPlace ==
  ASSUME NEW f \in Filters, NEW j \in Leaves(f)
  PROVE  RowOf(f, j) \in 1 .. Len(f.conditions)
<1> DEFINE K == {k \in Leaves(f) : k <= j}
<1>1. /\ f.conditions \in Seq(Conditions \cup {Group})
      /\ j \in Nat /\ j >= 1 /\ j <= Len(f.conditions) /\ Len(f.conditions) \in Nat
      /\ DOMAIN f.conditions = 1 .. Len(f.conditions)
  BY DEF Filters, Leaves
<1>2. K \subseteq 1 .. j /\ j \in K
  BY <1>1 DEF Leaves
<1>3. IsFiniteSet(1 .. j) /\ Cardinality(1 .. j) = j
  BY <1>1, FS_Interval
<1>4. IsFiniteSet(K) /\ Cardinality(K) <= j
  BY <1>2, <1>3, FS_Subset
<1>5. Cardinality(K) \in Nat /\ Cardinality(K) # 0
  BY <1>2, <1>4, FS_CardinalityType, FS_EmptySet
<1> QED
  BY <1>1, <1>4, <1>5 DEF RowOf

\* A step in the builder makes a filter, and does what it should to the list.
LEMMA StepsReduce ==
  ASSUME BuilderOK, CacheOK, NEW step \in Steps
  PROVE  /\ FilterReducer(builder.filter, step) \in Filters
         /\ FilterReducer(builder.filter, step).conditions
              = Expected(builder.filter.conditions, step)
<1> DEFINE f == builder.filter
           s == f.conditions
           C == Conditions \cup {Group}
<1>1. f \in Filters /\ s \in Seq(C) /\ f.conjunction \in {"and", "or"}
  BY DEF BuilderOK, Filters
<1>2. ASSUME Reduced(s, step) \in Seq(C), Reduced(s, step) = Expected(s, step)
      PROVE  /\ FilterReducer(f, step) \in Filters
             /\ FilterReducer(f, step).conditions = Expected(s, step)
  BY <1>1, <1>2 DEF FilterReducer, Filters
<1>3. CASE step = [do |-> "conjunction"]
  BY <1>1, <1>2, <1>3 DEF Reduced, Expected
<1>4. ASSUME NEW p \in Foremost(Kept(cache.column)),
             step = [do |-> "add", condition |-> Condition(p, Head(Operators[p]))]
      PROVE  Reduced(s, step) \in Seq(C) /\ Reduced(s, step) = Expected(s, step)
  <2>1. p \in ToSet(Columns) /\ Operators[p] \in Seq(STRING) /\ Operators[p] # <<>>
    BY ControlAssumption DEF Foremost, Kept
  <2>2. step.condition \in C /\ step.do = "add"
    BY <1>4, <2>1 DEF Conditions, Condition
  <2>3. /\ Append(s, step.condition) \in Seq(C)
        /\ Append(s, step.condition) = s \o <<step.condition>>
    BY <1>1, <2>2, AppendIsConcat
  <2> QED
    BY <2>2, <2>3 DEF Reduced, Expected
<1>5. ASSUME NEW j \in Leaves(f), step = [do |-> "remove", index |-> RowOf(f, j)]
      PROVE  Reduced(s, step) \in Seq(C) /\ Reduced(s, step) = Expected(s, step)
  <2>1. step.index \in 1 .. Len(s) /\ step.do = "remove"
    BY <1>1, <1>5, RowIsPlace
  <2> DEFINE i == step.index
  <2>2. Len(s) \in Nat /\ i \in Nat /\ i - 1 \in Int /\ 1 <= i /\ i <= Len(s)
    BY <1>1, <2>1
  <2>3. SubSeq(s, 1, i - 1) \in Seq(C) /\ SubSeq(s, i + 1, Len(s)) \in Seq(C)
    BY <1>1, <2>2, SubSeqProperties
  <2>4. SubSeq(s, 1, i - 1) \o SubSeq(s, i + 1, Len(s)) \in Seq(C)
    BY <2>3, ConcatProperties
  <2>5. /\ Reduced(s, step) = SubSeq(s, 1, i - 1) \o SubSeq(s, i + 1, Len(s))
        /\ Expected(s, step) = SubSeq(s, 1, i - 1) \o SubSeq(s, i + 1, Len(s))
    BY <2>1 DEF Reduced, Expected, RemoveAt
  <2> QED
    BY <2>4, <2>5
<1>6. ASSUME step.do \in {"property", "operator"}, step.index \in 1 .. Len(s),
             \A c \in C : Patched(c, step) \in C
      PROVE  Reduced(s, step) \in Seq(C) /\ Reduced(s, step) = Expected(s, step)
  <2>1. /\ Reduced(s, step) = [i \in DOMAIN s |-> IF i = step.index THEN Patched(s[i], step) ELSE s[i]]
        /\ Expected(s, step) = [s EXCEPT ![step.index] = Patched(s[step.index], step)]
    BY <1>6 DEF Reduced, Expected
  <2>2. s = [i \in 1 .. Len(s) |-> s[i]] /\ \A i \in 1 .. Len(s) : s[i] \in C
    BY <1>1
  <2>3. Reduced(s, step) \in [1 .. Len(s) -> C]
    BY <1>1, <1>6, <2>1, <2>2
  <2>4. Reduced(s, step) \in Seq(C)
    BY <1>1, <2>3, SeqDef
  <2> QED
    BY <1>1, <1>6, <2>1, <2>2, <2>4
<1>7. ASSUME NEW j \in Leaves(f), NEW p \in Kept(cache.column),
             step = [do |-> "property", index |-> RowOf(f, j), property |-> p]
      PROVE  Reduced(s, step) \in Seq(C) /\ Reduced(s, step) = Expected(s, step)
  <2>1. step.index \in 1 .. Len(s) /\ step.do = "property" /\ step.property \in ToSet(Columns)
    BY <1>1, <1>7, RowIsPlace DEF Kept
  <2>2. \A c \in C : Patched(c, step) \in C
    BY <2>1 DEF Patched, Conditions
  <2> QED
    BY <1>6, <2>1, <2>2
<1>8. ASSUME NEW j \in Leaves(f), NEW op \in ToSet(Operators[f.conditions[j].property]),
             step = [do |-> "operator", index |-> RowOf(f, j), operator |-> op]
      PROVE  Reduced(s, step) \in Seq(C) /\ Reduced(s, step) = Expected(s, step)
  <2>1. f.conditions[j] \in Conditions
    BY <1>1 DEF Leaves
  <2>2. Operators[f.conditions[j].property] \in Seq(STRING)
    BY <2>1, ControlAssumption DEF Conditions
  <2>3. op \in STRING
    BY <2>2 DEF ToSet
  <2>4. step.index \in 1 .. Len(s) /\ step.do = "operator" /\ step.operator \in STRING
    BY <1>1, <1>8, <2>3, RowIsPlace
  <2>5. \A c \in C : Patched(c, step) \in C
    BY <2>4 DEF Patched, Conditions
  <2> QED
    BY <1>6, <2>4, <2>5
<1> QED
  BY <1>2, <1>3, <1>4, <1>5, <1>7, <1>8 DEF Steps

LEMMA ControlStarts == ScreenInit => ControlInv
<1> SUFFICES ASSUME ScreenInit PROVE ControlInv
  OBVIOUS
<1>1. /\ Head(Columns) \in ToSet(Columns)
      /\ FirstCondition \in Conditions
  <2>1. Columns \in Seq(ToSet(Columns)) /\ Columns # <<>>
    BY ControlAssumption
  <2>2. Head(Columns) \in ToSet(Columns)
    BY <2>1
  <2>3. Operators[Head(Columns)] \in Seq(STRING) /\ Operators[Head(Columns)] # <<>>
    BY <2>2, ControlAssumption
  <2> QED
    BY <2>2, <2>3 DEF FirstCondition, Condition, Conditions
<1>2. PICK s \in {<<FirstCondition>>, <<Group, FirstCondition>>} :
        conf = [v \in Views |->
                  IF v # Default THEN Nothing
                  ELSE [NewConfig EXCEPT !.filters = [EmptyFilter EXCEPT !.conditions = s]]]
  BY DEF ScreenInit
<1>3. s \in Seq(Conditions \cup {Group})
  <2> DEFINE C == Conditions \cup {Group}
  <2>1. \A a, b \in C : <<a>> \in Seq(C) /\ <<a, b>> \in Seq(C)
    OBVIOUS
  <2>2. FirstCondition \in C /\ Group \in C
    BY <1>1
  <2> QED
    BY <2>1, <2>2
<1> DEFINE f == [EmptyFilter EXCEPT !.conditions = s]
<1>4. f \in Filters
  BY <1>3 DEF EmptyFilter, Filters
<1>5. [NewConfig EXCEPT !.filters = f] \in ViewConfigs
  <2> HIDE DEF f
  <2> QED
    BY <1>4 DEF NewConfig, ViewConfigs, MaybeColumn
<1>6. conf[Default].filters = f
  BY <1>2, ControlAssumption DEF NewConfig
<1> HIDE DEF f
<1>7. ServerOK
  <2>1. conf \in [Views -> ViewConfigs \cup {Nothing}]
    BY <1>2, <1>5 DEF f
  <2>2. conf[Default] # Nothing
    BY <1>2, <1>5, ControlAssumption DEF f
  <2>3. column \in [ToSet(Columns) -> Properties \cup {Nothing}]
    BY DEF ScreenInit, Properties
  <2> QED
    BY <2>1, <2>2, <2>3 DEF ServerOK
<1>8. CacheOK
  BY <1>7, Zenon DEF ScreenInit, CacheOK, ServerOK, Lived
<1>9. WireOK /\ FormOK
  BY DEF ScreenInit, WireOK, FormOK
<1>10. BuilderOK
  BY <1>4, <1>6, <1>7, ControlAssumption DEF ScreenInit, BuilderOK, Sharing, ServerOK
<1> QED
  BY <1>7, <1>8, <1>9, <1>10 DEF ControlInv

\* After a request is sent: the new one, those that it crosses, and the others.
LEMMA SentAre ==
  ASSUME WireOK, NEW kind, NEW id, NEW parts, NEW body, NEW step, NEW carried,
         Mutate(kind, id, parts, body, step, carried), NEW q \in wire'
  PROVE  \/ q \in wire \ Sharing(kind, id)
         \/ /\ q.kind = kind /\ q.id = id /\ q.stale /\ Sharing(kind, id) # {}
            /\ Shaped(q)
            /\ \E r \in Sharing(kind, id) :
                 q.body = r.body /\ q.parts = r.parts /\ q.step = r.step /\ q.carried = r.carried
         \/ /\ q = [kind |-> kind, id |-> id, parts |-> parts, body |-> body, step |-> step,
                    carried |-> carried, stale |-> Stale(kind, id), number |-> actions]
<1>1. CASE \E r \in Sharing(kind, id) : q = [r EXCEPT !.stale = TRUE]
  <2>1. PICK r \in Sharing(kind, id) : q = [r EXCEPT !.stale = TRUE]
    BY <1>1
  <2>2. Shaped(r) /\ r.kind = kind /\ r.id = id
    BY DEF WireOK, RequestOK, Sharing
  <2>3. /\ q.kind = r.kind /\ q.id = r.id /\ q.parts = r.parts /\ q.body = r.body
        /\ q.step = r.step /\ q.carried = r.carried /\ q.stale = TRUE /\ q.number = r.number
        /\ Shaped(q)
    BY <2>1, <2>2 DEF Shaped
  <2> QED
    BY <2>2, <2>3
<1> QED
  BY <1>1, Zenon DEF Mutate

\* A request that holds up, sent while none of its kind is at the same place or
\* of a kind that another may cross, leaves requests that hold up.
LEMMA SentOK ==
  ASSUME WireOK, NEW kind, NEW id, NEW parts, NEW body, NEW step, NEW carried,
         Mutate(kind, id, parts, body, step, carried), UNCHANGED <<conf, column, deleted>>,
         kind \in {"view", "save", "delete"} \/ Sharing(kind, id) = {},
         RequestOK([kind |-> kind, id |-> id, parts |-> parts, body |-> body, step |-> step,
                    carried |-> carried, stale |-> Stale(kind, id), number |-> actions])
  PROVE  WireOK'
<1> DEFINE new == [kind |-> kind, id |-> id, parts |-> parts, body |-> body, step |-> step,
                   carried |-> carried, stale |-> Stale(kind, id), number |-> actions]
<1>1. ASSUME NEW q \in wire'
      PROVE  RequestOK(q)
  <2>1. CASE q \in wire \ Sharing(kind, id)
    BY <2>1 DEF WireOK
  <2>2. CASE q = new
    BY <2>2
  <2>3. CASE /\ q.kind = kind /\ q.id = id /\ q.stale /\ Sharing(kind, id) # {}
             /\ Shaped(q)
             /\ \E r \in Sharing(kind, id) :
                  q.body = r.body /\ q.parts = r.parts /\ q.step = r.step /\ q.carried = r.carried
    <3>1. PICK r \in Sharing(kind, id) : q.body = r.body
      BY <2>3
    <3>2. RequestOK(r) /\ r.kind = kind /\ r.id = id
      BY DEF WireOK, Sharing
    <3>3. kind \in {"view", "save", "delete"}
      BY <2>3
    <3> QED
      BY <2>3, <3>1, <3>2, <3>3 DEF RequestOK
  <2> QED
    BY <1>1, <2>1, <2>2, <2>3, SentAre
<1>2. ASSUME NEW q \in wire', NEW r \in wire', q.kind = r.kind, q.id = r.id, ~r.stale
      PROVE  q = r
  <2>1. new.kind = kind /\ new.id = id /\ new.stale = Stale(kind, id)
    OBVIOUS
  <2>2. r \in wire \ Sharing(kind, id) \/ r = new
    BY <1>2, SentAre
  <2> HIDE DEF new
  <2>3. r = new => Sharing(kind, id) = {}
    BY <1>2, <2>1 DEF Stale
  <2>4. \/ q \in wire \ Sharing(kind, id)
        \/ q.kind = kind /\ q.id = id /\ Sharing(kind, id) # {}
        \/ q = new
    BY <1>2, SentAre DEF new
  <2> QED
    BY <1>2, <2>1, <2>2, <2>3, <2>4 DEF WireOK, Sharing
<1>3. \A q \in wire' : RequestOK(q)'
  BY <1>1 DEF RequestOK, Shaped, KeepsView, KeepsProperty, Lived
<1> QED
  BY <1>2, <1>3 DEF WireOK

\* A control sends the view's configuration with another value for some parts.
Changes(parts, body, step, carried) ==
  /\ Mutate("view", Active, parts, body, step, carried)
  /\ UNCHANGED <<conf, column, deleted, cache, reading, picked, form>>
  /\ body \in ViewConfigs
  /\ \A part \in DOMAIN NewConfig \ parts : body[part] = cache.conf[Active][part]
  /\ ~Stale("view", Active) /\ step # Nothing /\ ~carried =>
       body.filters.conditions = Expected(conf[Active].filters.conditions, step)
  /\ \/ /\ "filters" \notin parts
        /\ builder' = BuilderAfter(Active)
     \/ /\ "filters" \in parts
        /\ body.filters \in Filters
        /\ builder' = [of |-> IF Stale("view", Active) THEN Nothing ELSE Active,
                       filter |-> body.filters]
LEMMA ViewSent ==
  ASSUME ControlInv, NEW parts, NEW body, NEW step, NEW carried, Changes(parts, body, step, carried)
  PROVE  ControlInv'
<1> USE DEF Changes
<1> DEFINE new == [kind |-> "view", id |-> Active, parts |-> parts, body |-> body, step |-> step,
                   carried |-> carried, stale |-> Stale("view", Active), number |-> actions]
<1>1. /\ Active \in Views /\ conf[Active] # Nothing /\ Active # Nothing
  BY ActiveIsStored DEF ControlInv
<1>2. ~Stale("view", Active) => cache.conf = conf /\ Sharing("view", Active) = {}
  BY DEF Stale, ControlInv, CacheOK
<1>3. RequestOK(new)
  <2>1. ~new.stale => KeepsView(new)
    BY <1>2 DEF KeepsView
  <2> QED
    BY <1>1, <2>1 DEF RequestOK, Shaped
<1>4. WireOK'
  BY <1>3, SentOK DEF ControlInv
<1>5. /\ ServerOK' /\ CacheOK' /\ FormOK'
  BY DEF ControlInv, ServerOK, CacheOK, FormOK, Lived
<1>6. new.kind = "view" /\ new.id = Active /\ new.parts = parts /\ new.body = body
  OBVIOUS
<1> HIDE DEF new
<1>7. \A q \in wire' : q \in wire \/ (q.kind = "view" /\ q.id = Active)
  BY <1>6, SentAre DEF new, ControlInv
<1>8. ~Stale("view", Active) => wire' = wire \cup {new}
  BY <1>2 DEF Mutate, new, Stale
<1> DEFINE Asked(v) == {q \in wire' : q.kind = "view" /\ q.id = v}
<1>9. /\ ~Stale("view", Active) => Asked(Active) = {new}
      /\ \A v : v # Active => Asked(v) = Sharing("view", v)
  <2>1. ASSUME ~Stale("view", Active) PROVE Asked(Active) = {new}
    <3>1. wire' = wire \cup {new} /\ \A q \in wire : ~(q.kind = "view" /\ q.id = Active)
      BY <1>2, <1>8, <2>1 DEF Sharing
    <3> QED
      BY <1>6, <3>1
  <2>2. ASSUME NEW v, v # Active PROVE Asked(v) = Sharing("view", v)
    <3>1. \A q \in wire : q \in wire' \/ (q.kind = "view" /\ q.id = Active)
      BY DEF Mutate, Sharing
    <3> QED
      BY <1>7, <2>2, <3>1 DEF Sharing
  <2> QED
    BY <2>1, <2>2
<1>10. BuilderOK'
  <2>1. BuilderOK
    BY DEF ControlInv
  <2>2. CASE "filters" \notin parts /\ builder' = BuilderAfter(Active)
    <3>1. body.filters = cache.conf[Active].filters
      BY <2>2 DEF NewConfig
    <3>2. CASE builder.of = Active /\ Stale("view", Active)
      <4>1. builder'.of = Nothing /\ builder'.filter = builder.filter
            /\ builder' = [of |-> builder'.of, filter |-> builder'.filter]
        BY <2>1, <2>2, <3>2 DEF BuilderAfter, BuilderOK
      <4>2. builder'.filter \in Filters
        BY <2>1, <4>1 DEF BuilderOK
      <4> QED
        BY <4>1, <4>2 DEF BuilderOK
    <3>3. CASE builder.of = Active /\ ~Stale("view", Active)
      <4>1. builder' = builder /\ conf[Active].filters = builder.filter
        BY <1>1, <1>2, <2>1, <2>2, <3>3 DEF BuilderAfter, BuilderOK
      <4>2. new.body.filters = builder.filter
        BY <1>2, <1>6, <3>1, <3>3, <4>1
      <4> QED
        BY <1>9, <2>1, <3>3, <4>1, <4>2 DEF BuilderOK, Sharing
    <3>4. CASE builder.of # Active
      <4>1. builder' = builder
        BY <2>2, <3>4 DEF BuilderAfter
      <4> QED
        BY <1>9, <2>1, <3>4, <4>1 DEF BuilderOK, Sharing
    <3> QED
      BY <3>2, <3>3, <3>4
  <2>3. CASE /\ "filters" \in parts /\ body.filters \in Filters
             /\ builder' = [of |-> IF Stale("view", Active) THEN Nothing ELSE Active,
                            filter |-> body.filters]
    <3>1. CASE Stale("view", Active)
      <4>1. /\ builder'.of = Nothing /\ builder'.filter \in Filters
            /\ builder' = [of |-> builder'.of, filter |-> builder'.filter]
        BY <2>3, <3>1
      <4> QED
        BY <4>1 DEF BuilderOK
    <3>2. CASE ~Stale("view", Active)
      BY <1>1, <1>6, <1>9, <2>3, <3>2 DEF BuilderOK, Sharing
    <3> QED
      BY <3>1, <3>2
  <2> QED
    BY <2>2, <2>3
<1> QED
  BY <1>4, <1>5, <1>10 DEF ControlInv

LEMMA SetPartKeeps ==
  ASSUME ControlInv, NEW part \in {"sorts", "groupBy", "visible"}, NEW value,
         value \in (IF part = "visible" THEN (SUBSET ToSet(Columns)) \cup {Nothing} ELSE MaybeColumn),
         SetPart(part, value)
  PROVE  ControlInv'
<1>1. cache.conf[Active] \in ViewConfigs
  BY ActiveIsStored DEF ControlInv
<1> DEFINE body == WithPart(part, value)
           parts == {part}
<1>2. /\ body \in ViewConfigs /\ "filters" \notin parts
      /\ \A other \in DOMAIN NewConfig \ parts : body[other] = cache.conf[Active][other]
  BY <1>1 DEF WithPart, ViewConfigs, NewConfig
<1>3. /\ Mutate("view", Active, parts, body, Nothing, FALSE)
      /\ builder' = BuilderAfter(Active)
      /\ UNCHANGED <<conf, column, deleted, cache, reading, picked, form>>
  BY DEF SetPart
<1> HIDE DEF body, parts
<1>4. Changes(parts, body, Nothing, FALSE)
  BY <1>2, <1>3, Zenon DEF Changes
<1> QED
  BY <1>4, ViewSent

LEMMA ControlsKeep ==
  ASSUME ControlInv, SortBy \/ GroupBy \/ ToggleColumn
  PROVE  ControlInv'
<1>1. Kept(cache.column) \subseteq ToSet(Columns)
  BY DEF Kept
<1>2. CASE SortBy
  <2>1. PICK p \in MaybeColumn : SetPart("sorts", p)
    BY <1>1, <1>2 DEF SortBy, MaybeColumn
  <2> QED
    BY <2>1, SetPartKeeps
<1>3. CASE GroupBy
  <2>1. PICK p \in MaybeColumn : SetPart("groupBy", p)
    BY <1>1, <1>3 DEF GroupBy, MaybeColumn
  <2> QED
    BY <2>1, SetPartKeeps
<1>4. CASE ToggleColumn
  <2>1. PICK ps \in SUBSET ToSet(Columns) : SetPart("visible", ps)
    BY <1>1, <1>4 DEF ToggleColumn
  <2> QED
    BY <2>1, SetPartKeeps
<1> QED
  BY <1>2, <1>3, <1>4

LEMMA SwitchKeeps == ASSUME ControlInv, SwitchType PROVE ControlInv'
<1> DEFINE old == cache.conf[Active]
<1>1. old \in ViewConfigs
  BY ActiveIsStored DEF ControlInv
<1>2. \A types : FirstOf(cache.column, types) \subseteq MaybeColumn
  BY DEF FirstOf, Foremost, Kept, MaybeColumn
<1>3. PICK type \in {"table", "board", "calendar"}, group \in MaybeColumn, day \in MaybeColumn :
        /\ Mutate("view", Active, {"type", "groupBy", "date"},
                [old EXCEPT !.type = type,
                            !.groupBy = IF type = "board" /\ @ = Nothing THEN group ELSE @,
                            !.date = IF type = "calendar" /\ @ = Nothing THEN day ELSE @],
                Nothing, FALSE)
        /\ builder' = BuilderAfter(Active)
        /\ UNCHANGED <<conf, column, deleted, cache, reading, picked, form>>
  BY <1>2 DEF SwitchType
<1> DEFINE body == [old EXCEPT !.type = type,
                               !.groupBy = IF type = "board" /\ @ = Nothing THEN group ELSE @,
                               !.date = IF type = "calendar" /\ @ = Nothing THEN day ELSE @]
           parts == {"type", "groupBy", "date"}
<1>4. /\ body \in ViewConfigs
      /\ \A other \in DOMAIN NewConfig \ parts : body[other] = old[other]
  BY <1>1 DEF ViewConfigs, NewConfig
<1>5. Mutate("view", Active, parts, body, Nothing, FALSE) /\ "filters" \notin parts
  BY <1>3
<1> HIDE DEF body, parts
<1>6. Changes(parts, body, Nothing, FALSE)
  BY <1>3, <1>4, <1>5, Zenon DEF Changes
<1> QED
  BY <1>6, ViewSent

LEMMA EditKeeps == ASSUME ControlInv, EditFilter PROVE ControlInv'
<1>1. PICK step \in Steps :
        LET next == FilterReducer(builder.filter, step)
        IN  /\ Mutate("view", Active, {"filters"}, WithPart("filters", next), step, builder.of # Active)
            /\ builder' = [of |-> IF Stale("view", Active) THEN Nothing ELSE Active, filter |-> next]
            /\ UNCHANGED <<conf, column, deleted, cache, reading, picked, form>>
  BY DEF EditFilter
<1> DEFINE next == FilterReducer(builder.filter, step)
           body == WithPart("filters", next)
           parts == {"filters"}
           carried == builder.of # Active
<1>2. /\ next \in Filters
      /\ next.conditions = Expected(builder.filter.conditions, step)
  BY StepsReduce DEF ControlInv
<1>3. cache.conf[Active] \in ViewConfigs /\ Active # Nothing
  BY ActiveIsStored DEF ControlInv
<1> HIDE DEF next
<1>4. /\ body \in ViewConfigs /\ body.filters = next
      /\ \A part \in DOMAIN NewConfig \ {"filters"} : body[part] = cache.conf[Active][part]
  BY <1>2, <1>3 DEF WithPart, ViewConfigs, NewConfig
<1>5. ~Stale("view", Active) /\ builder.of = Active => builder.filter = conf[Active].filters
  BY <1>3 DEF ControlInv, BuilderOK, Stale
<1> HIDE DEF body
<1>6. ~Stale("view", Active) /\ step # Nothing /\ ~carried =>
        body.filters.conditions = Expected(conf[Active].filters.conditions, step)
  BY <1>2, <1>4, <1>5
<1>7. /\ Mutate("view", Active, parts, body, step, carried) /\ "filters" \in parts
      /\ builder' = [of |-> IF Stale("view", Active) THEN Nothing ELSE Active, filter |-> body.filters]
      /\ UNCHANGED <<conf, column, deleted, cache, reading, picked, form>>
  BY <1>1, <1>4 DEF body, next
<1>8. \A part \in DOMAIN NewConfig \ parts : body[part] = cache.conf[Active][part]
  BY <1>4
<1> HIDE DEF parts, carried
<1>9. Changes(parts, body, step, carried)
  BY <1>2, <1>4, <1>6, <1>7, <1>8 DEF Changes
<1> QED
  BY <1>9, ViewSent

\* A request that is none of a view's leaves the builder as it is.
LEMMA ElseSent ==
  ASSUME ControlInv, NEW kind, kind # "view", NEW id, NEW parts, NEW body, NEW step, NEW carried,
         Mutate(kind, id, parts, body, step, carried),
         UNCHANGED <<conf, column, deleted, cache, reading, local>>,
         kind \in {"save", "delete"} \/ Sharing(kind, id) = {},
         RequestOK([kind |-> kind, id |-> id, parts |-> parts, body |-> body, step |-> step,
                    carried |-> carried, stale |-> Stale(kind, id), number |-> actions])
  PROVE  ControlInv'
<1>1. WireOK'
  BY SentOK DEF ControlInv
<1>2. ServerOK' /\ CacheOK' /\ FormOK'
  BY DEF ControlInv, ServerOK, CacheOK, FormOK, Lived, local
<1>3. \A v : {q \in wire' : q.kind = "view" /\ q.id = v} = Sharing("view", v)
  <2>1. \A q \in wire' : q \in wire \/ q.kind = kind
    BY SentAre DEF ControlInv
  <2>2. \A q \in wire : q \in wire' \/ q.kind = kind
    BY DEF Mutate, Sharing
  <2> QED
    BY <2>1, <2>2 DEF Sharing
<1>4. BuilderOK'
  BY <1>3 DEF ControlInv, BuilderOK, Sharing, local
<1> QED
  BY <1>1, <1>2, <1>4 DEF ControlInv

LEMMA AddViewKeeps == ASSUME ControlInv, AddView PROVE ControlInv'
<1>1. PICK v \in Views : /\ conf[v] = Nothing /\ ~Stale("newView", v)
                         /\ Mutate("newView", v, {}, NewConfig, Nothing, FALSE)
                         /\ UNCHANGED <<conf, column, deleted, cache, reading, local>>
  BY DEF AddView
<1>2. NewConfig \in ViewConfigs
  BY DEF NewConfig, ViewConfigs, MaybeColumn
<1> HIDE DEF NewConfig
<1>3. RequestOK([kind |-> "newView", id |-> v, parts |-> {}, body |-> NewConfig, step |-> Nothing,
                 carried |-> FALSE, stale |-> Stale("newView", v), number |-> actions])
  BY <1>1, <1>2 DEF RequestOK, Shaped
<1>4. Sharing("newView", v) = {}
  BY <1>1 DEF Stale
<1> QED
  BY <1>1, <1>3, <1>4, ElseSent

LEMMA PropertySends ==
  ASSUME ControlInv, SaveForm \/ DeleteColumn \/ SubmitAdd
  PROVE  ControlInv'
<1>1. CASE SaveForm
  <2> DEFINE body == [name |-> form.name, config |-> form.config]
             carried == form.of # form.on
             new == [kind |-> "save", id |-> form.on, parts |-> form.touched, body |-> body, step |-> Nothing,
                     carried |-> carried, stale |-> Stale("save", form.on), number |-> actions]
  <2>1. /\ Mutate("save", form.on, form.touched, body, Nothing, carried)
        /\ UNCHANGED <<conf, column, deleted, cache, reading, local>>
    BY <1>1 DEF SaveForm
  <2>2. /\ form.on \in ToSet(Columns) /\ Lived(form.on) /\ body \in Properties
        /\ ~carried =>
             \A part \in {"name", "config"} \ form.touched : form[part] = column[form.on][part]
    BY <1>1, ControlAssumption DEF SaveForm, ControlInv, FormOK
  <2> HIDE DEF carried
  <2>3. KeepsProperty(new)
    BY <2>2 DEF KeepsProperty
  <2>4. RequestOK(new)
    BY <2>2, <2>3 DEF RequestOK, Shaped
  <2> QED
    BY <2>1, <2>4, ElseSent
<1>2. CASE DeleteColumn
  <2>1. /\ Mutate("delete", form.on, {}, Nothing, Nothing, FALSE)
        /\ UNCHANGED <<conf, column, deleted, cache, reading, local>>
        /\ form.on \in ToSet(Columns)
    BY <1>2 DEF DeleteColumn, ControlInv, FormOK
  <2>2. RequestOK([kind |-> "delete", id |-> form.on, parts |-> {}, body |-> Nothing, step |-> Nothing,
                   carried |-> FALSE, stale |-> Stale("delete", form.on), number |-> actions])
    BY <2>1 DEF RequestOK, Shaped
  <2> QED
    BY <2>1, <2>2, ElseSent
<1>3. CASE SubmitAdd
  <2>1. PICK p \in ToSet(Columns) :
          /\ column[p] = Nothing /\ p \notin deleted /\ ~Stale("add", p)
          /\ Mutate("add", p, {}, [name |-> Name, config |-> p], Nothing, FALSE)
          /\ UNCHANGED <<conf, column, deleted, cache, reading, local>>
    BY <1>3 DEF SubmitAdd
  <2>2. [name |-> Name, config |-> p] \in Properties
    BY DEF Properties
  <2>3. RequestOK([kind |-> "add", id |-> p, parts |-> {}, body |-> [name |-> Name, config |-> p],
                   step |-> Nothing, carried |-> FALSE, stale |-> Stale("add", p), number |-> actions])
    BY <2>1, <2>2 DEF RequestOK, Shaped
  <2>4. Sharing("add", p) = {}
    BY <2>1 DEF Stale
  <2> QED
    BY <2>1, <2>3, <2>4, ElseSent
<1> QED
  BY <1>1, <1>2, <1>3

\* What only the tab does: the forms keep what they were opened with.
LEMMA FormsKeep ==
  ASSUME ControlInv,
         \/ \E v \in Views : Pick(v)
         \/ \E p \in ToSet(Columns) : OpenForm(p)
         \/ EditForm \/ CloseForm \/ OpenAdd \/ ChangeType
  PROVE  ControlInv'
<1>1. UNCHANGED <<conf, column, deleted, cache, reading, builder, wire>>
  BY DEF Pick, OpenForm, EditForm, CloseForm, OpenAdd, ChangeType, requests
<1>2. ServerOK' /\ BuilderOK'
  BY <1>1 DEF ControlInv, ServerOK, BuilderOK, Sharing
<1>3. WireOK'
  BY <1>1 DEF ControlInv, WireOK, RequestOK, Shaped, KeepsView, KeepsProperty, Lived
<1>4. CacheOK'
  <2>1. picked' \in Views \cup {Nothing}
    BY DEF ControlInv, CacheOK, Pick, OpenForm, EditForm, CloseForm, OpenAdd, ChangeType
  <2> QED
    BY <1>1, <2>1 DEF ControlInv, CacheOK, Lived
<1>5. FormOK'
  <2>1. CASE form' = form
    BY <1>1, <2>1 DEF ControlInv, FormOK, Lived
  <2>2. CASE \E p \in ToSet(Columns) : OpenForm(p)
    <3>1. PICK p \in ToSet(Columns) : OpenForm(p)
      BY <2>2
    <3>2. cache.column[p] \in Properties /\ Lived(p)
      BY <3>1 DEF OpenForm, ControlInv, CacheOK
    <3>3. CASE form = Nothing
      <4>1. form' = [on |-> p, of |-> IF cache.column[p] = column[p] THEN p ELSE Nothing, touched |-> {},
                     name |-> cache.column[p].name, config |-> cache.column[p].config]
        BY <3>1, <3>3 DEF OpenForm, FormOn
      <4>2. [name |-> form'.name, config |-> form'.config] = cache.column[p]
        BY <3>2, <4>1 DEF Properties
      <4>3. /\ form'.on = p /\ form'.name = cache.column[p].name /\ form'.config = cache.column[p].config
            /\ form'.of # Nothing => form'.of = p /\ cache.column[p] = column[p]
        BY <4>1
      <4>4. form' = [on |-> form'.on, of |-> form'.of, touched |-> form'.touched,
                     name |-> form'.name, config |-> form'.config]
        BY <4>1
      <4>5. /\ form'["name"] = cache.column[p]["name"] /\ form'["config"] = cache.column[p]["config"]
        BY <4>3
      <4>6. column[p] # Nothing \/ cache.column[p] # column[p]
        BY <3>1 DEF OpenForm
      <4> QED
        BY <1>1, <3>2, <4>2, <4>3, <4>4, <4>5, <4>6 DEF FormOK, Lived
    <3>4. CASE form # Nothing
      <4>1. form' = [form EXCEPT !.on = p] /\ FormOK
        BY <3>1, <3>4 DEF OpenForm, ControlInv
      <4> QED
        BY <1>1, <3>2, <3>4, <4>1 DEF FormOK, Lived
    <3> QED
      BY <3>3, <3>4
  <2>3. CASE EditForm
    <3>1. PICK part \in {"name", "config"} :
            form # Nothing /\ form' = [form EXCEPT ![part] = Name, !.touched = @ \cup {part}]
      BY <2>3 DEF EditForm
    <3>2. FormOK /\ form # Nothing
      BY <3>1 DEF ControlInv
    <3>3. /\ form'.on = form.on /\ form'.of = form.of /\ form'.touched = form.touched \cup {part}
          /\ form' = [on |-> form'.on, of |-> form'.of, touched |-> form'.touched,
                      name |-> form'.name, config |-> form'.config]
          /\ \A other \in {"name", "config"} : form'[other] = IF other = part THEN Name ELSE form[other]
      BY <3>1, <3>2 DEF FormOK
    <3>4. [name |-> form'.name, config |-> form'.config] \in Properties
      <4>1. form'.name = IF part = "name" THEN Name ELSE form.name
        BY <3>3
      <4>2. form'.config = IF part = "config" THEN Name ELSE form.config
        BY <3>3
      <4> QED
        BY <3>2, <4>1, <4>2 DEF FormOK, Properties
    <3> QED
      BY <1>1, <3>2, <3>3, <3>4 DEF FormOK, Lived
  <2>4. CASE CloseForm
    BY <2>4 DEF CloseForm, FormOK
  <2> QED
    BY <2>1, <2>2, <2>3, <2>4 DEF Pick, OpenAdd, ChangeType
<1> QED
  BY <1>2, <1>3, <1>4, <1>5 DEF ControlInv

\* The server takes a change of a view, or a new view.
LEMMA ViewServed ==
  ASSUME ControlInv, NEW r \in wire, r.kind \in {"view", "newView"}, ServeChange(r)
  PROVE  ControlInv'
<1> DEFINE served == ServedView(r)
<1>1. RequestOK(r) /\ r.id \in Views /\ r.body \in ViewConfigs
  BY DEF ControlInv, WireOK, RequestOK
<1>2. served \in ViewConfigs /\ served.filters = r.body.filters
  <2>1. CASE r.kind = "view" /\ "type" \notin r.parts
    <3>1. conf[r.id] \in ViewConfigs
      BY <1>1, <2>1 DEF RequestOK, ControlInv, ServerOK
    <3> QED
      BY <1>1, <2>1, <3>1 DEF ServedView, ViewConfigs
  <2>2. CASE ~(r.kind = "view" /\ "type" \notin r.parts)
    BY <1>1, <2>2 DEF ServedView
  <2> QED
    BY <2>1, <2>2
<1> HIDE DEF served
<1>3. /\ conf' = [conf EXCEPT ![r.id] = served] /\ wire' = wire \ {r} /\ reading' = TRUE
      /\ UNCHANGED <<column, deleted, cache, builder, form>>
      /\ picked' = picked \/ picked' = r.id
  BY DEF ServeChange, Settles, served
<1>4. /\ conf' \in [Views -> ViewConfigs \cup {Nothing}]
      /\ conf'[r.id] = served /\ served # Nothing
      /\ \A v \in Views \ {r.id} : conf'[v] = conf[v]
  BY <1>1, <1>2, <1>3, ControlAssumption DEF ControlInv, ServerOK
<1>5. ServerOK'
  BY <1>3, <1>4, ControlAssumption DEF ControlInv, ServerOK
<1>6. CacheOK'
  BY <1>1, <1>3, <1>4 DEF ControlInv, CacheOK, Lived
<1>7. FormOK'
  BY <1>3 DEF ControlInv, FormOK, Lived
<1>8. WireOK'
  <2>1. ASSUME NEW q \in wire'
        PROVE  RequestOK(q)'
    <3>1. q \in wire /\ q # r /\ RequestOK(q)
      BY <1>3, <2>1 DEF ControlInv, WireOK
    <3>2. CASE q.kind = "view" /\ q.id = r.id
      <4>1. r.kind = "view"
        BY <1>1, <3>1, <3>2 DEF RequestOK
      <4>2. q.stale
        BY <3>1, <3>2, <4>1 DEF ControlInv, WireOK
      <4> QED
        BY <1>1, <1>4, <3>1, <3>2, <4>2 DEF RequestOK, Shaped
    <3>3. CASE q.kind = "view" /\ q.id # r.id
      <4>1. conf'[q.id] = conf[q.id]
        BY <1>4, <3>1, <3>3 DEF RequestOK
      <4> QED
        BY <3>1, <3>3, <4>1 DEF RequestOK, Shaped, KeepsView
    <3>4. CASE q.kind = "newView"
      <4>1. q.id # r.id
        BY <1>1, <3>1, <3>4 DEF ControlInv, WireOK, RequestOK
      <4>2. conf'[q.id] = conf[q.id]
        BY <1>4, <3>1, <3>4, <4>1 DEF RequestOK
      <4> QED
        BY <3>1, <3>4, <4>2 DEF RequestOK, Shaped
    <3>5. CASE q.kind \notin {"view", "newView"}
      BY <1>3, <3>1, <3>5 DEF RequestOK, Shaped, KeepsProperty, Lived
    <3> QED
      BY <3>2, <3>3, <3>4, <3>5
  <2> QED
    BY <1>3, <2>1 DEF ControlInv, WireOK
<1>9. BuilderOK'
  <2>1. BuilderOK
    BY DEF ControlInv
  <2>2. CASE builder.of = Nothing
    BY <1>3, <2>1, <2>2 DEF BuilderOK
  <2>3. CASE builder.of # Nothing /\ builder.of # r.id
    <3>1. conf'[builder.of] = conf[builder.of]
      BY <1>4, <2>1, <2>3 DEF BuilderOK
    <3> QED
      BY <1>3, <2>1, <2>3, <3>1 DEF BuilderOK, Sharing
  <2>4. CASE builder.of = r.id /\ builder.of # Nothing
    <3>1. r.kind = "view"
      BY <1>1, <2>1, <2>4 DEF BuilderOK, RequestOK
    <3>2. served.filters = builder.filter
      BY <1>2, <2>1, <2>4, <3>1 DEF BuilderOK, Sharing
    <3> QED
      BY <1>3, <1>4, <2>1, <2>4, <3>2 DEF BuilderOK, Sharing
  <2> QED
    BY <2>2, <2>3, <2>4
<1> QED
  BY <1>5, <1>6, <1>7, <1>8, <1>9 DEF ControlInv

\* The server takes a change of a property, a deletion or a new property.
LEMMA PropertyServed ==
  ASSUME ControlInv, NEW r \in wire, r.kind \in {"save", "delete", "add"}, ServeChange(r)
  PROVE  ControlInv'
<1>1. RequestOK(r) /\ r.id \in ToSet(Columns) /\ r.body \in Properties \cup {Nothing}
  BY DEF ControlInv, WireOK, RequestOK
<1>2. /\ column' = [column EXCEPT ![r.id] = r.body] /\ wire' = wire \ {r} /\ reading' = TRUE
      /\ deleted' = IF r.kind = "delete" THEN deleted \cup {r.id} ELSE deleted
      /\ UNCHANGED <<conf, cache, builder, picked>>
      /\ \/ form' = Nothing
         \/ form' = form /\ (r.kind = "add" \/ form = Nothing \/ form.of # r.id)
         \/ form # Nothing /\ form' = [form EXCEPT !.of = Nothing]
  BY DEF ServeChange, Settles, Outdated
<1>3. /\ r.kind \in {"save", "delete"} => column[r.id] # Nothing
      /\ r.kind = "add" => column[r.id] = Nothing
  BY DEF ServeChange, Taken
<1>4. /\ column' \in [ToSet(Columns) -> Properties \cup {Nothing}]
      /\ column'[r.id] = r.body /\ (r.kind = "delete" <=> r.body = Nothing)
      /\ \A p \in ToSet(Columns) \ {r.id} : column'[p] = column[p]
  BY <1>1, <1>2, ControlAssumption DEF ControlInv, ServerOK, RequestOK
<1>5. \A p \in ToSet(Columns) : Lived(p) => Lived(p)'
  BY <1>2, <1>4 DEF Lived
<1>6. ServerOK'
  BY <1>2, <1>4 DEF ControlInv, ServerOK
<1>7. CacheOK'
  BY <1>2, <1>5 DEF ControlInv, CacheOK
<1>8. WireOK'
  <2>1. ASSUME NEW q \in wire'
        PROVE  RequestOK(q)'
    <3>1. q \in wire /\ q # r /\ RequestOK(q)
      BY <1>2, <2>1 DEF ControlInv, WireOK
    <3>2. CASE q.kind \in {"view", "newView", "delete"}
      BY <1>2, <3>1, <3>2 DEF RequestOK, Shaped, KeepsView
    <3>3. CASE q.kind = "save" /\ q.id # r.id
      <4>1. column'[q.id] = column[q.id] /\ Lived(q.id)'
        BY <1>4, <1>5, <3>1, <3>3 DEF RequestOK
      <4> QED
        BY <3>1, <3>3, <4>1 DEF RequestOK, Shaped, KeepsProperty
    <3>4. CASE q.kind = "save" /\ q.id = r.id
      <4>1. Lived(q.id) /\ Lived(q.id)'
        BY <1>5, <3>1, <3>4 DEF RequestOK
      <4>2. r.kind # "add"
        BY <1>1, <4>1, <3>4 DEF RequestOK, Lived
      <4>3. r.kind = "save" => q.stale
        BY <3>1, <3>4 DEF ControlInv, WireOK
      <4>4. ~q.stale => KeepsProperty(q)'
        BY <1>4, <3>4, <4>2, <4>3 DEF KeepsProperty
      <4> QED
        BY <3>1, <3>4, <4>1, <4>4 DEF RequestOK, Shaped
    <3>5. CASE q.kind = "add"
      <4>1. q.id # r.id
        BY <1>1, <1>3, <3>1, <3>5 DEF ControlInv, WireOK, RequestOK
      <4>2. column'[q.id] = column[q.id] /\ (q.id \in deleted' <=> q.id \in deleted)
        BY <1>2, <1>4, <3>1, <3>5, <4>1 DEF RequestOK
      <4> QED
        BY <3>1, <3>5, <4>2 DEF RequestOK, Shaped
    <3> QED
      BY <3>1, <3>2, <3>3, <3>4, <3>5 DEF RequestOK
  <2> QED
    BY <1>2, <2>1 DEF ControlInv, WireOK
<1>9. BuilderOK'
  BY <1>2 DEF ControlInv, BuilderOK, Sharing
<1>10. FormOK'
  <2>1. CASE form' = Nothing
    BY <2>1 DEF FormOK
  <2>2. CASE form' = form /\ form # Nothing /\ (r.kind = "add" \/ form.of # r.id)
    <3>1. form' = form /\ FormOK
      BY <2>2 DEF ControlInv
    <3>2. form.of # Nothing => column'[form.of] = column[form.of]
      BY <1>3, <1>4, <2>2, <3>1 DEF FormOK
    <3>3. form.on \in ToSet(Columns) /\ Lived(form.on)
      BY <2>2, <3>1 DEF FormOK
    <3>4. column'[form.on] # Nothing \/ form.on \in deleted'
      BY <1>5, <3>3 DEF Lived
    <3> QED
      BY <2>2, <3>1, <3>2, <3>4 DEF FormOK, Lived
  <2>3. CASE form # Nothing /\ form' = [form EXCEPT !.of = Nothing]
    <3>1. FormOK
      BY DEF ControlInv
    <3>2. form' = [on |-> form.on, of |-> Nothing, touched |-> form.touched,
                   name |-> form.name, config |-> form.config]
      BY <2>3, <3>1 DEF FormOK
    <3>3. form.on \in ToSet(Columns) /\ Lived(form.on)'
      BY <1>5, <2>3, <3>1 DEF FormOK
    <3>4. /\ form'.on = form.on /\ form'.of = Nothing /\ form'.touched = form.touched
          /\ form'.name = form.name /\ form'.config = form.config
      BY <3>2
    <3>5. [name |-> form'.name, config |-> form'.config] \in Properties
      BY <2>3, <3>1, <3>4 DEF FormOK
    <3> QED
      BY <3>2, <3>3, <3>4, <3>5 DEF FormOK, Lived
  <2> QED
    BY <1>2, <2>1, <2>2, <2>3
<1> QED
  BY <1>6, <1>7, <1>8, <1>9, <1>10 DEF ControlInv

\* A request is lost or refused, or the tab reads everything anew.
LEMMA FailKeeps ==
  ASSUME ControlInv, NEW r \in wire, Fail(r)
  PROVE  ControlInv'
<1>1. /\ wire' = wire \ {r} /\ UNCHANGED <<conf, column, deleted, cache, reading, picked, form>>
      /\ builder' = IF "filters" \in r.parts /\ r.id = builder.of
                    THEN [builder EXCEPT !.of = Nothing] ELSE builder
  BY DEF Fail, Settles
<1>2. ServerOK' /\ CacheOK' /\ FormOK'
  BY <1>1 DEF ControlInv, ServerOK, CacheOK, FormOK, Lived
<1>3. WireOK'
  BY <1>1 DEF ControlInv, WireOK, RequestOK, Shaped, KeepsView, KeepsProperty, Lived
<1>4. BuilderOK'
  <2>1. BuilderOK
    BY DEF ControlInv
  <2>2. CASE "filters" \in r.parts /\ r.id = builder.of
    <3>1. builder' = [of |-> Nothing, filter |-> builder.filter]
      BY <1>1, <2>1, <2>2 DEF BuilderOK
    <3>2. builder'.of = Nothing /\ builder'.filter = builder.filter
      BY <3>1
    <3> QED
      BY <2>1, <3>1, <3>2 DEF BuilderOK
  <2>3. CASE ~("filters" \in r.parts /\ r.id = builder.of)
    <3>1. builder' = builder
      BY <1>1, <2>3
    <3> QED
      BY <1>1, <2>1, <2>3, <3>1 DEF BuilderOK, Sharing
  <2> QED
    BY <2>2, <2>3
<1> QED
  BY <1>2, <1>3, <1>4 DEF ControlInv

LEMMA ReadKeeps == ASSUME ControlInv, Read PROVE ControlInv'
<1>1. /\ cache' = [conf |-> conf, column |-> column] /\ reading' = FALSE
      /\ UNCHANGED <<conf, column, deleted, picked, wire>>
  BY DEF Read, requests
<1>2. cache'.conf = conf /\ cache'.column = column
  BY <1>1
<1>3. ServerOK'
  BY <1>1 DEF ControlInv, ServerOK
<1>4. WireOK'
  BY <1>1 DEF ControlInv, WireOK, RequestOK, Shaped, KeepsView, KeepsProperty, Lived
<1>5. CacheOK'
  BY <1>1, <1>2 DEF ControlInv, CacheOK, ServerOK, Lived
<1>6. BuilderOK'
  <2>1. CASE builder' = builder
    BY <1>1, <2>1 DEF ControlInv, BuilderOK, Sharing
  <2>2. CASE builder' = BuilderOn(Active')
    <3>1. PICK v : v = Active'
      OBVIOUS
    <3>2. v \in Views /\ conf[v] \in ViewConfigs
      <4>1. cache'.conf[Default] # Nothing /\ picked' \in Views \cup {Nothing}
        BY <1>1, <1>2 DEF ControlInv, ServerOK, CacheOK
      <4>2. v \in Views /\ cache'.conf[v] # Nothing
        BY <3>1, <4>1, ControlAssumption DEF Active
      <4> QED
        BY <1>2, <4>2 DEF ControlInv, ServerOK
    <3>3. EmptyFilter \in Filters
      BY DEF EmptyFilter, Filters
    <3>4. PICK f \in Filters \cup {Nothing} : f = conf[v].filters
      BY <3>2 DEF ViewConfigs
    <3>5. builder' = [of |-> IF f = Nothing \/ Sharing("view", v) # {} THEN Nothing ELSE v,
                      filter |-> IF f = Nothing THEN EmptyFilter ELSE f]
      BY <2>2, <3>1, <3>4 DEF BuilderOn
    <3>6. /\ builder' = [of |-> builder'.of, filter |-> builder'.filter]
          /\ builder'.filter \in Filters
          /\ builder'.of # Nothing => builder'.of = v /\ f # Nothing /\ Sharing("view", v) = {} /\ builder'.filter = f
      BY <3>3, <3>5
    <3>7. conf[v] # Nothing
      BY <3>2, ControlAssumption
    <3> QED
      BY <1>1, <3>2, <3>4, <3>6, <3>7 DEF BuilderOK, Sharing
  <2> QED
    BY <2>1, <2>2 DEF Read
<1>7. FormOK'
  <2>1. CASE form' = Nothing
    BY <2>1 DEF FormOK
  <2>2. CASE form' = form
    BY <1>1, <2>2 DEF ControlInv, FormOK, Lived
  <2>3. CASE form # Nothing /\ column[form.on] # Nothing /\ form' = FormOn(form.on, column)
    <3>1. PICK p \in ToSet(Columns) : p = form.on
      BY <2>3 DEF ControlInv, FormOK
    <3>2. column[p] \in Properties
      BY <2>3, <3>1 DEF ControlInv, ServerOK
    <3>3. form' = [on |-> p, of |-> p, touched |-> {}, name |-> column[p].name, config |-> column[p].config]
      BY <2>3, <3>1 DEF FormOn
    <3>4. [name |-> form'.name, config |-> form'.config] = column[p]
      BY <3>2, <3>3 DEF Properties
    <3>5. form'["name"] = column[p]["name"] /\ form'["config"] = column[p]["config"]
      BY <3>3
    <3>6. /\ form'.on = p /\ form'.of = p
          /\ form' = [on |-> form'.on, of |-> form'.of, touched |-> form'.touched,
                      name |-> form'.name, config |-> form'.config]
      BY <3>3
    <3> QED
      BY <1>1, <2>3, <3>1, <3>2, <3>4, <3>5, <3>6 DEF FormOK, Lived
  <2> QED
    BY <2>1, <2>2, <2>3 DEF Read
<1> QED
  BY <1>3, <1>4, <1>5, <1>6, <1>7 DEF ControlInv

LEMMA ReadFailsKeeps == ASSUME ControlInv, ReadFails PROVE ControlInv'
<1>1. UNCHANGED <<conf, column, deleted, cache, reading, picked, builder, form, wire>>
  BY DEF ReadFails, local, requests
<1> QED
  BY <1>1 DEF ControlInv, ServerOK, CacheOK, WireOK, RequestOK, Shaped, KeepsView,
     KeepsProperty, Lived, BuilderOK, Sharing, FormOK

LEMMA ControlStep == ASSUME ControlInv, [ScreenNext]_viewVars PROVE ControlInv'
<1>1. CASE ScreenNext
  <2>1. ASSUME NEW r \in wire, ServeChange(r) PROVE ControlInv'
    <3>1. r.kind \in {"view", "newView", "save", "delete", "add"}
      BY DEF ControlInv, WireOK, RequestOK
    <3> QED
      BY <2>1, <3>1, ViewServed, PropertyServed
  <2> QED
    BY <1>1, <2>1, ControlsKeep, SwitchKeeps, EditKeeps, AddViewKeeps, PropertySends, FormsKeep, FailKeeps,
       ReadKeeps, ReadFailsKeeps DEF ScreenNext, ViewControls, PropertyForms
<1>2. CASE UNCHANGED viewVars
  BY <1>2 DEF viewVars, local, requests, ControlInv, ServerOK, CacheOK, WireOK, RequestOK, Shaped, KeepsView,
     KeepsProperty, Lived, BuilderOK, Sharing, FormOK
<1> QED
  BY <1>1, <1>2

\* In every state the tab's picture is one the server had, what a request that
\* no other crossed carries is what is stored but for its own part, and the
\* builder and the form show what they were filled from (ControlInv).
THEOREM ControlInvariant == ControlSpec => []ControlInv
BY ControlStarts, ControlStep, PTL DEF ControlSpec

\* What a control or a form sends changes the part its user changed and nothing
\* else, and a step in the filter builder does to the stored filter what it
\* does to the rows on the screen (ControlsKeepTheRest).
THEOREM ControlsSaveTheirPart == ControlSpec => ControlsKeepTheRest
<1> DEFINE
     Rest(r) ==
       /\ r.kind = "view" =>
            /\ \A part \in DOMAIN NewConfig \ r.parts : conf'[r.id][part] = conf[r.id][part]
            /\ r.step # Nothing /\ ~Grouped(conf[r.id].filters) =>
                 conf'[r.id].filters.conditions = Expected(conf[r.id].filters.conditions, r.step)
       /\ r.kind = "save" =>
            \A part \in {"name", "config"} \ r.parts : column'[r.id][part] = column[r.id][part]
<1>1. ASSUME ControlInv, ScreenNext, NEW r \in wire \ wire',
             ~r.stale, ~r.carried, conf' # conf \/ column' # column
      PROVE  Rest(r)
  <2>1. PICK q \in wire : ServeChange(q)
    BY <1>1 DEF ScreenNext, ViewControls, PropertyForms, requests, SortBy, GroupBy, ToggleColumn, SetPart, SwitchType, EditFilter, AddView, Pick,
       OpenForm, EditForm, CloseForm, SaveForm, DeleteColumn, OpenAdd, ChangeType, SubmitAdd, Fail, Read, ReadFails
  <2>2. q = r
    BY <1>1, <2>1 DEF ServeChange, Settles
  <2>3. RequestOK(r) /\ Taken(r)
    BY <1>1, <2>1, <2>2 DEF ControlInv, WireOK, ServeChange
  <2>4. CASE r.kind = "view"
    <3>1. /\ r.id \in Views /\ r.body \in ViewConfigs /\ KeepsView(r) /\ conf[r.id] \in ViewConfigs
      BY <1>1, <2>3, <2>4 DEF RequestOK, ControlInv, ServerOK
    <3>2. conf'[r.id] = ServedView(r)
      BY <1>1, <2>1, <2>2, <2>4, <3>1 DEF ServeChange, ControlInv, ServerOK
    <3>3. /\ ServedView(r).filters = r.body.filters
          /\ \A part \in DOMAIN NewConfig \ r.parts : ServedView(r)[part] = conf[r.id][part]
      <4>1. CASE "type" \in r.parts
        <5>1. ServedView(r) = r.body
          BY <4>1 DEF ServedView
        <5> QED
          BY <3>1, <5>1 DEF KeepsView
      <4>2. CASE "type" \notin r.parts
        <5>1. ServedView(r) = [r.body EXCEPT !.type = conf[r.id].type]
          BY <2>4, <4>2 DEF ServedView
        <5>2. /\ ServedView(r).filters = r.body.filters
              /\ \A part \in DOMAIN NewConfig :
                   ServedView(r)[part] = IF part = "type" THEN conf[r.id]["type"] ELSE r.body[part]
          BY <3>1, <5>1 DEF ViewConfigs, NewConfig
        <5> QED
          BY <3>1, <5>2 DEF KeepsView
      <4> QED
        BY <4>1, <4>2
    <3> QED
      BY <1>1, <2>4, <3>1, <3>2, <3>3 DEF KeepsView
  <2>5. CASE r.kind = "save"
    <3>1. column' = [column EXCEPT ![r.id] = r.body] /\ column[r.id] # Nothing /\ r.id \in ToSet(Columns)
      BY <2>1, <2>2, <2>3, <2>5 DEF ServeChange, Taken, RequestOK
    <3>2. column'[r.id] = r.body /\ KeepsProperty(r)
      BY <1>1, <2>3, <2>5, <3>1 DEF ControlInv, ServerOK, RequestOK
    <3> QED
      BY <1>1, <2>5, <3>1, <3>2 DEF KeepsProperty
  <2>6. CASE r.kind \notin {"view", "save"}
    BY <2>6
  <2> QED
    BY <2>4, <2>5, <2>6
<1> DEFINE Good(r) == ~r.stale /\ ~r.carried /\ (conf' # conf \/ column' # column) => Rest(r)
<1>2. ASSUME ControlInv, ScreenNext PROVE \A r \in wire \ wire' : Good(r)
  BY <1>1, <1>2
<1> QED
  BY <1>2, ControlInvariant, PTL DEF ControlSpec, ControlsKeepTheRest
==============================================================================
