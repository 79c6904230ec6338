---------------------------- MODULE PublicPages ----------------------------
(***************************************************************************)
(* Publishing a page under an address and reading it logged out            *)
(* (publishing.service, slug, sanitize, PublishDialog, PublicPageView).    *)
(*                                                                         *)
(* A slug is a sequence: a word, then the numbers that were appended to    *)
(* it.  A publish reads the page's share, probes candidate slugs one query *)
(* at a time and writes the share at the end; requests for one page and    *)
(* for others interleave.  A snapshot is the set of elements it has, some  *)
(* of which the allow-list keeps.  The pages form a tree, in which they    *)
(* are archived and restored but not moved.                                *)
(***************************************************************************)
EXTENDS Naturals, Sequences, FiniteSets

CONSTANTS Pages, ParentOf, Publisher,   \* publish requests
          Words, TitleWord, Elements, Allowed,
          MaxPublishes, MaxNumber, None

VARIABLES share, archived, publish, publishes,
          visit,                 \* what a visitor's request has read
          overlapped             \* pages of which two publishes ran at once
publicVars == <<share, archived, publish, publishes, visit, overlapped>>

\* No share is None, and no page is below itself: in a set of pages some have
\* a parent elsewhere.
Slug == Seq(Words \cup {TitleWord} \cup Nat) \ {<<>>}
Share == [slug : Slug, published : BOOLEAN, html : SUBSET Allowed, subpages : BOOLEAN]
ASSUME PublicAssumption ==
  /\ None \notin Slug /\ None \notin Share
  /\ \A S \in SUBSET Pages : S # {} => \E p \in S : ParentOf[p] \notin S

Asleep == [at |-> "idle"]
Slugs == {<<w>> : w \in Words}
Shared(p) == share[p] # None
OwnerOf(slug) == {p \in Pages : Shared(p) /\ share[p].slug = slug}
ChildrenOf(ps) == {p \in Pages \ archived : ParentOf[p] \in ps}

PublicInit ==
  /\ share = [p \in Pages |-> None]
  /\ archived = {}
  /\ publish = [r \in Publisher |-> Asleep] /\ publishes = 0
  /\ visit = Asleep /\ overlapped = {}

-----------------------------------------------------------------------------
(* publish                                                                 *)
\* What the allow-list does not name is dropped.
Sanitize(html) == html \cap Allowed
\* "Prefer an explicit request; otherwise keep the existing slug; otherwise
\* derive from the title."  [The slug is derived anew every time.]
NewSlugAlways(wanted, existing) == TRUE
NeedsNewSlug(wanted, existing) == existing = None \/ (wanted # None /\ wanted # existing.slug)
\* The dialog asks for the slug in its field, the one it has read unless the
\* user typed another; a first publish may leave it empty.
Wanted == Slugs \cup {share[q].slug : q \in {q \in Pages : Shared(q)}} \cup {None}
Publish(r) ==
  \E p \in Pages, wanted \in Wanted,
     subpages \in BOOLEAN, html \in {Elements} :
    LET base == IF wanted # None THEN wanted ELSE <<TitleWord>>
        fresh == NeedsNewSlug(wanted, share[p])
        rivals == {q \in Publisher \ {r} : publish[q] # Asleep /\ publish[q].page = p}
    IN  /\ publish[r] = Asleep /\ publishes < MaxPublishes
        /\ publishes' = publishes + 1
        /\ publish' = [publish EXCEPT ![r] =
             [page |-> p, wanted |-> wanted, html |-> Sanitize(html), subpages |-> subpages, base |-> base, number |-> 1,
              at |-> IF fresh THEN "probe" ELSE "write", slug |-> IF fresh THEN None ELSE share[p].slug]]
        /\ overlapped' = IF rivals # {} THEN overlapped \cup {p} ELSE overlapped
        /\ UNCHANGED <<share, archived, visit>>

\* uniqueSlug: the base, base-2, base-3, ... until free or the page's own.
Candidate(r) == IF publish[r].number = 1 THEN publish[r].base ELSE Append(publish[r].base, publish[r].number)
Probe(r) ==
  /\ publish[r].at = "probe"
  /\ publish' = [publish EXCEPT ![r] =
       IF OwnerOf(Candidate(r)) \subseteq {@.page} THEN [@ EXCEPT !.slug = Candidate(r), !.at = "write"]
       ELSE [@ EXCEPT !.number = publish[r].number + 1]]
  /\ publish[r].number <= MaxNumber
  /\ UNCHANGED <<share, archived, publishes, visit, overlapped>>
\* A slug another page took since then fails it.
WriteShare(r) ==
  LET p == publish[r].page
  IN  /\ publish[r].at = "write"
      /\ share' = IF OwnerOf(publish[r].slug) \subseteq {p}
                  THEN [share EXCEPT ![p] = [slug |-> publish[r].slug, published |-> TRUE,
                                             html |-> publish[r].html, subpages |-> publish[r].subpages]]
                  ELSE share
      /\ publish' = [publish EXCEPT ![r] = Asleep]
      /\ UNCHANGED <<archived, publishes, visit, overlapped>>
\* "Keeps the slug."
Unpublish ==
  \E p \in Pages :
    /\ Shared(p) /\ share[p].published
    /\ share' = [share EXCEPT ![p].published = FALSE]
    /\ UNCHANGED <<archived, publish, publishes, visit, overlapped>>
\* Archiving and restoring leave the shares alone.
Archive ==
  /\ archived' \in SUBSET Pages
  /\ archived' # archived
  /\ UNCHANGED <<share, publish, publishes, visit, overlapped>>

-----------------------------------------------------------------------------
(* getPublic, publishedDescendants                                         *)
ReadShare ==
  \E p \in Pages :
    /\ visit = Asleep /\ Shared(p) /\ share[p].published
    /\ visit' = [at |-> IF share[p].subpages THEN "walk" ELSE "shown", page |-> p, html |-> share[p].html,
                 level |-> {p}, found |-> {}, listed |-> {}]
    /\ UNCHANGED <<share, archived, publish, publishes, overlapped>>
\* One query for the children of a level.
WalkDown ==
  LET next == ChildrenOf(visit.level)
  IN  /\ visit.at = "walk"
      /\ visit' = [visit EXCEPT !.level = next, !.found = @ \cup next, !.at = IF next = {} THEN "list" ELSE "walk"]
      /\ UNCHANGED <<share, archived, publish, publishes, overlapped>>
ListShares ==
  /\ visit.at = "list"
  /\ visit' = [visit EXCEPT !.at = "shown", !.listed = {p \in visit.found : Shared(p) /\ share[p].published}]
  /\ UNCHANGED <<share, archived, publish, publishes, overlapped>>
Leave ==
  /\ visit.at = "shown" /\ visit' = Asleep
  /\ UNCHANGED <<share, archived, publish, publishes, overlapped>>

PublicNext ==
  \/ \E r \in Publisher : Publish(r) \/ Probe(r) \/ WriteShare(r)
  \/ Unpublish \/ Archive \/ ReadShare \/ WalkDown \/ ListShares \/ Leave
PublicSpec == PublicInit /\ [][PublicNext]_publicVars

-----------------------------------------------------------------------------
Asked(r, p) ==
  /\ publish[r].at = "write" /\ publish[r].page = p
  /\ publish[r].wanted # None
  /\ Head(share'[p].slug) = Head(publish[r].wanted)
  /\ publish[r].wanted # share[p].slug

(* An address that was given out stays with its page: publishing again,    *)
(* unpublishing, and publishing other pages that ask for the same word     *)
(* leave a page the address it has, until a request for it names another   *)
(* one or two publishes of the page overlap; and no two pages have one     *)
(* address.  What is stored for visitors, and what a visitor who came      *)
(* before a change is shown after it, has only the elements of the         *)
(* allow-list.                                                             *)
AddressStays ==
  [][/\ \A p \in Pages : Shared(p) /\ p \notin overlapped =>
          /\ share'[p] # None
          /\ share'[p].slug # share[p].slug => \E r \in Publisher : Asked(r, p)
     /\ \A p, q \in Pages : share'[p] # None /\ share'[q] # None /\ share'[p].slug = share'[q].slug => p = q
     /\ \A p \in Pages : share'[p] # None => share'[p].html \subseteq Allowed
     /\ visit'.at = "shown" => visit'.html \subseteq Allowed /\ visit'.page \notin visit'.listed]_publicVars
=============================================================================
