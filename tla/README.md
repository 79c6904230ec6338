# Inclination in TLA+

A verification project for Inclination, a self-hosted workspace: pages in a
tree, collaborative documents, databases, sharing, publishing. The modules
here are translated from the TypeScript source, checked with TLC on small
instances, and proved about, for every value of their constants, with TLAPS.
Paths below are relative to the repository.

Contents: [the system](#the-system), [what is hard](#what-is-hard),
[the modules](#the-modules), [the runs](#the-runs), [fairness](#fairness),
[the proofs](#the-proofs), [findings](#findings),
[what is not modelled](#what-is-not-modelled), [the plan](#the-plan).

## The system

Two servers share one PostgreSQL database through Prisma, and serve one client:

- `apps/api`, a NestJS server: every handler is an `async` function. It reads
  the database one query at a time and mostly writes at the end. Node runs one
  continuation at a time, so handlers interleave exactly between queries, and
  several instances may run. A few handlers use `$transaction`, at PostgreSQL's
  default isolation (read committed). Changes of database rows are fanned out to
  clients over Socket.IO.
- `apps/sync`, a Hocuspocus server: keeps open documents as Yjs state in memory
  and stores them with a debounce.
- `apps/web`, a React client: single-threaded tabs that share `localStorage`.

| component | state it keeps | operations | meets | what makes it correct |
|---|---|---|---|---|
| Page tree (`pages.service.ts`, `import.service.ts`) | `Page.parentId`, `workspaceId`, `archivedAt`, `sortKey` | create, move, archive, restore, import | access resolver (before each), sort keys | a forest inside each workspace; archive and restore reach the whole subtree (and restore the ancestors); a move lands where asked; handlers end |
| Sibling order (`sort-key.ts`) | none: pure over the siblings' keys | `computeSortKey` | page tree | a key strictly between the neighbours asked for |
| Access resolver (`packages/db/src/permissions.ts`) | none: reads `Page`, `Permission`, `WorkspaceMember` | `resolvePageAccess` | every service, the sync server | the answer is one the user had; the nearest grant wins |
| Sharing and invitations | `Permission`, `WorkspaceMember`, `Invitation`, `Notification` | upsert, remove, share by address, invite, accept | resolver, notifications | a share never lowers access, a membership is never overwritten, who gets access hears of it |
| Sessions (`auth/token.service.ts`, `auth.service.ts`) | `RefreshToken`, `PasswordResetToken`, `User.passwordHash` | log in, refresh, log out, reset | web client | rotation replaces; reuse and reset end what they say they end |
| Web session client (`apiClient.ts`, `authStore.ts`) | tokens in memory and `localStorage`, `refreshInFlight` | request, refresh, sign in and out, reload | sessions | a tab does not destroy its own session; every waiting call ends |
| OIDC (`oidc.service.ts`) | `User.oidcIssuer`, `oidcSubject`, a transaction cookie | begin, callback | sessions | one person, one account |
| Page content, references | `PageContent.doc`, `PageReference` | save, set references | editor | the reference rows are those of the document |
| Collaborative documents (`apps/sync`) | Yjs documents in memory, `PageContent.ydocState`, `PageSnapshot` | load, update, store, unload, authorize | resolver, snapshots, search | acknowledged updates are stored; readers never write |
| Snapshots | `PageSnapshot`, `PageContent.ydocState` | create, throttled create, restore | documents | a restore takes effect and loses nothing |
| Synced blocks | `SyncedBlock` | load, store | documents | as documents |
| Database schema | `Database`, `Property`, `View` | properties, relation pairs, views, convert | rows | one primary, symmetric pairs, a default view that exists |
| Rows and cells | row pages, `Cell`, `RelationLink` | create, set cell, link, unlink | gateway, search index | both sides of a link agree; titles and search entries follow the cells |
| Web database cache | React Query caches | optimistic edits, rollbacks, event patches, reconnect | rows | the cache settles on what the server has |
| Database view controls | the state of mounted components | filter, sort, group, columns, forms | schema | a control changes its own part only |
| Query engine (`packages/db-engine`) | none: pure | parse, evaluate, filter, sort, group, roll up, page | rows | every row, once, in order |
| Comments, notifications | `Comment`, `Notification` | thread, reply, resolve, fan-out | resolver | a thread is one thread, its people are told once |
| Publishing | `PublicShare` | publish, unpublish, serve | page tree | one slug, one page, for as long as it was given |
| Favorites, recents | `Favorite`, `RecentlyVisited` | add, remove, reorder | | the tab shows what is stored |
| Search index | `SearchIndex` | sync title, cells, body | documents, pages, rows | the entry is that of the page's last state |
| Files, workspaces, users, mail, health | single rows and I/O | upload, create, edit | | a block names a file that is there |
| Web page views | the open page, its fields, cached lists | open, rename, archive, drop, preview | page tree | what is dropped is what is drawn; the screen settles |
| Markdown import (`markdownImport.ts`) | none: pure | blocks from tokens, pages from blocks | page tree | no text is lost, doubled or misplaced |
| Editor | the ProseMirror document | suggestions, conversions | documents | a menu settles on what was typed |

`PROJECT.json` lists the same components with their sources and their status.

## What is hard

The code's hard behaviours are of one family: a handler *reads, awaits, and
writes from what it read*. Nothing holds the rows still in between, except where
a `$transaction` or a unique index does. Around it come crashed handlers (two
writes, one done), a client whose answer is lost, tabs that share a store
without sharing memory, and documents that live in another process than the one
that rewrites their rows. `PROJECT.json`'s `hazards` lists each with its line
and the properties that cover it.

## The modules

All of them model handlers the same way: a *slot* (`Request` or `Job`) holds
the handler's local variables, a field of it (`pc`, `at`) names the query it waits
for, and one action is one query together with the computation that follows it up
to the next `await`. Where a handler awaits several queries of which only one reads
or writes what another handler may change, these are one action; the header of a
module says what it takes for unchanging. An early return, a 4xx and an exception bring the slot back to `idle`.
What a request contains is chosen from a small set when the request is taken. A
definition marked *slip*, or commented in brackets, is not part of the
specification: it is a plausible bug kept beside the action it would spoil, and
each property is shown to fail when the slip takes the action's place.

### Trees, SortKey

`Trees` defines acyclic, descendants and ancestors by closed sets ("no non-empty
set of pages contains the parents of its members"). A recursive definition would
say the same, but no theorem about it could be proved without induction over
depth; with closed sets each proof exhibits one set.

`SortKey` is `computeSortKey`, and of the `fractional-indexing` library just
its contract: keys are integers on a line of which each step is split `KeyUnit`
ways, a null bound means before or after everything, equal or inverted bounds
throw. The library's keys are strings that can always be split; `KeyUnit = 16`
leaves room for every split the bounds of the runs can ask for. Siblings with
one key come from the database in an order the query does not fix, so the bounds
beside a tie are a set, and a behaviour takes any.

### PageTree

`pages`, `home`, `parent`, `archived` and `sortKey` are the columns of `Page`.

| actions | code |
|---|---|
| `CreateRead`, `CreateInsert` | `create` (`pages.service.ts:82`) |
| `MoveBegin`, `MoveWalk`, `MoveSiblings`, `MovePlace` | `move` with `isSelfOrDescendant` (`:190-236`) |
| `CascadeBegin`, `ReadChildren`, `ArchiveWrite` | `archive` with `subtreeIds` (`:239-264`) |
| `CascadeBegin`, `ReadChildren`, `ReadAncestor`, `RestoreWrite` | `restore` (`:266-287`) |
| `ImportRoot`, `ImportChild`, `ImportDone` | `importMarkdown`, `createPageTree` (`import.service.ts`) |

A page's workspace never changes and rows are never deleted, so reads of those
two facts are merged into the next step. The access check of each handler is
left to `PageAccess`: a refused request writes nothing.

Any slot may run any request. Three history variables say what crossed.
`overtaken` has the slots during whose request some other request wrote the tree;
`outrun` those during whose move another move gave a page a new parent, and `raced`
becomes true when a slot that was outrun gives a page a new parent itself: only then
did a cycle guard decide from edges that are gone. `ArchiveCascades`, `RestoreReaches` and
`MovePlacesAsAsked` say what a handler achieves when it was not overtaken; the
code promises nothing when it was, since nothing locks the subtree.

### PageAccess

The walk of `resolvePageAccess` query by query (`Walk`, `ReadStanding`,
`ReadGrants`), and the handlers that change what it returns: `upsertPermission`,
`removePermission`, `shareInvite`, `invite`, `accept`, the arrival of an
account, and one page move. `Resolve` is the code's rule over the chain it
walked; `RoleOn` is the reference definition over the tree itself: of the
granting pages in the lineage, the one that has all the others above it.

`held` and `changes` are history variables: the roles the user really had since
the resolution began, and how many writes came between. `row` gives a
`Permission` row its identity, so that a delete of a row that was removed and
granted anew fails as `prisma.permission.delete` does.

### Sessions

One account. `token` holds the `RefreshToken` rows; `memory`, `disk` and
`refreshing` a tab's Zustand store, its `localStorage` copy and
`refreshInFlight`; `call` the API calls; `job` the server's handlers.

| actions | code |
|---|---|
| `Send`, `Answered`, `Unauthorized`, `Refreshed`, `RefreshRefused` | `request`, `refresh`, `doRefresh` (`apiClient.ts:59-125`) |
| `SignedIn`, `SignOut`, `Reload` | `AuthPanel.tsx`, `UserMenu.tsx`, `authStore.ts` |
| `RotateFind`, `RotateCreate`, `RotateRetire`, `RevokeAll`, `Logout` | `rotate`, `revokeAll`, `revoke` (`token.service.ts`) |
| `LoginVerify`, `LoginIssue`, `RequestReset`, `ResetCheck`, `ResetWrite` | `auth.service.ts` |
| `Dropped`, `Cut`, `Crash`, `Expire` | what the environment does: a tab gone, a connection cut, a process killed, a token's date passed |

A session is named by the token its sign-in minted, and a token records the
password of that sign-in: neither is a column, both are facts about the row.
`late` marks what was minted by a handler that a `revokeAll` overtook; `raced`,
`ended`, `calm` and `cutShort` are history variables, each read by one property.
A tab's action is what JavaScript runs between two awaits, so the single-flight
check and the start of a refresh are one step.

### PageHistory, CollabDoc

`PageHistory` is the abstract specification of one document: its stored row goes
forward by saves of the open document and back only to a version on the list, a
version is a state the row has had, and the document leaves memory only when its
row holds all of it, unless something broke. `CollabDoc` is the detailed one and
implements it (`KeepsHistory == History!Spec`, where `History` is `INSTANCE
PageHistory WITH` the open document, the row and the versions of `CollabDoc`, and
its history variables for the abstract ones).

A Yjs state is the set of the updates in it, and merging is union: that is the
contract of Yjs the code relies on. Hocuspocus is external as well, modelled by
how `server.ts` uses it: a document is opened by its first connection, stored
some time after a change, one store at a time, and put away when nobody is
connected and nothing is due; a store that failed is not tried again.

| actions | code |
|---|---|
| `OpenPage`, `ClosePage`, `Edit`, `RenewToken` | `session.ts`, `useCollabSession.ts`, `Editor.tsx`, with IndexedDB as `local` |
| `Drop`, `TokenExpires` | the network; the access token's date |
| `Refuse` | `onAuthenticate` throws: no valid token, or no access |
| `Connect`, `Push`, `Pull`, `AuthenticatePage`, `AuthenticateSynced` | `authenticateDocument` (`collab.ts`), `onAuthenticate` (`server.ts:40`) |
| `StoreBegin`, `StorePage`, `StoreSynced`, `HookFails` | `onStoreDocument` |
| `MaybeWriteSnapshot`, `InsertSnapshot`, `Lapse` | `maybeWriteSnapshot` and its interval |
| `IndexReadPage`, `IndexPageBody`, `Rename`, `SyncTitleRead`, `SyncTitleWrite` | the two writers of a search row |
| `CreateVersion`, `InsertVersion`, `Restore`, `RestoreReadCurrent`, `RestoreSafety`, `RestoreApply` | `snapshots.service.ts` |
| `SetRole`, `Stop`, `Unload` | a changed grant; the process ends; nothing left to keep open |

### CellValues, CellFilters, QueryEngine, RowValues, RowsQuery, Formula, Evaluation, PageView, MarkdownImport; CellLaws, EngineLaws

The pure parts, as operators: `property-value.ts` (`CellValues`); the conditions of
`filter.ts` and the keys of `group.ts` (`CellFilters`); `sort.ts`, `group.ts`,
`rollup.ts` (`QueryEngine`); what the engines see of a row, formulas aside
(`RowValues`, of `computed.ts`); the answer to a query (`RowsQuery`:
`query.service.ts`, `cursor.ts`); `formula-parser.ts`, `formula-ast.ts`,
`formula-eval.ts` (`Formula`); formulas that refer to each other, of `computed.ts`,
and nested filters, of `filter.ts` (`Evaluation`);
`buildTree.ts`, `flattenTree.ts`, `projectMove.ts`; `markdownImport.ts`.
`EngineLaws` is a machine that builds inputs one piece at a time, and states each
law against a definition that does not look at how the code computes: a grammar, a
least fixpoint, a rank, a set of rows, a tree with a page put in it, the containers
open at a token.

Numbers are integers in units of `1/Unit`, so that means and shares of small
counts are exact; a text is a sequence of letter codes, with the capitals apart;
an instant is an integer, two to a day (`DayLength`), so that a time is not always
the start of its day.

`Formula`, `Evaluation`, `PageView` and `MarkdownImport` use recursive operators where
the code recurses, and so are not proved about. The rest needs none: `RowsQuery` takes
what a column's value in a row is and what a filter says of one as constants
(`RowValue`, `FilterVerdict`), which the run gives as `Evaluation`'s `ValueFor` and
`EvaluateFilter`. `CellLaws` states the laws of cells, roll-ups, sorted rows and
answers, with the parts of the machine that build a request (`CellSpec`) and a table
(`RowSpec`): the steps of `EngineLaws` from a start that is about cells, or about rows. The definitions below it can be reasoned about: members
of a list are picked by their places (`Picked`) and put in order by their ranks
(`Arranged`) rather than folded over, and what accumulates, a sum, a joined text,
the levels of a table or the sorted part of the rows, is a recursive function of how far
it has come.

### DatabaseSchema

Conversion of a page into a database, and the properties, relation pairs (of a
database with itself, too), links and views, statement by statement. Inside a transaction a statement sees what
was committed when it began, and waits for rows another transaction has written
(`Locked`, `Deadlock`): that is PostgreSQL at read committed, and it decides
which races the code really has. `strained` is a history variable: what two
crossing requests, or a request that asks for it, have left loose.

### RowCells

One row, its title, its search entry, and two tabs. `setCell` is a transaction of
three statements, then the search entry, then the event; `create` adds a row with
the title it is given, which is in no cell and in no search entry.
The gateway sends an event to the tabs in the room at that moment, in order. A
tab patches its cache ahead of the answer, by events of other users, back on an
error, and fetches after each write; a socket drops and reconnects.

### ViewScreen, PageScreen

What a tab's components do between the answers. `ViewScreen`: the controls send
the *whole* configuration of the view as last read with their own part replaced;
the filter builder and the property forms hold copies for as long as React keeps
them mounted; a read that fails (`down`) puts an error in their place and unmounts
them. Of each kind of mutation only the last call's answer closes a form or picks a
view (`heeded`). Fields of history (`stale`, `carried`, `of`) say which request
another one crossed and what a builder or form was filled from. `PageScreen`: the open page and the fields of its header, the
queries beside them with React Query's rules (one fetch of a key at a time, an
invalidation fetches what is observed, callbacks of a `mutate` only for the last
of its kind), and the version preview.

### Discussion, PublicPages, Personal, SignOn, Pickers

Five services with one hazard or two each.

- `Discussion`: comments in two writes, replies, deletions, the fan-out of
  notifications with access checked at the end, a request that dies. A reply goes
  on with its comment in memory although that is deleted meanwhile.
- `PublicPages`: a publish that probes slugs query by query, archived pages, a
  visitor that reads share, subtree and shares, and the allow-list.
- `Personal`: a tab's favorites, the reference sync of the open page, a file
  block. `addFavorite` counts the rows and then upserts (`CountFavorites`,
  `WriteFavorite`), `setReferences` reads what is stored outside the transaction
  that writes the difference (`ReadExisting`, `WriteDiff`), and a request whose
  answer is lost may be served later.
- `SignOn`: logins with one cookie per browser, callbacks query by query, local
  registrations, addresses the provider gives to somebody else. The address of a
  callback, with any state and any code, may be loaded in any browser: the cookie
  is compared with the state and the nonce with the identity.
- `Pickers`: the palette, the composer's mentions and the editor's popups, of
  people and pages for `@`, of pages for `[[`.

### Composition

The components above share the database but hardly a row, so their state spaces
multiply without meeting. `MCSessions`, `MCDatabases` and `MCServices` put several
into one run: the start chooses one, the others stand still. What does meet is in
one module: sign-in and the web client in `Sessions`, the resolver and everything
that changes its answer in `PageAccess`, the sync server, the API's restore and
rename and the browsers in `CollabDoc`, handlers, gateway and tabs in `RowCells`.

## The runs

| run | module | shows |
|---|---|---|
| `page_tree` | `MCPageTree` | the properties of `PageTree` |
| `racing_moves` | `MCPageTree` | two moves close a cycle (violation) |
| `page_access` | `MCPageAccess` | the properties of `PageAccess` |
| `upsert_lowers` | `MCPageAccess` | a share that lowers access (violation) |
| `sessions` | `MCSessions` | the properties of `Sessions`, of `ViewScreen` and of `PageScreen` |
| `reset_keeps_session` | `MCSessions` | a refresh in flight outlives a reset (violation) |
| `collab_doc` | `MCCollabDoc` | `CollabDoc` implements `PageHistory`, and its properties |
| `restore_undone` | `MCCollabDoc` | a restore is merged away (violation) |
| `engine_laws` | `MCEngineLaws` | the laws of the pure engines |
| `databases` | `MCDatabases` | the properties of `DatabaseSchema` and of `RowCells` |
| `services` | `MCServices` | the properties of the five services |
| `overlapping_puts` | `MCServices` | two PUTs leave a reference that is not the page's (violation) |

**page_tree.** Three pages in *every* forest, with any of them archived and two
of them tied in order, plus a start with one page, a fresh id, two workspaces,
two slots, two requests in full interleaving. A cascade needs a grandchild to
differ from "the children", and an ancestor walk a grandparent: three levels
give both. Every property is about one handler against the writes of another, so
two requests at once are the case; further ones would repeat it on a tree that
is again some forest, and every forest is a start already.

- `Forest`, `EdgesStayHome`: the shape of the tree, whatever runs at once, moves
  included; `Forest` until two moves race. `racing_moves` has the same bounds and
  asks for `NoCycles`, which excepts nothing.
- `ArchiveCascades`, `RestoreReaches`: the two cascades are complete.
- `MovePlacesAsAsked`: among siblings with tied keys too, a move ends right
  beside its anchor, or is refused.
- `EveryRequestEnds`: no walk or search goes round for ever, unless the tree has
  a cycle.

**page_access.** A chain of three pages or three roots, an owner, a member and a
person without an account, two requests from a list of twelve chosen so that
grants meet removals, shares meet invitations and both meet a resolution, and
one move. `MaxDepth = 3` stands for `MAX_ANCESTOR_DEPTH`: the chain just fits,
and a move cannot make a longer one with three pages.

- `AnswerWasTrue`: the resolver's answer is a role the user had while it
  worked, if one write at most came between its reads. With two it is not true:
  an answer can mix the tree before both with the grants after both.
- `GrantedAreTold`: who holds a grant knows of it, or a handler is about to
  tell.
- `InviteNeverLowers`: sharing by address never lowers access, on the page or
  anywhere below it, and a share and an invitation racing to enrol the same
  person do not overwrite each other.

**sessions.** *Sessions*: two tabs, two calls, two handlers at once, three tokens, one reset
link, one fault, five user events. Two tabs and two handlers give each race its
two sides; three tokens are a sign-in, its refresh, and either a second sign-in
or a second refresh; five events allow a sign-in, a call, a request for a link,
a reset and one more. *Controls*: two views, two columns of which one is added, three
requests or failed reads, each control and form in any order; two if another client
put a group into the filter, or if controls and forms are used together. Three are the
least with which two changes of a view cross and the builder, which has missed one of
them, sends a third. There is no date column, so a calendar has nothing to start with.
*Pages*: two pages and one that is created, two entries for two fields, three things
the user does and one request that fails. *Versions*: two versions, three previews.

- `CalmKeepsSessions`: with the single-flight guard, calls and refreshes of
  one tab never cost it its session.
- `OneLiveTokenPerSession`: rotation replaces; the only ways to two live
  tokens are two simultaneous refreshes and a crash between the two writes.
- `RevokedSessionsStayEnded`, `ResetEndsOldSessions`: what revocation
  reaches, and exactly what escapes it.
- `WaitingCallsEnd`: a call that waits for a refresh is released.
- `ControlsKeepTheRest`: a PATCH changes what its user changed and nothing else.
- `ScreenSettles`: what was left in a field is stored, an archived page is not
  open, lists and fields show what is stored, the preview is the one picked.

**collab_doc.** A page or a synced block, two browsers with an edit each, one API
handler at a time, one fault (a failed query or a server that stops), four things
that users, networks and owners do. Two browsers make an edit by a reader, an
edit that arrives during a store, and an edit that waits off line; the four
events are openings and any of: a close, a dropped connection, a token that expires
or is renewed, a changed role, a rename, a version, a restore.

- `KeepsHistory`: the refinement.
- `ReadersNeverWrite`: nothing typed without a writable connection reaches the
  document, its row, a version or the search row.
- `DueOrStored`: what the row lacks has a store due or under way.
- `IndexSettles`: the search row has the page's title and text.
- `EditsArrive`: an edit of a user who stays with write access and a valid token
  gets stored.

**engine_laws.** Every formula of up to six of twelve tokens that can still be
completed, every list of up to three of thirteen JSON atoms as a cell of each of
eleven property types, every three formulas that name each other, every table of
three rows out of three fillings, answered to thirteen views, every tree of four pages, every Markdown file of
four pieces: a block out of eleven, a container that opens, one that closes, a
next item. Six tokens are two binary operators and three operands, or a call or a
parenthesis around one; three rows have ties and an order; four pieces are a list
in a list with two items, or two sections with a body each.

- `ParsesByPrecedence`: a formula is accepted if and only if the grammar derives
  it, and the tree is that of the precedences.
- `CyclesAreErrors`: formulas that reach themselves are errors, and the others
  have the values of the least fixpoint.
- `CellsNormalize`: what a cell keeps is normal already, and of its type.
- `OppositesSplit`: an operator and its opposite divide the rows; the relative
  dates agree with a calendar.
- `RollupsAgree`: the aggregations of a column agree with each other: counts and
  shares add up, mean and median lie where they must.
- `SortedAndStable`: the order of the rows, whatever the order they came in.
- `AnswerKeepsEveryRow`: an answer keeps that order and each row its filter keeps, once;
  pages of one or two rows and the groups lose none, nor does a client lose another
  when a row is archived between two pages. A filter that fails fails the request.
- `DropLandsWhereDrawn`: what a drop asks the server for puts the page where it
  was drawn.
- `ImportKeepsText`: every text of an imported file is in the blocks once, in
  order, with its marks and in its containers, and in the pages they are cut into.

**databases.** *Schema*: two databases and a document that may become a third,
five property and four view identifiers, a row in each, two handlers, four
requests: a pair, a third property and the two requests that race for them.
*Cells*: one row with its title cell and another, a value that is taken and one
that is refused, two tabs of two users, two handlers, two writes and one fault.
Two writes to one cell are the race; what each tab has seen of them takes
some twenty-five steps. Handlers are symmetric, the free properties of a schema are,
and so are the two tabs together with their users; the last two change places at once,
since a behaviour has only one of them.

- `MainOnesExist`: one primary property and a default view that exists.
- `LinksMirrored`: two properties that name each other show the same links.
- `CopiesFollow`: the title and the search entry are those of the cells.
- `TabsSettle`: a tab with nothing under way shows what the server has, if no
  event was kept from it.

**services.** Comments: two users, two pages, three comments, two requests, one
disturbance (lost access or a dead request). Publishing: two pages, one below
the other, two words, three publishes of which two at once, numbers up to 3.
Favorites, references and uploads: three toggles, three edits, two mishaps.
Sign-on: two browsers, two subjects, three addresses, two logins, two callbacks,
each loaded in either browser with the state and the code of either login.
Menus: two terms and the empty one, four keystrokes, one failure. Three comments
are a root and the two replies that race; two logins are one overtaken by
another, or two first ones of a person at once.

- `ThreadsTell`: a thread holds together, and its people are told once.
- `AddressStays`: an address that was given out stays with its page, and
  visitors see only what the allow-list lets through.
- `TabKeepsUp`: favorites, references and file blocks are those stored.
- `OneAccountEach`: one person has one account and one session per login.
- `MenusSettle`: a menu shows the answer to what is typed.

`overlapping_puts` is the references alone, with the same bounds.

`CHECK_DEADLOCK FALSE` is set in every run: the bounds on requests and events
are reached, and a system nobody uses rests. `databases` and `services` use
symmetry, over handlers and over users and pages that start alike, and check
no liveness (the handlers of one service are the browsers and publishers of
another, so that one permutation serves all); the others name pages and people in their initial states.

Several properties end in *unless*: what the code gives up when two requests
cross. Each exception is a history variable set by exactly that crossing, and
was found by TLC as a counterexample of the property without it. The exceptions
are therefore part of what the project shows: they say where the code has no
lock, no retry or no order.

## Fairness

- `PageTree`: `WF_vars(Step(r))`. A handler that has begun is resumed: a query
  answers, and the event loop runs its continuation. `EveryRequestEnds` excepts a
  tree that racing moves tied into a cycle: `subtreeIds` has no visited set. Nothing makes a client send
  a request, so `Take` has no fairness.
- `Sessions`: `WF_vars(Serve(j))` for the same reason, and
  `WF_vars(Answered(c))`: a request that was sent is answered or fails, since
  `fetch` settles. No fairness on users, cut connections or crashes.
- `CollabDoc`: `WF_vars(StoreBegin)` and `WF_vars(Hooks)`, the debounce runs out
  and a hook that has begun is carried through; `WF_vars(Connect(c))` and
  `WF_vars(Push(c, u))`, a provider keeps trying to connect and sends what the
  server lacks. No fairness on users, roles, tokens, crashes or dropped
  connections;
  `EditsArrive` holds although these may go on as often as the bounds let them.
- The other modules state safety: what holds once nothing is under way.

## The proofs

Eight modules hold the theorems. Each is about specifications as they are
checked, with the bounds of the guards (`MaxRequests` and the like) as constants
of any value:

| module | about | invariants it proves inductive | properties of runs |
|---|---|---|---|
| `PageTreeProofs` | `PageTree` | `HomeInv`, `GuardOK`, `SearchOK`, `ClimbOK`, `PlaceInv` | `TypeOK`, `EdgesStayHome`, `Forest`, `ArchiveCascades`, `RestoreReaches`, `MovePlacesAsAsked` |
| `PageAccessProofs` | `PageAccess` | `AccessInv`, `AnswersInv` | `GrantedAreTold`, `AnswerWasTrue`, `InviteNeverLowers` |
| `SessionsProofs` | `Sessions` | `TypeInv`, `EndInv`, `ResetInv`, `LiveInv`, `CalmInv` | `RevokedSessionsStayEnded`, `ResetEndsOldSessions`, `OneLiveTokenPerSession`, `CalmKeepsSessions` |
| `CollabDocProofs` | `CollabDoc`, `PageHistory` | `DocInv` | `ReadersNeverWrite`, `DueOrStored`, `IndexSettles`, `KeepsHistory` |
| `DatabaseProofs` | `DatabaseSchema`, `RowCells` | `SchemaInv`, `CellsInv` | `MainOnesExist`, `LinksMirrored`, `CopiesFollow`, `TabsSettle` |
| `CellProofs` | `CellLaws` | `Pieces`, `TableOfPages` | `CellsNormalize`, `OppositesSplit`, `RollupsAgree`, `SortedAndStable`, `AnswerKeepsEveryRow` |
| `ServicesProofs` | `SignOn`, `Discussion`, `PublicPages` | `SignOnInv`, `BoundInv`, `TalkInv`, `PublicInv` | `OneAccountEach`, `ThreadsTell`, `AddressStays` |
| `TabProofs` | `Personal`, `Pickers`, `PageScreen`, `ViewScreen` | `PersonalInv`, `MenusInv`, `ShellInv`, `PreviewInv`, `ControlInv` | `TabKeepsUp`, `MenusSettle`, `ScreenSettles`, `ControlsKeepTheRest` |

A run that puts several specifications beside one another checks the property of
each under the specification the theorem is about (`CellsSpec`, `CellSpec`, `RowSpec`, `SignOnSpec`,
`TalkSpec`, `PublicSpec`, `PersonalSpec`, `PickerSpec`, `ShellSpec`, `ControlSpec`): while one
moves the others stand still.

`PageTreeProofs` proves about `PageTree`, for any pages, workspaces, slots, keys
and number of requests, from the assumptions that module states about its
constants. An invariant of asynchronous handlers is not inductive alone: it
needs what each handler *still knows* when it comes to write. The argument is in
which kind of knowledge that is.

- **Stable facts.** A page stays in its workspace and a row is never deleted.
  `HeldOK` says what each handler holds of this kind; `HomeInv` (types,
  `EdgesStayHome` and `HeldOK`) is inductive. `HomeInvariant`, `TypeCorrect` and
  `WorkspaceIsolation` follow: no edge crosses workspaces, although workspaces
  are compared long before the edge is written.
- **Facts nobody else may change.** `GuardOK` says what the ancestor walk of a
  move has seen: pages that lead to the cursor or to a root, the page to be moved
  not among them, the target among them. Creates and imports add leaves and never
  disturb it, a move to the root only cuts the way short; a move that gives a page a
  new parent may disturb it, and the slots it outruns are in `outrun` then.
  `ForestInvariant` proves `[]Forest` for any number of movers: the tree is a forest
  until a move that was outrun writes. `racing_moves` shows that this exception is
  needed.
- **Facts while not overtaken.** `SearchOK` and `ClimbOK` are about the slots
  that no write overtook: what the search has expanded is closed under children,
  what the climb has passed is closed under parents. They give
  `ArchiveIsComplete` and `RestoreIsReachable`. `PlacedOK` says that the key a move
  is about to write lies where it was asked for among the siblings there are.
  `MovesLandAsAsked` follows under one hypothesis, `[]Roomy`: between two different
  keys of siblings there is a third. The library's keys are strings, of which it
  always finds one; the model's are integers, which `KeyUnit` keeps far enough apart
  in every state of the run (`Roomy` was checked there as an invariant).

`SessionsProofs` proves about `Sessions`, for any number of tabs, calls,
handlers, tokens, links, faults and events, from `SessionAssumption` alone.

- `TypeInv` adds to `TypeOK` what a handler holds at each step (`HandlerOK`: an
  idle slot serves no tab, a refresh past its look-up has a token that was
  minted) and that sessions are named by minted tokens; without them a step from
  a well-typed state may leave the types. `TypeCorrect` follows, for which no run
  checks `TypeOK` again.
- `revokeAll` reaches the rows there are, so what can live on is what a handler
  inserts that was past its last check by then. `EndInv` follows such a handler
  from its check to its insert: a refresh about to insert for an ended session
  is late, or exchanges a token that was. `RevocationIsFinal` follows.
- `ResetInv` says the same of a handler about to insert with an outdated
  password, unless a reset has still to revoke (`Unfinished`). `ResetIsEffective`
  follows.
- `LiveInv` is behind `RotationReplaces`. The property counts, an inductive
  invariant should not: it says that of a session that did not race *one* token
  is current (live, and no refresh about to revoke it), that a refresh about to
  mint has found that one, and that no other refresh is about to mint or to
  revoke the same. The count is then a map from the live tokens to the refreshes
  between their two writes, and one more.
- `CalmInv` is behind `CalmIsSafe`: as long as nothing but signing in and out,
  calls and refreshes happened, each refresh under way is the `refreshInFlight` of
  its tab, it alone presents its token, no other tab holds that, and a token on
  its way to a tab is good and nobody else's. The single-flight guard is what keeps
  a second refresh of a token from beginning.
- `Plain` is the class of steps that write no row and leave the password alone;
  one lemma shows that thirteen of the actions are of that class, and the other
  nine are proved one by one.

`CollabDocProofs` proves about `CollabDoc`, for any browsers, edits, handlers,
events and faults, from `CollabAssumption` (`Closed` is no state). A state is
copied along a chain: a browser, the open document, the store hook, the row, a
handler of the version history, the list of versions, and back to the row. No
property of one end is inductive without the links between.

- `TypeInv` carries, with the types, that the document is open while somebody is
  connected or a store is due or under way: only then is what arrives added to a
  state.
- `VouchedInv` says of every copy who typed what is in it, and of a browser that
  what it holds is its own or was sent to it. `ReadersWriteNothing` follows.
- `OpenInv` bounds the state a store writes: it holds the row, unless a restore
  replaced that meanwhile, is within the open document, and is all of it unless
  another store is due. `StoreIsDue` follows, and that a save never forgets.
- `ListInv`: what is listed, or a handler is about to list, is a state that the
  row has had. A restore in progress holds a listed one.
- `IndexInv` is about the search row: unless two writers crossed there is one at a
  time, which holds the page's title or has still to read it; the row has the title
  when there is none, and the stored text once the hook that stored it is through.
  `SearchRowSettles` follows.
- `ImplementsHistory` is the refinement: `HistoryStep` maps each action to one of
  `PageHistory` or to a stutter. `PageHistory` states no liveness, so this is all
  of `KeepsHistory`.

`PageAccessProofs` proves about `PageAccess`, from `AccessAssumption`.

- `AccessInv` has the types, that the tree stays acyclic, and `TellInv`: whoever
  holds a grant has been told or is about to be, and a handler that found a grant
  and so will tell nobody knows that somebody has. `GranteesAreTold` follows.
- A resolution reads the tree edge by edge, then a membership, then the grants,
  and anything may be written between. `AnswersInv` says that while at most one
  write came there is *one* tree and *one* membership with which all that was read
  agrees and which give a role that its user had; with no write, that these are
  the present ones. `AnswersWereTrue` follows, and with it `InvitesNeverLower`: a
  grant decides for a page below only where the page shared is the nearest that
  grants, and there the guard compared with the role it replaces (`GrantRaises`).
- Both theorems have the hypothesis `[]Shallow`: no page has more than `MaxDepth`
  ancestors, itself included. The walk of the code stops at that number (1000,
  `permissions.ts:92`) and what is above does not count; `RoleOn` has no such
  limit. `SmallIsShallow` shows that the hypothesis holds of every tree of at
  most `MaxDepth` pages, so of every state of the run.

`DatabaseProofs` proves about `DatabaseSchema`, from `SchemaAssumption`.
`RowsInv` and `PartnersInv` say what the rows owe each other: properties and views
are of databases, and a partner that nobody interfered with names its property
back. `RequestsInv` says what a request took from its checks that still holds when
it writes (`RequestOk`: the ids given to it are unused, what it saw is all there
is, the partner it was told is the partner yet), and what two requests under way
owe each other (`Apart`: different ids, one of two promotions has seen the other,
whatever crossed is marked). `OneMainOfEach` and `PairsShowTheSame` are parts of
the invariant, as each needs the other parts to be inductive.

The attempt to prove `LinksMirrored` showed that it was false as first stated. A
PATCH may make a third property name one of a pair (`update` stores the new
configuration and does not ask its partner); a link through the third then
writes its mirror on the partner's side, where the partner's own partner lacks
it. It takes four free properties to see, and the run has two. `strained` now
records the partner a PATCH names, and the property excepts it.

It also proves about `RowCells`, from `CellsAssumption`. On the server
`TitleInv` and `IndexInv` say that what would leave the copies behind is marked: a
clear that is under way has an empty cell before it, and the one sync under way has
read the last write. `NumbersInv` orders the writes of a cell and their events.
`TabInv` follows one tab and one property: the tab shows the server's value, or the
last write is still to be announced, or its event is on its way behind any that
would set the value back, or the tab itself writes or fetches and will ask anew. `CopiesFollowCells` and
`TabsShowTheServer` follow.

`CellProofs` proves about `CellLaws`, from `CellAssumption` and `RowAssumption`: the
atoms a request is made of are null, texts, flags and numbers that print, a place that
a number keeps is positive, options are texts, a column has one of the listed types,
what rows are sorted and grouped by are columns, a page has room for a row, and a value
that lists is a list. What a column's value is and what a filter says are otherwise any
functions. A request is made of such atoms (`Pieces`) and
may be a list of any length; so may a table (`TableOfPages`).

- `OppositesAlwaysSplit`: what a column of numbers holds is a number, and what a
  column of dates holds begins with an instant (`StoredNumber`, `StoredDate`), so
  opposite conditions compare the same two integers. The relative ranges are cut from
  one day that contains the moment, for any moment.
- `CellsAreNormal`: storing what is stored changes nothing (`Normal`). By type: a
  multiple of a place rounds to itself (`Multiples`), a normal date is normal
  (`NormalOnce`), a list without repetitions keeps all its places. The last needs
  that a finite set of places has an n-th member (`Ranks`), which follows from
  counting: the number of smaller places is an injection into `1..n`, so onto it.
- `RollupsAlwaysAgree`: the picked numbers are as many as the places picked, and the
  arranged ones are the same numbers in order, so that of the places before the middle
  none is above it; a sum lies between as many times the least and the greatest.
- `RowsSort`: the comparator is first shown to be what it is meant as, an order by the
  first key that decides with the empties last in either direction (`InOrder`), then to
  be transitive, key by key. The insertion is an invariant over how many rows have been
  inserted: they are there once each, in order, and of two that tie the earlier is
  first. What it needs of the cells is `Comparable`: a number in a column of numbers, a
  date that names an instant, an option that exists, a text elsewhere.
- `AnswersKeep`: five facts. Loading level by level loads each row that no archived page
  is above, once, a parent before its children and on one level in the order of the
  database (`LoadedOf`): what is loaded after *n* levels is what is shown on the first
  *n*, and there are no more levels than rows. The engines see positions and the sort
  is of rows, and sorting rows is sorting their positions (`RowsSorted`), so all that
  `RowsSort` rests on holds here too, and a query answers from one list (`QueryOf`). A
  page is a stretch of that list, from behind its cursor, or from the start if the
  cursor is gone (`PageOf`). While the table stands, what a client has is a head of the
  list that grows by a row at least (`StillWalk`), so as many requests as rows and one
  more end the walk. When a row goes after the first page, what is left keeps its order
  (`ArchivingThins`), and what a client has includes all up to its cursor; a cursor
  that went starts over, and costs the one request the archived row saves
  (`ThinnedWalk`). The keys of the groups are the options and what the rows have, each
  once, the empty one last (`GroupsOfRows`).
- `StoredCellsCompare`: that is what validation leaves, for any request. It is not what
  a cell holds for ever: removing an option from a column leaves the cells that hold it
  (`properties.service.ts:193`), and `sort.ts:18` then falls back to comparing texts,
  for that cell only. `GoneOptionsGoInCircles` shows what comes of it: with options
  that are not in the order of their names three rows compare in a circle, and their
  order depends on how the rows came. The hypothesis of `RowsSort` cannot be dropped.

`ServicesProofs` proves about three services.

- *Sign-on* (`SignOnAssumption`: `NoOne` is no subject and no number). `OnceInv`: a
  login's code is exchanged once, so one of its callbacks gets past the exchange.
  `AccountInv`: the user a callback holds, and every user a session was issued of,
  has the subject of the login until another subject took the account over.
  `UsersInv`: no two users share an address or a subject, which is the unique
  index. `BoundInv`: a cookie names a login of its browser, and a callback past the
  exchange has in its cookie the login whose code it exchanged; so a session starts
  where its login began, wherever the address was loaded. `OnePersonOneAccount`
  follows.
- *Comments* (`TalkAssumption`). A reply is admitted on its parent's page, and a
  root gives its thread a number that nobody has (`StrandsInv`); a request past its
  insertion is the only one of its comment (`PlacedInv`); and what it has gathered
  stays *enough* until it is sent, since a comment with a smaller number that is in
  the thread later was there when it gathered (`GatheredInv`). `ThreadsAlwaysTell`
  follows.
- *Published pages* (`PublicAssumption`: `None` is no slug, the given tree has no
  cycle). `AloneInv` and `AskedInv` say of a page that no two requests ran for at
  once that its request keeps the address or begins it with the word it was asked
  for; `AddressesStay` is the action property, from these and `OneOwner`.

`TabProofs` proves about what a tab keeps.

- *Favorites, references, uploads*: what is shown or being read is the server's, or
  a call of the tab's own is to be answered (`StarsInv`); what a PUT has read is what
  is stored, unless another was stored meanwhile, and what is stored is what its last
  PUT desired, unless that one was crossed (`LinksInv`); bytes come before names
  (`MediaInv`).
- *Menus* (`PickersAssumption`): what is kept for a term is the answer for it,
  whenever it came (`PaletteInv`), and the last request of the composer and the
  popup is for what is typed (`ComposerInv`, `PopupInv`). The assumption says of
  the given hits and names that they are sequences, and of the readable ones among
  them too: `SelectSeq` is a primitive without facts in the prover. TLC evaluates it
  on the run's lists.
- *Workspace screen* (`ScreenAssumption`: pages, listings and the values for nothing
  are different): what was read or is shown is the server's unless a write was done
  and not answered yet, whose answer has it read again (`QueriesInv`); a field
  without the focus has what is shown or what it was left with (`FieldsInv`); that
  is stored, or the only write of the field will store it (`LeftInv`); a page about
  to leave the screen has its archive to be answered (`GoneInv`).
- *View controls* (`ControlAssumption`: property ids and operators are of the types
  the schema gives them, the values for nothing are none of them). `ControlInv`
  relates three copies to what is stored. A request that no other for its view or
  property crossed is alone, so what it carries is what is stored but for its own
  part (`WireOK`). The builder's filter is that of the newest request for the view it
  was filled from, or what is stored (`BuilderOK`); what was not typed into a form is
  what the property has, and a property's id is not given again while a form or a
  request names it (`FormOK`). `StepsReduce` adds that the reducer's list is the rows
  with the user's step done to them. `ControlsSaveTheirPart` follows.

### Model-checked only

- The liveness properties (`EveryRequestEnds`, `WaitingCallsEnd`, `EditsArrive`):
  liveness under fairness is out of the prover's reach, and so is `ENABLED`.
- Four laws of `EngineLaws`: `ParsesByPrecedence`, `CyclesAreErrors`,
  `DropLandsWhereDrawn`, `ImportKeepsText`. Formulas, trees and Markdown are about
  recursive operators, and the prover loses its arithmetic in a module that reaches one.
- The five properties that a run violates, which are false.

Induction over data is mostly out of reach too, as the library's induction rules
take an operator for a parameter. Where a proof needs it over numbers, as for
the walk up a tree, it takes the least counterexample with `WFMin` instead
(`LeastNumber` in `PageAccessProofs` and `CellProofs`). For recursive functions that is
one lemma (`Recursion` in `CellProofs`): a definition by recursion on a length has
the value its equation says at every place.

No module with a theorem uses a recursive operator. Descendants and ancestors are
closed sets instead, which is what makes the cascades provable at any depth.

## Findings

Five runs show where the code differs from what its comments say.

- `racing_moves` (`pages.service.ts:218`, "Cycle guard: cannot move a page
  under itself or one of its descendants"). Two moves, `a` under `b` and `b`
  under `a`, both pass the guard before either writes. The pages then are each
  other's parent, and `subtreeIds`, which has no visited set, does not end on
  them. `Forest` and `EveryRequestEnds` say what holds besides.
- `upsert_lowers` (`sharing.service.ts:153`). The comment of
  `share-decision.ts:5` names `upsert` among the writes that must not lower a
  subject; `upsertPermission` has no such guard, only `shareInvite` does.
- `reset_keeps_session` (`auth.service.ts:146`, "Invalidate existing sessions
  after a password change"). A refresh that had read its token before the reset
  creates a replacement after `revokeAll`, which only reaches the rows there
  are. `ResetEndsOldSessions` states what does hold.
- `restore_undone` (`snapshots.service.ts:129`, "Live-connected clients pick the
  restored state up on reload/reconnect"). A restore overwrites the stored row.
  A browser that reloads still has the newer updates in IndexedDB, and the sync
  server may have them in memory; merging Yjs states is a union, so the newer
  text comes back and the next store writes it over the restored row.
- `overlapping_puts` (`pages.service.ts:310`, "the stored set ends up exactly
  matching the (filtered) desired set"). `existing` is read before the transaction
  (`:329`, `:338`), and a tab does not wait for its earlier PUT. A PUT of one
  reference and a later one of none both read that none is stored; the first
  inserts, the second deletes nothing, and the reference stays although the
  document has none. `TabKeepsUp` states what does hold.

## What is not modelled

- The components with status `not_modelled` in `PROJECT.json`, for the reason
  given there: single rows, I/O, rendering and conversion.
- Of the page tree, sharing and sessions: page types; listing queries; mail; the
  hashing of tokens and passwords; audit dates. E-mail addresses are users, so
  letter case and trimming are not there. `PageTree` leaves out deletion of a
  workspace (no handler deletes pages one by one) and the row pages of
  databases. `PageAccess` has no crash: a handler that dies between a grant and
  its notification has no property. `Sessions` leaves out registration and
  e-mail verification, and counts a wrong password as nothing happening; that a
  failed registration leaves an account nobody can verify has no property.
- Of documents: the content of an update, and so the conversions from Yjs to
  Markdown, HTML and plain text, whose correctness is about characters. Of the
  import from Markdown: what markdown-it does, the languages of code, link targets,
  captions, and file names.
- That an import is seen: it seeds `PageContent.doc`, and `import.service.ts:20`
  says the editor hydrates from that on first open, but nothing outside the export
  and an unused REST call reads `doc`; sync server and editor start from
  `ydocState`, which is null. The document of `CollabDoc` starts empty accordingly.
- Of databases: that a row created with a title (which the web client never sends)
  has it in no cell and in no search entry until the cell is set: `CopiesFollow` is
  about the row that is edited; the order numbers of properties and views (the reorder accepts a
  list with duplicates); a relation whose partner was deleted keeps naming it;
  the layouts (table, board, calendar, gallery); the editor of a files cell,
  which keeps its draft over a change of the cell.
- Of realtime: a user's access is decided when a room is joined; what a user who
  lost it is sent until the socket drops is not stated as a property.
- Of publishing: moves of published pages, the truncation of long slugs, the
  export. An archived page stays public; nothing in the repository says it
  should not.
- Of search: the number of hits fetched before the readable ones are picked is
  bounded, so hits beyond it are lost; `Pickers` has the bound and states no
  property against it.
- Of the personal services: recents; pages that are archived while a reference to
  them is put (`Linkable` is a constant, so its query is one step with the next); two editors of one page that both put
  references; marking all notifications read, those never shown included.
- The theme, the shortcuts, the layout of panels, and whatever else a component
  only draws.

## The plan

All modules of the plan are built, and every safety property but four laws of the
engines is proved. Next, in order of weight:

1. `PageAccess`: a crash between grant and notification. `Sessions`:
   registration with its verification token.
2. Row pages of databases as pages of `PageTree`, so that an archive meets
   `RowCells`.
3. The order numbers of properties, views and favorites as one module.
