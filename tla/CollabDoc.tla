------------------------------ MODULE CollabDoc ------------------------------
(***************************************************************************)
(* One collaborative document: the sync server that holds it open          *)
(* (apps/sync/src), the sessions of the browsers that edit it              *)
(* (apps/web/src/collab, pages/Editor.tsx), its stored row, its version    *)
(* history (apps/api/src/snapshots) and its search row, which the sync     *)
(* server and the API both write (apps/api/src/search).                    *)
(*                                                                         *)
(* A Yjs state is the set of updates it contains; applying one state to    *)
(* another is their union, and a deletion is an update like any other.     *)
(* Hocuspocus is external: it opens a document at the first connection,    *)
(* stores it some time after a change, one store at a time, puts it away   *)
(* when nobody is connected and nothing is due, ignores the updates of     *)
(* read-only connections, and forgets a store that failed.                 *)
(***************************************************************************)
EXTENDS Naturals, FiniteSets

CONSTANTS
  Client,    \* browsers, each of one user
  Number,    \* bound: the edits each browser can make
  Wordless,  \* updates that carry no text (formatting, empty blocks)
  Job,       \* bound: API handlers under way together
  Closed,
  MaxEvents, \* bound: what users, networks and owners of the page do
  MaxFaults  \* bound: crashes and failed writes

Update == Client \X Number
State == SUBSET Update

ASSUME CollabAssumption ==
  /\ IsFiniteSet(Client) /\ IsFiniteSet(Number) /\ IsFiniteSet(Job)
  /\ \A s \in State : s # Closed
  /\ MaxEvents \in Nat /\ MaxFaults \in Nat

VARIABLES
  kind,      \* which of the two kinds of document this is
  expired,   \* browsers whose access token the sync server would not verify any more
  role,      \* what each user may do, as the access resolver would answer now
  editable,  \* browsers whose editor takes input: the answer when the page was opened
  local,     \* each browser's Y.Doc, kept in its IndexedDB when the page is closed
  session,   \* each browser's connection
  live,      \* the document in the sync server's memory, or Closed
  dirty,     \* a debounced store is due
  store,     \* the store hook under way
  throttled, \* lastSnapshotAt is younger than the interval
  row,       \* PageContent.ydocState, or SyncedBlock.ydocState; {} for null
  versions,  \* PageSnapshot rows, by state
  title,     \* Page.title: how often it was changed
  index,     \* the SearchIndex row
  job,       \* API handlers
  past,      \* the states the row has had
  turned,    \* a restore replaced the row since the last store
  writers,   \* users who had a writable connection
  crossed,   \* the last writer of the search row began while another was under way
  shown,     \* the state a restore put back when every edit was stored, until the next edit
  renewed,   \* browsers that opened the page after that restore
  failed,    \* a store itself failed
  faults, events

browsers == <<expired, role, editable, local, session>>
server == <<live, dirty, store, throttled>>
tables == <<row, versions, title, index>>
ghosts == <<past, turned, writers, crossed, shown, renewed, failed, faults, events>>
vars == <<kind, browsers, server, tables, job, ghosts>>

----------------------------------------------------------------------------
\* What the store hook and an API handler hold: state is what is being stored, pick
\* the version asked for, cur the row as it was read.
NoHook == [pc |-> "idle", state |-> {}, title |-> 0]
NoHandler == [op |-> "rename", pc |-> "idle", pick |-> {}, cur |-> {}, title |-> 0]

UserEvent == events < MaxEvents /\ events' = events + 1
Fault == faults < MaxFaults /\ faults' = faults + 1

Connected == {c \in Client : session[c] \in {"read", "write"}}

\* The text the index takes from a state: formatting has none.
Extract(state) == state \ Wordless

\* Writers of the search row under way: handlers of a rename, the hook's last part.
Indexing == {j \in Job : job[j].pc \in {"title", "upsert"}}
HookIndexes == store.pc \in {"page", "index"}

Init ==
  /\ kind \in {"page", "synced"}
  /\ role \in [Client -> {"read", "write"}] /\ expired = {}
  /\ editable = {}
  /\ local = [c \in Client |-> {}]
  /\ session = [c \in Client |-> "closed"]
  /\ live = Closed /\ dirty = FALSE /\ store = NoHook /\ throttled = FALSE
  /\ row = {} /\ versions = {} /\ title = 0
  /\ index = [there |-> FALSE, title |-> 0, body |-> {}]
  /\ job = [j \in Job |-> NoHandler]
  /\ past = {{}} /\ turned = FALSE /\ writers = {} /\ crossed = FALSE
  /\ shown = {} /\ renewed = {}
  /\ failed = FALSE /\ faults = 0 /\ events = 0

----------------------------------------------------------------------------
(* The browser. *)

\* PageView opens a page: the Y.Doc is filled from IndexedDB, the provider starts
\* to connect, and the editor takes input if the access query says so.
OpenPage(c) ==
  /\ session[c] = "closed"
  /\ session' = [session EXCEPT ![c] = "offline"]
  /\ editable' = IF role[c] = "write" THEN editable \cup {c} ELSE editable \ {c}
  /\ renewed' = IF shown = {} THEN {} ELSE renewed \cup {c}
  /\ UserEvent
  /\ UNCHANGED <<kind, expired, role, local, server, tables, job, past, turned, writers,
                 crossed, shown, failed, faults>>

\* destroy tears the session down; the updates stay in IndexedDB.
ClosePage(c) ==
  /\ session[c] # "closed"
  /\ session' = [session EXCEPT ![c] = "closed"]
  /\ editable' = editable \ {c}
  /\ UserEvent
  /\ UNCHANGED <<kind, expired, role, local, server, tables, job, past, turned, writers,
                 crossed, shown, renewed, failed, faults>>

\* The network drops the connection; the provider comes back by itself.
Drop(c) ==
  /\ c \in Connected \/ session[c] = "refused"
  /\ session' = [session EXCEPT ![c] = "offline"]
  /\ UserEvent
  /\ UNCHANGED <<kind, expired, role, editable, local, server, tables, job, past, turned,
                 writers, crossed, shown, renewed, failed, faults>>

\* The access token runs out.  A connection that is open stays so.
TokenExpires(c) ==
  /\ c \notin expired
  /\ expired' = expired \cup {c}
  /\ UserEvent
  /\ UNCHANGED <<kind, role, editable, local, session, server, tables, job, past, turned,
                 writers, crossed, shown, renewed, failed, faults>>

\* A call of the API has the token renewed (Sessions), which replaces the session
\* by a new one over the same IndexedDB.
RenewToken(c) ==
  /\ c \in expired
  /\ expired' = expired \ {c}
  /\ session' = [session EXCEPT ![c] = IF @ = "closed" THEN "closed" ELSE "offline"]
  /\ UserEvent
  /\ UNCHANGED <<kind, role, editable, local, server, tables, job, past, turned,
                 writers, crossed, shown, renewed, failed, faults>>

\* A keystroke, on line or off.
Edit(c, n) ==
  /\ session[c] # "closed" /\ c \in editable
  /\ <<c, n>> \notin local[c]
  /\ \A m \in Number : m < n => <<c, m>> \in local[c]
  /\ local' = [local EXCEPT ![c] = @ \cup {<<c, n>>}]
  /\ shown' = {} /\ renewed' = {}
  /\ UNCHANGED <<kind, expired, role, editable, session, server, tables, job, past, turned,
                 writers, crossed, failed, faults, events>>

\* Grants and memberships change; PageAccess says how.
SetRole(c, r) ==
  /\ role[c] # r
  /\ role' = [role EXCEPT ![c] = r]
  /\ UserEvent
  /\ UNCHANGED <<kind, expired, editable, local, session, server, tables, job, past, turned,
                 writers, crossed, shown, renewed, failed, faults>>

----------------------------------------------------------------------------
(* Connections: onAuthenticate, then the exchange of what either side lacks. *)

\* jwt.verify takes no token that is past its time.
Verified(c) == c \notin expired

\* A page admits who can read it, and takes updates of who can write it.
AuthenticatePage(c, mode) == Verified(c) /\ role[c] # "none" /\ mode = role[c]

\* A synced block admits the members of its workspace, all of them as writers.
AuthenticateSynced(c, mode) == Verified(c) /\ role[c] # "none" /\ mode = "write"

AuthenticateDocument(c, mode) ==
  IF kind = "synced" THEN AuthenticateSynced(c, mode) ELSE AuthenticatePage(c, mode)

\* onAuthenticate throws: the provider waits for another connection or session.
Refuse(c) ==
  /\ session[c] = "offline"
  /\ \A mode \in {"read", "write"} : ~AuthenticateDocument(c, mode)
  /\ session' = [session EXCEPT ![c] = "refused"]
  /\ UNCHANGED <<kind, expired, role, editable, local, server, tables, job, ghosts>>

\* Slip: the row of a synced block is looked for among the pages.
FetchPage == IF live # Closed THEN live ELSE IF kind = "page" THEN row ELSE {}

\* The first connection loads the stored state.
FetchDocument == IF live = Closed THEN row ELSE live

\* Slip: read-only is not set on the connection.
ConnectWritable(c) ==
  /\ session[c] = "offline"
  /\ \E mode \in {"read", "write"} :
       /\ AuthenticateDocument(c, mode)
       /\ session' = [session EXCEPT ![c] = "write"]
       /\ writers' = IF mode = "write" THEN writers \cup {c} ELSE writers
  /\ live' = FetchDocument
  /\ UNCHANGED <<kind, expired, role, editable, local, dirty, store, throttled, tables, job,
                 past, turned, crossed, shown, renewed, failed, faults, events>>

Connect(c) ==
  /\ session[c] = "offline"
  /\ \E mode \in {"read", "write"} :
       /\ AuthenticateDocument(c, mode)
       /\ session' = [session EXCEPT ![c] = mode]
       /\ writers' = IF mode = "write" THEN writers \cup {c} ELSE writers
  /\ live' = FetchDocument
  /\ UNCHANGED <<kind, expired, role, editable, local, dirty, store, throttled, tables, job,
                 past, turned, crossed, shown, renewed, failed, faults, events>>

\* An update of a writable connection reaches the server and makes a store due.
Push(c, u) ==
  /\ session[c] = "write" /\ u \in local[c] \ live
  /\ live' = live \cup {u}
  /\ dirty' = TRUE
  /\ UNCHANGED <<kind, browsers, store, throttled, tables, job, ghosts>>

Pull(c, u) ==
  /\ c \in Connected /\ u \in live \ local[c]
  /\ local' = [local EXCEPT ![c] = @ \cup {u}]
  /\ UNCHANGED <<kind, expired, role, editable, session, server, tables, job, ghosts>>

----------------------------------------------------------------------------
(* The store hook of the sync server, one action per query. *)

StoreBegin ==
  /\ live # Closed /\ dirty /\ store.pc = "idle"
  /\ store' = [NoHook EXCEPT !.pc = "write", !.state = live]
  /\ dirty' = FALSE
  /\ UNCHANGED <<kind, browsers, live, throttled, tables, job, ghosts>>

Written ==
  /\ store.pc = "write"
  /\ row' = store.state
  /\ past' = past \cup {store.state}
  /\ turned' = FALSE
  /\ UNCHANGED <<kind, browsers, live, throttled, versions, title, index, job,
                 writers, crossed, shown, renewed, failed, faults, events>>

\* Slip: the debounce is cleared when the write ends, not when it begins.
StorePageClears ==
  /\ kind = "page"
  /\ Written
  /\ store' = [store EXCEPT !.pc = "snapshot"]
  /\ dirty' = FALSE

\* Slip: an update where the code upserts: a page never stored has no row yet.
StorePageUpdates ==
  /\ kind = "page" /\ row # {}
  /\ Written
  /\ store' = [store EXCEPT !.pc = "snapshot"]
  /\ UNCHANGED dirty

StorePage ==
  /\ kind = "page"
  /\ Written
  /\ store' = [store EXCEPT !.pc = "snapshot"]
  /\ UNCHANGED dirty

\* A synced block has neither versions nor a search row.
StoreSynced ==
  /\ kind = "synced"
  /\ Written
  /\ store' = NoHook
  /\ UNCHANGED dirty

\* The throttle is read, and set before the version is inserted.
MaybeWriteSnapshot ==
  /\ store.pc = "snapshot"
  /\ store' = [store EXCEPT !.pc = IF throttled THEN "page" ELSE "insert"]
  /\ throttled' = TRUE
  /\ crossed' = IF throttled THEN Indexing # {} ELSE crossed
  /\ UNCHANGED <<kind, browsers, live, dirty, tables, job, past, turned, writers,
                 shown, renewed, failed, faults, events>>

InsertSnapshot ==
  /\ store.pc = "insert"
  /\ versions' = versions \cup {store.state}
  /\ store' = [store EXCEPT !.pc = "page"]
  /\ crossed' = (Indexing # {})
  /\ UNCHANGED <<kind, browsers, live, dirty, throttled, row, title, index, job, past,
                 turned, writers, shown, renewed, failed, faults, events>>

IndexReadPage ==
  /\ store.pc = "page"
  /\ store' = [store EXCEPT !.pc = "index", !.title = title]
  /\ UNCHANGED <<kind, browsers, live, dirty, throttled, tables, job, ghosts>>

IndexPageBody ==
  /\ store.pc = "index"
  /\ index' = [there |-> TRUE, title |-> store.title, body |-> Extract(store.state)]
  /\ store' = NoHook
  /\ UNCHANGED <<kind, browsers, live, dirty, throttled, row, versions, title, job, ghosts>>

\* A query of the hook fails.  The store itself is not tried again; a failed
\* version or index write is logged, and the hook goes on.
HookFails ==
  /\ store.pc \in {"write", "insert", "page", "index"}
  /\ Fault
  /\ store' = IF store.pc = "insert" THEN [store EXCEPT !.pc = "page"] ELSE NoHook
  /\ failed' = (failed \/ store.pc = "write")
  /\ UNCHANGED <<kind, browsers, live, dirty, throttled, tables, job, past, turned,
                 writers, crossed, shown, renewed, events>>

\* The snapshot interval passes.
Lapse ==
  /\ throttled
  /\ throttled' = FALSE
  /\ UserEvent
  /\ UNCHANGED <<kind, browsers, live, dirty, store, tables, job, past, turned, writers,
                 crossed, shown, renewed, failed, faults>>

\* Nobody is connected and nothing is due: the document leaves memory.
Unload ==
  /\ live # Closed /\ Connected = {} /\ ~dirty /\ store.pc = "idle"
  /\ live' = Closed
  /\ UNCHANGED <<kind, browsers, dirty, store, throttled, tables, job, ghosts>>

\* The process ends, killed or by close(), which does not wait for the stores.
Stop ==
  /\ live # Closed
  /\ Fault
  /\ live' = Closed /\ dirty' = FALSE /\ store' = NoHook /\ throttled' = FALSE
  /\ session' = [c \in Client |-> IF session[c] = "closed" THEN "closed" ELSE "offline"]
  /\ UNCHANGED <<kind, expired, role, editable, local, tables, job, past, turned, writers,
                 crossed, shown, renewed, failed, events>>

----------------------------------------------------------------------------
(* API handlers: update of a title with syncTitle, create and restore of   *)
(* the version history.  Only pages have them.                             *)

Free(j) == job[j].pc = "idle" /\ j = CHOOSE k \in Job : job[k].pc = "idle"

\* The title is written, and syncTitle begins.
Rename(j) ==
  /\ kind = "page" /\ Free(j) /\ \E c \in Client : role[c] = "write"
  /\ title' = title + 1
  /\ job' = [job EXCEPT ![j] = [NoHandler EXCEPT !.pc = "title"]]
  /\ crossed' = (Indexing # {} \/ HookIndexes)
  /\ UserEvent
  /\ UNCHANGED <<kind, browsers, server, row, versions, index, past, turned, writers,
                 shown, renewed, failed, faults>>

SyncTitleRead(j) ==
  /\ job[j].pc = "title"
  /\ job' = [job EXCEPT ![j].pc = "upsert", ![j].title = title]
  /\ UNCHANGED <<kind, browsers, server, tables, ghosts>>

\* Slip: the upsert of a rename sets the body to that of a new row.
SyncTitleWriteBlank(j) ==
  /\ job[j].pc = "upsert"
  /\ index' = [there |-> TRUE, title |-> job[j].title, body |-> {}]
  /\ job' = [job EXCEPT ![j] = NoHandler]
  /\ UNCHANGED <<kind, browsers, server, row, versions, title, ghosts>>

SyncTitleWrite(j) ==
  /\ job[j].pc = "upsert"
  /\ index' = [index EXCEPT !.there = TRUE, !.title = job[j].title]
  /\ job' = [job EXCEPT ![j] = NoHandler]
  /\ UNCHANGED <<kind, browsers, server, row, versions, title, ghosts>>

\* Save version: the stored state is read; a page that has none is a 404.
CreateVersion(j) ==
  /\ kind = "page" /\ Free(j) /\ \E c \in Client : role[c] = "write"
  /\ row # {}
  /\ job' = [job EXCEPT ![j] = [NoHandler EXCEPT !.op = "version", !.pc = "insert",
                                                 !.cur = row]]
  /\ UserEvent
  /\ UNCHANGED <<kind, browsers, server, tables, past, turned, writers, crossed, shown,
                 renewed, failed, faults>>

InsertVersion(j) ==
  /\ job[j].pc = "insert"
  /\ versions' = versions \cup {job[j].cur}
  /\ job' = [job EXCEPT ![j] = NoHandler]
  /\ UNCHANGED <<kind, browsers, server, row, title, index, ghosts>>

\* Restore: the version asked for is read.
Restore(j, v) ==
  /\ kind = "page" /\ Free(j) /\ \E c \in Client : role[c] = "write"
  /\ v \in versions
  /\ job' = [job EXCEPT ![j] = [NoHandler EXCEPT !.op = "restore", !.pc = "current",
                                                 !.pick = v]]
  /\ UserEvent
  /\ UNCHANGED <<kind, browsers, server, tables, past, turned, writers, crossed, shown,
                 renewed, failed, faults>>

RestoreReadCurrent(j) ==
  /\ job[j].pc = "current"
  /\ job' = [job EXCEPT ![j].pc = IF row = {} THEN "apply" ELSE "safety", ![j].cur = row]
  /\ UNCHANGED <<kind, browsers, server, tables, ghosts>>

RestoreSafety(j) ==
  /\ job[j].pc = "safety"
  /\ versions' = versions \cup {job[j].cur}
  /\ job' = [job EXCEPT ![j].pc = "apply"]
  /\ UNCHANGED <<kind, browsers, server, row, title, index, ghosts>>

\* The row is overwritten, whoever has the document open.
RestoreApply(j) ==
  /\ job[j].pc = "apply"
  /\ row' = job[j].pick
  /\ past' = past \cup {row'}
  /\ turned' = TRUE
  /\ shown' = IF \A c \in Client : local[c] \subseteq row THEN row' ELSE {}
  /\ renewed' = {}
  /\ job' = [job EXCEPT ![j] = NoHandler]
  /\ UNCHANGED <<kind, browsers, server, versions, title, index, writers, crossed,
                 failed, faults, events>>

----------------------------------------------------------------------------
Hooks == StorePage \/ StoreSynced \/ MaybeWriteSnapshot \/ InsertSnapshot
         \/ IndexReadPage \/ IndexPageBody

Next ==
  \/ \E c \in Client :
       \/ OpenPage(c) \/ ClosePage(c) \/ Drop(c) \/ TokenExpires(c) \/ RenewToken(c)
       \/ Connect(c) \/ Refuse(c)
       \/ \E r \in {"none", "read", "write"} : SetRole(c, r)
       \/ \E n \in Number : Edit(c, n)
       \/ \E u \in Update : Push(c, u) \/ Pull(c, u)
  \/ StoreBegin \/ StorePage \/ StoreSynced \/ MaybeWriteSnapshot \/ InsertSnapshot
  \/ IndexReadPage \/ IndexPageBody \/ HookFails \/ Lapse \/ Unload \/ Stop
  \/ \E j \in Job :
       \/ Rename(j) \/ SyncTitleRead(j) \/ SyncTitleWrite(j)
       \/ CreateVersion(j) \/ InsertVersion(j)
       \/ \E v \in versions : Restore(j, v)
       \/ RestoreReadCurrent(j) \/ RestoreSafety(j) \/ RestoreApply(j)

\* A provider keeps trying to connect and sends what the server lacks, the
\* debounce runs out, and a hook that has begun is carried through.
Fairness ==
  /\ WF_vars(StoreBegin) /\ WF_vars(Hooks)
  /\ \A c \in Client : WF_vars(Connect(c))
  /\ \A c \in Client, u \in Update : WF_vars(Push(c, u))

Spec == Init /\ [][Next]_vars /\ Fairness

----------------------------------------------------------------------------
(* Properties *)

\* What a user typed enters the document, its row, its versions or the search row
\* only if that user had a writable connection: an edit made by someone whose
\* access was taken away while off line waits in the browser.
ReadersNeverWrite ==
  \A u \in (UNION versions) \cup row \cup index.body \cup (IF live = Closed THEN {} ELSE live) :
    u[1] \in writers

\* Whoever is connected, and a store that is due or under way, keeps the document
\* open; unless one is, the row holds all of the open document: a change that
\* arrives while a store runs is stored by another.
DueOrStored ==
  /\ Connected # {} \/ dirty \/ store.pc = "write" => live # Closed
  /\ live # Closed /\ ~dirty /\ store.pc # "write" /\ ~turned /\ faults = 0
       => live \subseteq row

\* When neither the hook nor a rename is at it, the search row shows the page's
\* title and the text of its stored state, unless the two wrote it at the same
\* time, a write failed, or a restore replaced the state (which is not indexed).
IndexSettles ==
  store.pc = "idle" /\ Indexing = {} /\ ~crossed /\ faults = 0
    => /\ (index.there => index.title = title)
       /\ (kind = "page" /\ ~turned => index.body = Extract(row))

\* The document, its row and its versions behave as PageHistory promises.
History == INSTANCE PageHistory
  WITH live <- live, row <- row, past <- past, versions <- versions, turned <- turned, faults <- faults
KeepsHistory == History!Spec

\* An edit of a user who stays on the page with write access, whose token stays
\* good, and who is neither refused nor held to a read-only connection gets stored, through lost connections and crashed servers,
\* as long as no write of the database fails.
EditsArrive ==
  \A c \in Client :
    <>[](session[c] \in {"offline", "write"} /\ role[c] = "write" /\ Verified(c))
      => \A n \in Number : <<c, n>> \in local[c] ~> (<<c, n>> \in UNION past \/ failed)

\* "becomes current on next load/reconnect": a browser that opens the page after a
\* restore, no edit having been made since, shows what was restored.  The code
\* breaks it: IndexedDB still has the newer updates, and so may the open document.
RestoredIsShown ==
  \A c \in renewed \cap Connected :
    shown # {} /\ local[c] = live => local[c] = shown
=============================================================================
