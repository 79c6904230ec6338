------------------------------ MODULE RowCells ------------------------------
(***************************************************************************)
(* The cells of a row, what is kept beside them (the title of the row's    *)
(* page, its search entry) and the tabs that show them: rows.service       *)
(* setCell and create, search-index.service syncRowCells, the realtime     *)
(* gateway and the web client's cache of query results.                    *)
(*                                                                         *)
(* A request is a job that goes statement by statement.  What a            *)
(* transaction writes is seen when it commits; a row it has written is     *)
(* locked till then.  A tab has a cache of one view, at most one fetch of  *)
(* it under way, and a socket that may drop; an event reaches the tabs     *)
(* that are in the room when it is sent, in the order of sending.  A query *)
(* reads the row at once, and so does the sync of the search entry.  Which *)
(* property is primary does not change here.                               *)
(***************************************************************************)
EXTENDS Naturals, Sequences, FiniteSets

CONSTANTS Tab, User, UserOf, Attribute, TitleAttribute, Value,
          Writer, MaxWrites, MaxFaults, Unset

ASSUME CellsAssumption ==
  /\ UserOf \in [Tab -> User] /\ TitleAttribute \in Attribute
  /\ MaxWrites \in Nat /\ MaxFaults \in Nat

VARIABLES cell, title, index,
          rows,          \* the titles of the rows that were added
          work, begun,
          tab, inbox, faults,
          commits, last, sent,   \* how many writes there were; each cell's last one, the last announced
          missed,        \* tabs something was kept from, until they fetch again
          crossed,       \* cells whose clearing did not see a write of them
          torn           \* a write came while another request synced the search entry
server == <<cell, rows, title, index, crossed, torn>>
client == <<tab, inbox, missed>>
numbers == <<begun, commits, last, sent>>
cellVars == <<server, client, work, numbers, faults>>

Cells == [Attribute -> Value \cup {Unset}]
Free == [at |-> "idle"]
TitleOf(cells) == cells[TitleAttribute]
Empty == [p \in Attribute |-> Unset]

\* Two tabs that have loaded the view and joined the room.
CellsInit ==
  /\ cell = Empty /\ rows = <<>> /\ title = Unset
  /\ index = [title |-> Unset, body |-> Empty]
  /\ work = [j \in Writer |-> Free]
  /\ begun = 0 /\ commits = 0
  /\ last = [p \in Attribute |-> [number |-> 0, actor |-> Unset]] /\ sent = [p \in Attribute |-> 0]
  /\ tab = [t \in Tab |-> [cells |-> Empty, rows |-> <<>>, fetch |-> "none", answer |-> Unset, link |-> "in"]]
  /\ inbox = [t \in Tab |-> <<>>]
  /\ faults = 0
  /\ missed = {} /\ crossed = {} /\ torn = FALSE

\* Something goes wrong at most MaxFaults times.
Fault == faults < MaxFaults /\ faults' = faults + 1
Advance(j, at) == work' = [work EXCEPT ![j].at = at]
Syncing == {j \in Writer : work[j].at \in {"read", "index"}}
Writing == {j \in Writer : work[j].at \in {"title", "clearing"}}

-----------------------------------------------------------------------------
(* rows.service setCell                                                    *)
\* Statement one.  An upsert locks the cell; a deletion only one it finds.
WriteCell(j) ==
  LET p == work[j].property
      rival == {k \in Writing : work[k].property = p}
      nothing == work[j].value = Unset /\ cell[p] = Unset
  IN  /\ work[j].at = "cell"
      /\ nothing \/ ~ \E k \in rival : work[k].at = "title"
      /\ Advance(j, IF nothing THEN "clearing" ELSE "title")
      /\ crossed' = IF nothing /\ rival # {} THEN crossed \cup {p} ELSE crossed
      /\ UNCHANGED <<cell, rows, title, index, torn, client, numbers, faults>>

\* [The title follows whichever cell was set.]
TitleAfterAny(p, v) == v
\* "Keep the row Page title in sync with the primary cell."
TitleAfter(p, v) == IF p = TitleAttribute THEN v ELSE title

\* Statement two and the commit.
WriteTitle(j) ==
  LET p == work[j].property
      v == work[j].value
  IN  /\ work[j].at \in {"title", "clearing"}
      /\ cell' = IF work[j].at = "title" THEN [cell EXCEPT ![p] = v] ELSE cell
      /\ title' = TitleAfter(p, v)
      /\ crossed' = IF \E k \in Writing \ {j} : work[k].at = "clearing" /\ work[k].property = p
                     THEN crossed \cup {p} ELSE crossed
      /\ torn' = (torn \/ Syncing # {})
      /\ commits' = commits + 1
      /\ last' = [last EXCEPT ![p] = [number |-> commits + 1, actor |-> UserOf[work[j].tab]]]
      /\ work' = [work EXCEPT ![j].at = "read", ![j].number = commits + 1]
      /\ UNCHANGED <<rows, index, client, begun, sent, faults>>

\* A refused value, or a statement that fails and takes the transaction with it.
SetCellFails(j) ==
  /\ work[j].at \in {"cell", "title"}
  /\ Fault /\ Advance(j, "failed")
  /\ UNCHANGED <<server, client, numbers>>

-----------------------------------------------------------------------------
(* search-index.service syncRowCells                                       *)
ReadRow(j) ==
  /\ work[j].at = "read"
  /\ work' = [work EXCEPT ![j].at = "index", ![j].copy = [title |-> title, body |-> cell]]
  /\ torn' = (Syncing # {j} /\ torn)
  /\ UNCHANGED <<cell, rows, title, index, crossed, client, numbers, faults>>
WriteIndex(j) ==
  /\ work[j].at = "index"
  /\ index' = work[j].copy
  /\ Advance(j, "emit")
  /\ UNCHANGED <<cell, rows, title, crossed, torn, client, numbers, faults>>
\* "Best-effort": the error is logged and the request goes on.
SyncFails(j) ==
  /\ j \in Syncing
  /\ Fault /\ Advance(j, "emit")
  /\ torn' = TRUE
  /\ UNCHANGED <<cell, rows, title, index, crossed, client, numbers>>

-----------------------------------------------------------------------------
(* rows.service create                                                     *)
\* The title that was asked for is the page's; there is no cell yet, and
\* nothing to sync.
InsertRow(j) ==
  /\ work[j].at = "insert"
  /\ rows' = Append(rows, work[j].value)
  /\ Advance(j, "emit")
  /\ UNCHANGED <<cell, title, index, crossed, torn, client, numbers, faults>>

-----------------------------------------------------------------------------
(* database-realtime.gateway: emit, onSubscribe, the socket                *)
\* An event that is sent after that of a later write sets the cell back.
Overtaken(j) == work[j].kind = "set" /\ work[j].number < sent[work[j].property]
Emit(j) ==
  LET event == [actor |-> UserOf[work[j].tab], kind |-> work[j].kind, property |-> work[j].property,
                value |-> work[j].value, number |-> work[j].number]
      kept == {t \in Tab : tab[t].link # "in" \/ Overtaken(j) \/ (work[j].kind = "set" /\ work[j].property \in crossed)
                            \/ (UserOf[t] = event.actor /\ t # work[j].tab)}
  IN  /\ work[j].at = "emit"
      /\ inbox' = [t \in Tab |-> IF tab[t].link = "in" THEN Append(inbox[t], event) ELSE inbox[t]]
      /\ missed' = missed \cup kept
      /\ sent' = IF work[j].kind = "set" /\ ~Overtaken(j) THEN [sent EXCEPT ![work[j].property] = work[j].number] ELSE sent
      /\ Advance(j, "done")
      /\ UNCHANGED <<server, tab, faults, begun, commits, last>>

Join(t) ==
  /\ tab[t].link = "joining"
  /\ tab' = [tab EXCEPT ![t].link = "in"]
  /\ UNCHANGED <<server, inbox, missed, work, numbers, faults>>
\* The token has expired (the server ends the connection, after which the
\* client tries no more), or the database is no longer the user's to read (it
\* stays connected, outside the room).
NotLetIn(t) ==
  /\ tab[t].link = "joining"
  /\ tab' = [tab EXCEPT ![t].link = "outside"]
  /\ UNCHANGED <<server, inbox, missed, work, numbers, faults>>
\* The room and what is on the way are lost.
Drop(t) ==
  /\ tab[t].link = "in" /\ Fault
  /\ tab' = [tab EXCEPT ![t].link = "out"]
  /\ inbox' = [inbox EXCEPT ![t] = <<>>]
  /\ missed' = IF inbox[t] = <<>> THEN missed ELSE missed \cup {t}
  /\ UNCHANGED <<server, work, numbers>>
\* "On (re)connect, (re)subscribe every active room."  Nothing is fetched.
Reconnect(t) ==
  /\ tab[t].link = "out"
  /\ tab' = [tab EXCEPT ![t].link = "joining"]
  /\ UNCHANGED <<server, inbox, missed, work, numbers, faults>>

-----------------------------------------------------------------------------
(* queries.ts: the cache of a tab                                          *)
Asked(t) == [tab EXCEPT ![t].fetch = "asked", ![t].answer = Unset]
Request(j, t, kind, p, v, at) ==
  /\ work[j] = Free /\ begun < MaxWrites
  /\ begun' = begun + 1
  /\ work' = [work EXCEPT ![j] = [kind |-> kind, tab |-> t, property |-> p, value |-> v, at |-> at,
                                before |-> [cells |-> tab[t].cells, rows |-> tab[t].rows], number |-> 0, copy |-> Unset]]
  /\ UNCHANGED <<server, inbox, faults, missed, commits, last, sent>>

\* useSetCell onMutate: the fetch under way is cancelled, the value shown.
Edit(t) ==
  \E j \in Writer, p \in Attribute, v \in Value \cup {Unset} :
    /\ v # tab[t].cells[p]
    /\ Request(j, t, "set", p, v, "cell")
    /\ tab' = [tab EXCEPT ![t].cells[p] = v, ![t].fetch = "none", ![t].answer = Unset]
AddRow(t) ==
  \E j \in Writer, name \in Value \cup {Unset} :
    /\ Request(j, t, "row", TitleAttribute, name, "insert")
    /\ UNCHANGED tab

FetchRead(t) ==
  /\ tab[t].fetch = "asked"
  /\ tab' = [tab EXCEPT ![t].fetch = "answered", ![t].answer = [cells |-> cell, rows |-> rows]]
  /\ missed' = IF inbox[t] = <<>> /\ \A j \in Writer : j \notin Syncing /\ work[j].at # "emit"
               THEN missed \ {t} ELSE missed
  /\ UNCHANGED <<server, inbox, work, numbers, faults>>
FetchArrives(t) ==
  /\ tab[t].fetch = "answered"
  /\ tab' = [tab EXCEPT ![t].cells = tab[t].answer.cells, ![t].rows = tab[t].answer.rows,
                        ![t].fetch = "none", ![t].answer = Unset]
  /\ UNCHANGED <<server, inbox, missed, work, numbers, faults>>

FetchFails(t) ==
  /\ tab[t].fetch = "asked" /\ Fault
  /\ tab' = [tab EXCEPT ![t].fetch = "none"]
  /\ missed' = missed \cup {t}
  /\ UNCHANGED <<server, inbox, work, numbers>>

\* [A mutation that went well leaves the cache as it is.]
AfterSettleQuiet(t, j, ok) ==
  IF ok THEN tab
  ELSE [tab EXCEPT ![t].cells = work[j].before.cells, ![t].rows = work[j].before.rows, ![t].fetch = "asked", ![t].answer = Unset]
\* onError puts back what was shown before; onSettled asks anew in any case.
\* A new row is asked for when it went well.
AfterSettle(t, j, ok) ==
  IF work[j].kind = "row" THEN (IF ok THEN Asked(t) ELSE tab)
  ELSE IF ok THEN Asked(t)
  ELSE [tab EXCEPT ![t].cells = work[j].before.cells, ![t].rows = work[j].before.rows, ![t].fetch = "asked", ![t].answer = Unset]
Ended(t, j, ok) ==
  /\ work[j].tab = t
  /\ tab' = AfterSettle(t, j, ok)
  /\ missed' = IF work[j].kind = "row" /\ ~ok THEN missed \cup {t} ELSE missed
  /\ work' = [work EXCEPT ![j] = Free]
  /\ UNCHANGED <<server, inbox, numbers>>
Settle(t) ==
  \E j \in Writer : work[j].at \in {"done", "failed"} /\ Ended(t, j, work[j].at = "done") /\ UNCHANGED faults
AnswerLost(t) == \E j \in Writer : work[j].at = "done" /\ Ended(t, j, FALSE) /\ Fault

\* useDatabaseRealtime: the user's own event is ignored, a cell is patched in
\* what is shown, anything else is fetched.
Deliver(t) ==
  LET event == Head(inbox[t])
      own == event.actor = UserOf[t]
      older == event.kind = "set" /\ last[event.property].actor = UserOf[t]
                 /\ event.number < last[event.property].number
      patches == ~own /\ event.kind = "set"
  IN  /\ inbox[t] # <<>>
      /\ inbox' = [inbox EXCEPT ![t] = Tail(@)]
      /\ tab' = IF own THEN tab
                ELSE IF patches THEN [tab EXCEPT ![t].cells[event.property] = event.value]
                ELSE Asked(t)
      /\ missed' = IF patches /\ (tab[t].fetch = "answered" \/ older) THEN missed \cup {t} ELSE missed
      /\ UNCHANGED <<server, work, numbers, faults>>

-----------------------------------------------------------------------------
CellsNext ==
  \/ \E j \in Writer : WriteCell(j) \/ WriteTitle(j) \/ SetCellFails(j) \/ ReadRow(j)
                    \/ WriteIndex(j) \/ SyncFails(j) \/ InsertRow(j) \/ Emit(j)
  \/ \E t \in Tab : Join(t) \/ NotLetIn(t) \/ Drop(t) \/ Reconnect(t) \/ Edit(t) \/ AddRow(t)
                    \/ FetchRead(t) \/ FetchArrives(t) \/ FetchFails(t) \/ Settle(t) \/ AnswerLost(t) \/ Deliver(t)
CellsSpec == CellsInit /\ [][CellsNext]_cellVars

-----------------------------------------------------------------------------
(* The copies of a row's cells follow them: the title of the page is the   *)
(* primary cell ("kept in sync", rows.service), except after a clear that  *)
(* crossed a write of it, and once no request is under way the search      *)
(* entry has the row's title and cells, except after two requests that     *)
(* synced it at once.                                                      *)
CopiesFollow ==
  /\ TitleAttribute \notin crossed => title = TitleOf(cell)
  /\ ~torn /\ commits > 0 /\ (\A j \in Writer : work[j].at = "idle") =>
       index = [title |-> title, body |-> cell]

(* A tab that has nothing under way shows what the server has, although    *)
(* it patches its cache ahead of the answer and on events, puts back on    *)
(* errors what it showed before and ignores its user's own events: as long *)
(* as it was in the room for every event, no other tab of its user wrote,  *)
(* no fetch failed or crossed an event, and no event of an older write came *)
(* after a newer one or after its own user's.                              *)
TabsSettle ==
  \A t \in Tab :
    /\ t \notin missed /\ tab[t].fetch = "none" /\ inbox[t] = <<>>
    /\ \A j \in Writer : work[j] = Free
    => tab[t].cells = cell /\ tab[t].rows = rows
=============================================================================
