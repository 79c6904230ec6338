-------------------------- MODULE CollabDocProofs --------------------------
(***************************************************************************)
(* Proofs about a collaborative document, for any number of browsers,      *)
(* edits and API handlers, and without the bounds on what happens.         *)
(*                                                                         *)
(* The argument.  A state of the document is copied along a chain: typed   *)
(* in a browser, accepted into the open document, held by the store hook,  *)
(* written to the row, held by a handler of the version history, listed,   *)
(* put back.  VouchedInv follows who typed it along the chain, ChainInv    *)
(* says of each link that it holds no more, and no less where that         *)
(* matters, than the one before.                                           *)
(***************************************************************************)
EXTENDS CollabDoc, TLAPS

Hook == [pc : {"idle", "write", "snapshot", "insert", "page", "index"},
         state : State, title : Nat]
Handler == [op : {"rename", "version", "restore"},
            pc : {"idle", "title", "upsert", "insert", "current", "safety", "apply"},
            pick : State, cur : State, title : Nat]

\* Whoever is connected, and a store that is due or under way, keeps the document
\* open, so what is accepted is added to a state and not to Closed.
TypeInv ==
  /\ local \in [Client -> State]
  /\ session \in [Client -> {"closed", "offline", "refused", "read", "write"}]
  /\ live \in State \cup {Closed}
  /\ dirty \in BOOLEAN /\ turned \in BOOLEAN
  /\ store \in Hook
  /\ row \in State /\ versions \subseteq State /\ title \in Nat
  /\ index \in [there : BOOLEAN, title : Nat, body : State]
  /\ job \in [Job -> Handler]
  /\ faults \in Nat
  /\ Connected # {} \/ dirty \/ store.pc = "write" => live # Closed

\* Every update in S was typed by somebody who had a writable connection.
Vouched(S) == \A u \in S : u[1] \in writers

\* A browser holds its own updates and such as it was sent.
VouchedInv ==
  /\ \A c \in Client : session[c] = "write" => c \in writers
  /\ \A c \in Client : \A u \in local[c] : u[1] = c \/ u[1] \in writers
  /\ live # Closed => Vouched(live)
  /\ Vouched(store.state) /\ Vouched(row) /\ Vouched(index.body)
  /\ \A v \in versions : Vouched(v)
  /\ \A j \in Job : Vouched(job[j].pick) /\ Vouched(job[j].cur)

\* The open document against the row: while a write is under way it lies between
\* the row and the document, and is all of the document if nothing came since.
OpenInv ==
  /\ store.pc = "write" => store.state \subseteq live
  /\ store.pc = "write" /\ ~dirty => live \subseteq store.state
  /\ store.pc = "write" /\ ~turned => row \subseteq store.state
  /\ live # Closed /\ ~turned => row \subseteq live
  /\ live # Closed /\ ~dirty /\ store.pc # "write" /\ ~turned /\ faults = 0
       => live \subseteq row

\* What is listed, or about to be, is a state that the row has had and not the
\* empty one.
ListInv ==
  /\ row \in past
  /\ dirty => live # {}
  /\ store.pc # "idle" => store.state # {}
  /\ store.pc \notin {"idle", "write"} => store.state \in past
  /\ \A j \in Job :
       /\ job[j].pc \in {"insert", "safety"} => job[j].cur \in past \ {{}}
       /\ job[j].pc \in {"current", "safety", "apply"} => job[j].pick \in versions

ChainInv == OpenInv /\ ListInv

\* The search row: unless two writers crossed there is one at a time, which has the
\* page's title or has still to read it, and the row has it when there is none.  The
\* body is that of the stored state as soon as the hook that stored it is through.
IndexInv ==
  faults = 0 =>
    /\ ~crossed => \A i, j \in Indexing : i = j
    /\ ~crossed /\ HookIndexes => Indexing = {}
    /\ ~crossed => \A j \in Job : job[j].pc = "upsert" => job[j].title = title
    /\ ~crossed /\ store.pc = "index" => store.title = title
    /\ ~crossed /\ Indexing = {} /\ ~HookIndexes /\ index.there => index.title = title
    /\ kind = "page" /\ ~turned =>
         IF store.pc \in {"idle", "write"} THEN index.body = Extract(row) ELSE store.state = row

\* Every step keeps the types.
LEMMA TypeStep ==
  ASSUME TypeInv, [Next]_vars
  PROVE  TypeInv'
<1>1. ASSUME NEW c \in Client, OpenPage(c) PROVE TypeInv'
  BY <1>1 DEF OpenPage, browsers, server, tables, ghosts, TypeInv, Hook,
    Handler, State, Update, Connected
<1>2. ASSUME NEW c \in Client, ClosePage(c) PROVE TypeInv'
  BY <1>2 DEF ClosePage, browsers, server, tables, ghosts, TypeInv, Hook,
    Handler, State, Update, Connected
<1>3. ASSUME NEW c \in Client, Drop(c) PROVE TypeInv'
  BY <1>3 DEF Drop, browsers, server, tables, ghosts, TypeInv, Hook,
    Handler, State, Update, Connected
<1>4. ASSUME NEW c \in Client, Connect(c) PROVE TypeInv'
  BY <1>4, CollabAssumption DEF Connect, FetchDocument, browsers, server, tables, ghosts,
    TypeInv, Hook, Handler, State, Update, Connected
<1>5. ASSUME NEW c \in Client, NEW r \in {"none", "read", "write"}, SetRole(c, r) PROVE TypeInv'
  BY <1>5 DEF SetRole, browsers, server, tables, ghosts, TypeInv, Hook,
    Handler, State, Update, Connected
<1>6. ASSUME NEW c \in Client, NEW n \in Number, Edit(c, n) PROVE TypeInv'
  BY <1>6 DEF Edit, browsers, server, tables, ghosts, TypeInv, Hook,
    Handler, State, Update, Connected
<1>7. ASSUME NEW c \in Client, NEW u \in Update, Push(c, u) PROVE TypeInv'
  BY <1>7, CollabAssumption DEF Push, browsers, server, tables, ghosts, TypeInv, Hook,
    Handler, State, Update, Connected
<1>8. ASSUME NEW c \in Client, NEW u \in Update, Pull(c, u) PROVE TypeInv'
  BY <1>8 DEF Pull, browsers, server, tables, ghosts, TypeInv, Hook,
    Handler, State, Update, Connected
<1>9. ASSUME StoreBegin PROVE TypeInv'
  BY <1>9 DEF StoreBegin, NoHook, browsers, server, tables, ghosts,
    TypeInv, Hook, Handler, State, Update, Connected
<1>10. ASSUME StorePage PROVE TypeInv'
  BY <1>10 DEF StorePage, Written, browsers, server, tables, ghosts,
    TypeInv, Hook, Handler, State, Update, Connected
<1>11. ASSUME StoreSynced PROVE TypeInv'
  BY <1>11 DEF StoreSynced, Written, NoHook, browsers, server, tables,
    ghosts, TypeInv, Hook, Handler, State, Update, Connected
<1>12. ASSUME MaybeWriteSnapshot PROVE TypeInv'
  BY <1>12 DEF MaybeWriteSnapshot, browsers, server, tables, ghosts,
    TypeInv, Hook, Handler, State, Update, Connected
<1>13. ASSUME InsertSnapshot PROVE TypeInv'
  BY <1>13 DEF InsertSnapshot, browsers, server, tables, ghosts, TypeInv,
    Hook, Handler, State, Update, Connected
<1>14. ASSUME IndexReadPage PROVE TypeInv'
  BY <1>14 DEF IndexReadPage, browsers, server, tables, ghosts, TypeInv,
    Hook, Handler, State, Update, Connected
<1>15. ASSUME IndexPageBody PROVE TypeInv'
  BY <1>15 DEF IndexPageBody, NoHook, Extract, browsers, server, tables,
    ghosts, TypeInv, Hook, Handler, State, Update, Connected
<1>16. ASSUME HookFails PROVE TypeInv'
  BY <1>16 DEF HookFails, NoHook, Fault, browsers, server, tables,
    ghosts, TypeInv, Hook, Handler, State, Update, Connected
<1>17. ASSUME Lapse PROVE TypeInv'
  BY <1>17 DEF Lapse, browsers, server, tables, ghosts, TypeInv, Hook,
    Handler, State, Update, Connected
<1>18. ASSUME Unload PROVE TypeInv'
  BY <1>18 DEF Unload, browsers, server, tables, ghosts, TypeInv, Hook,
    Handler, State, Update, Connected
<1>19. ASSUME Stop PROVE TypeInv'
  <2>1. session' \in [Client -> {"closed", "offline", "refused", "read", "write"}]
    BY <1>19 DEF Stop, TypeInv
  <2>2. Connected' = {}
    BY <1>19 DEF Stop, TypeInv, Connected
  <2>3. store' \in Hook /\ store'.pc = "idle" /\ faults' \in Nat
    BY <1>19 DEF Stop, NoHook, Hook, Fault, TypeInv, State
  <2>q. QED
    BY <1>19, <2>1, <2>2, <2>3 DEF Stop, tables, TypeInv
<1>20. ASSUME NEW j \in Job, Rename(j) PROVE TypeInv'
  BY <1>20 DEF Rename, NoHandler, browsers, server, tables, ghosts,
    TypeInv, Hook, Handler, State, Update, Connected
<1>21. ASSUME NEW j \in Job, SyncTitleRead(j) PROVE TypeInv'
  <2>1. job' = [job EXCEPT ![j] = [job[j] EXCEPT !.pc = "upsert", !.title = title]]
    BY <1>21 DEF SyncTitleRead, TypeInv
  <2>2. [job[j] EXCEPT !.pc = "upsert", !.title = title] \in Handler
    BY DEF TypeInv, Handler
  <2>3. job' \in [Job -> Handler]
    BY <2>1, <2>2 DEF TypeInv
  <2>q. QED
    BY <1>21, <2>3 DEF SyncTitleRead, browsers, server, tables, ghosts, TypeInv, Connected
<1>22. ASSUME NEW j \in Job, SyncTitleWrite(j) PROVE TypeInv'
  BY <1>22 DEF SyncTitleWrite, NoHandler, browsers, server, tables,
    ghosts, TypeInv, Hook, Handler, State, Update, Connected
<1>23. ASSUME NEW j \in Job, CreateVersion(j) PROVE TypeInv'
  BY <1>23 DEF CreateVersion, NoHandler, browsers, server, tables,
    ghosts, TypeInv, Hook, Handler, State, Update, Connected
<1>24. ASSUME NEW j \in Job, InsertVersion(j) PROVE TypeInv'
  BY <1>24 DEF InsertVersion, NoHandler, browsers, server, tables,
    ghosts, TypeInv, Hook, Handler, State, Update, Connected
<1>25. ASSUME NEW j \in Job, NEW v \in versions, Restore(j, v) PROVE TypeInv'
  BY <1>25 DEF Restore, NoHandler, browsers, server, tables, ghosts,
    TypeInv, Hook, Handler, State, Update, Connected
<1>26. ASSUME NEW j \in Job, RestoreReadCurrent(j) PROVE TypeInv'
  <2>1. job' = [job EXCEPT ![j] = [job[j] EXCEPT !.pc = IF row = {} THEN "apply" ELSE "safety", !.cur = row]]
    BY <1>26 DEF RestoreReadCurrent, TypeInv
  <2>2. [job[j] EXCEPT !.pc = IF row = {} THEN "apply" ELSE "safety", !.cur = row] \in Handler
    BY DEF TypeInv, Handler
  <2>3. job' \in [Job -> Handler]
    BY <2>1, <2>2 DEF TypeInv
  <2>q. QED
    BY <1>26, <2>3 DEF RestoreReadCurrent, browsers, server, tables, ghosts, TypeInv, Connected
<1>27. ASSUME NEW j \in Job, RestoreSafety(j) PROVE TypeInv'
  BY <1>27 DEF RestoreSafety, browsers, server, tables, ghosts, TypeInv,
    Hook, Handler, State, Update, Connected
<1>28. ASSUME NEW j \in Job, RestoreApply(j) PROVE TypeInv'
  BY <1>28 DEF RestoreApply, NoHandler, browsers, server, tables, ghosts,
    TypeInv, Hook, Handler, State, Update, Connected
<1>29. ASSUME NEW c \in Client, TokenExpires(c) PROVE TypeInv'
  BY <1>29 DEF TokenExpires, browsers, server, tables, ghosts, TypeInv, Hook,
    Handler, State, Update, Connected
<1>30. ASSUME NEW c \in Client, RenewToken(c) PROVE TypeInv'
  BY <1>30 DEF RenewToken, browsers, server, tables, ghosts, TypeInv, Hook,
    Handler, State, Update, Connected
<1>31. ASSUME NEW c \in Client, Refuse(c) PROVE TypeInv'
  BY <1>31 DEF Refuse, browsers, server, tables, ghosts, TypeInv, Hook,
    Handler, State, Update, Connected
<1>32. ASSUME UNCHANGED vars PROVE TypeInv'
  BY <1>32 DEF vars, browsers, server, tables, ghosts, TypeInv, Hook,
    Handler, State, Update, Connected
<1>q. QED
  BY <1>1, <1>2, <1>3, <1>4, <1>5, <1>6, <1>7, <1>8, <1>9, <1>10, <1>11, <1>12, <1>13,
     <1>14, <1>15, <1>16, <1>17, <1>18, <1>19, <1>20, <1>21, <1>22, <1>23, <1>24, <1>25,
     <1>26, <1>27, <1>28, <1>29, <1>30, <1>31, <1>32
  DEF Next

\* What is copied along the chain keeps its authors.
LEMMA VouchedStep ==
  ASSUME TypeInv, VouchedInv, [Next]_vars
  PROVE  VouchedInv'
<1>1. ASSUME NEW c \in Client, OpenPage(c) PROVE VouchedInv'
  BY <1>1 DEF OpenPage, browsers, server, tables, ghosts, VouchedInv,
    Vouched, TypeInv, Hook, Handler
<1>2. ASSUME NEW c \in Client, ClosePage(c) PROVE VouchedInv'
  BY <1>2 DEF ClosePage, browsers, server, tables, ghosts, VouchedInv,
    Vouched, TypeInv, Hook, Handler
<1>3. ASSUME NEW c \in Client, Drop(c) PROVE VouchedInv'
  BY <1>3 DEF Drop, browsers, server, tables, ghosts, VouchedInv,
    Vouched, TypeInv, Hook, Handler
<1>4. ASSUME NEW c \in Client, Connect(c) PROVE VouchedInv'
  BY <1>4, CollabAssumption DEF Connect, FetchDocument, browsers, server, tables, ghosts,
    VouchedInv, Vouched, TypeInv, Hook, Handler, AuthenticateDocument
<1>5. ASSUME NEW c \in Client, NEW r \in {"none", "read", "write"}, SetRole(c, r) PROVE VouchedInv'
  BY <1>5 DEF SetRole, browsers, server, tables, ghosts, VouchedInv,
    Vouched, TypeInv, Hook, Handler
<1>6. ASSUME NEW c \in Client, NEW n \in Number, Edit(c, n) PROVE VouchedInv'
  BY <1>6 DEF Edit, browsers, server, tables, ghosts, VouchedInv,
    Vouched, TypeInv, Hook, Handler, Update
<1>7. ASSUME NEW c \in Client, NEW u \in Update, Push(c, u) PROVE VouchedInv'
  BY <1>7, CollabAssumption DEF Push, browsers, server, tables, ghosts, VouchedInv,
    Vouched, TypeInv, Hook, Handler, Connected
<1>8. ASSUME NEW c \in Client, NEW u \in Update, Pull(c, u) PROVE VouchedInv'
  BY <1>8 DEF Pull, browsers, server, tables, ghosts, VouchedInv,
    Vouched, TypeInv, Hook, Handler
<1>9. ASSUME StoreBegin PROVE VouchedInv'
  BY <1>9 DEF StoreBegin, NoHook, browsers, server, tables, ghosts,
    VouchedInv, Vouched, TypeInv, Hook, Handler, Connected
<1>10. ASSUME StorePage PROVE VouchedInv'
  BY <1>10 DEF StorePage, Written, browsers, server, tables, ghosts,
    VouchedInv, Vouched, TypeInv, Hook, Handler
<1>11. ASSUME StoreSynced PROVE VouchedInv'
  BY <1>11 DEF StoreSynced, Written, NoHook, browsers, server, tables,
    ghosts, VouchedInv, Vouched, TypeInv, Hook, Handler
<1>12. ASSUME MaybeWriteSnapshot PROVE VouchedInv'
  BY <1>12 DEF MaybeWriteSnapshot, browsers, server, tables, ghosts,
    VouchedInv, Vouched, TypeInv, Hook, Handler
<1>13. ASSUME InsertSnapshot PROVE VouchedInv'
  BY <1>13 DEF InsertSnapshot, browsers, server, tables, ghosts,
    VouchedInv, Vouched, TypeInv, Hook, Handler
<1>14. ASSUME IndexReadPage PROVE VouchedInv'
  BY <1>14 DEF IndexReadPage, browsers, server, tables, ghosts,
    VouchedInv, Vouched, TypeInv, Hook, Handler
<1>15. ASSUME IndexPageBody PROVE VouchedInv'
  BY <1>15 DEF IndexPageBody, NoHook, Extract, browsers, server, tables,
    ghosts, VouchedInv, Vouched, TypeInv, Hook, Handler
<1>16. ASSUME HookFails PROVE VouchedInv'
  BY <1>16 DEF HookFails, NoHook, Fault, browsers, server, tables,
    ghosts, VouchedInv, Vouched, TypeInv, Hook, Handler
<1>17. ASSUME Lapse PROVE VouchedInv'
  BY <1>17 DEF Lapse, browsers, server, tables, ghosts, VouchedInv,
    Vouched, TypeInv, Hook, Handler
<1>18. ASSUME Unload PROVE VouchedInv'
  BY <1>18 DEF Unload, browsers, server, tables, ghosts, VouchedInv,
    Vouched, TypeInv, Hook, Handler
<1>19. ASSUME Stop PROVE VouchedInv'
  BY <1>19 DEF Stop, NoHook, Fault, browsers, server, tables, ghosts,
    VouchedInv, Vouched, TypeInv, Hook, Handler
<1>20. ASSUME NEW j \in Job, Rename(j) PROVE VouchedInv'
  BY <1>20 DEF Rename, NoHandler, browsers, server, tables, ghosts,
    VouchedInv, Vouched, TypeInv, Hook, Handler
<1>21. ASSUME NEW j \in Job, SyncTitleRead(j) PROVE VouchedInv'
  BY <1>21 DEF SyncTitleRead, browsers, server, tables, ghosts,
    VouchedInv, Vouched, TypeInv, Hook, Handler
<1>22. ASSUME NEW j \in Job, SyncTitleWrite(j) PROVE VouchedInv'
  BY <1>22 DEF SyncTitleWrite, NoHandler, browsers, server, tables,
    ghosts, VouchedInv, Vouched, TypeInv, Hook, Handler
<1>23. ASSUME NEW j \in Job, CreateVersion(j) PROVE VouchedInv'
  BY <1>23 DEF CreateVersion, NoHandler, browsers, server, tables,
    ghosts, VouchedInv, Vouched, TypeInv, Hook, Handler
<1>24. ASSUME NEW j \in Job, InsertVersion(j) PROVE VouchedInv'
  BY <1>24 DEF InsertVersion, NoHandler, browsers, server, tables,
    ghosts, VouchedInv, Vouched, TypeInv, Hook, Handler
<1>25. ASSUME NEW j \in Job, NEW v \in versions, Restore(j, v) PROVE VouchedInv'
  BY <1>25 DEF Restore, NoHandler, browsers, server, tables, ghosts,
    VouchedInv, Vouched, TypeInv, Hook, Handler
<1>26. ASSUME NEW j \in Job, RestoreReadCurrent(j) PROVE VouchedInv'
  BY <1>26 DEF RestoreReadCurrent, browsers, server, tables, ghosts,
    VouchedInv, Vouched, TypeInv, Hook, Handler
<1>27. ASSUME NEW j \in Job, RestoreSafety(j) PROVE VouchedInv'
  BY <1>27 DEF RestoreSafety, browsers, server, tables, ghosts,
    VouchedInv, Vouched, TypeInv, Hook, Handler
<1>28. ASSUME NEW j \in Job, RestoreApply(j) PROVE VouchedInv'
  BY <1>28 DEF RestoreApply, NoHandler, browsers, server, tables, ghosts,
    VouchedInv, Vouched, TypeInv, Hook, Handler
<1>29. ASSUME NEW c \in Client, TokenExpires(c) PROVE VouchedInv'
  BY <1>29 DEF TokenExpires, browsers, server, tables, ghosts, VouchedInv,
    Vouched, TypeInv, Hook, Handler
<1>30. ASSUME NEW c \in Client, RenewToken(c) PROVE VouchedInv'
  BY <1>30 DEF RenewToken, browsers, server, tables, ghosts, VouchedInv,
    Vouched, TypeInv, Hook, Handler
<1>31. ASSUME NEW c \in Client, Refuse(c) PROVE VouchedInv'
  BY <1>31 DEF Refuse, browsers, server, tables, ghosts, VouchedInv,
    Vouched, TypeInv, Hook, Handler
<1>32. ASSUME UNCHANGED vars PROVE VouchedInv'
  BY <1>32 DEF vars, browsers, server, tables, ghosts, VouchedInv,
    Vouched, TypeInv, Hook, Handler
<1>q. QED
  BY <1>1, <1>2, <1>3, <1>4, <1>5, <1>6, <1>7, <1>8, <1>9, <1>10, <1>11, <1>12, <1>13,
     <1>14, <1>15, <1>16, <1>17, <1>18, <1>19, <1>20, <1>21, <1>22, <1>23, <1>24, <1>25,
     <1>26, <1>27, <1>28, <1>29, <1>30, <1>31, <1>32
  DEF Next

\* The write lies between the row and the open document.
LEMMA OpenStep ==
  ASSUME TypeInv, OpenInv, [Next]_vars
  PROVE  OpenInv'
<1>1. ASSUME NEW c \in Client, OpenPage(c) PROVE OpenInv'
  BY <1>1 DEF OpenPage, browsers, server, tables, ghosts, OpenInv,
    TypeInv, Hook
<1>2. ASSUME NEW c \in Client, ClosePage(c) PROVE OpenInv'
  BY <1>2 DEF ClosePage, browsers, server, tables, ghosts, OpenInv,
    TypeInv, Hook
<1>3. ASSUME NEW c \in Client, Drop(c) PROVE OpenInv'
  BY <1>3 DEF Drop, browsers, server, tables, ghosts, OpenInv, TypeInv,
    Hook
<1>4. ASSUME NEW c \in Client, Connect(c) PROVE OpenInv'
  BY <1>4, CollabAssumption DEF Connect, FetchDocument, browsers, server, tables, ghosts,
    OpenInv, TypeInv, Hook, State
<1>5. ASSUME NEW c \in Client, NEW r \in {"none", "read", "write"}, SetRole(c, r) PROVE OpenInv'
  BY <1>5 DEF SetRole, browsers, server, tables, ghosts, OpenInv,
    TypeInv, Hook
<1>6. ASSUME NEW c \in Client, NEW n \in Number, Edit(c, n) PROVE OpenInv'
  BY <1>6 DEF Edit, browsers, server, tables, ghosts, OpenInv, TypeInv,
    Hook
<1>7. ASSUME NEW c \in Client, NEW u \in Update, Push(c, u) PROVE OpenInv'
  BY <1>7, CollabAssumption DEF Push, browsers, server, tables, ghosts, OpenInv, TypeInv,
    Hook, Connected
<1>8. ASSUME NEW c \in Client, NEW u \in Update, Pull(c, u) PROVE OpenInv'
  BY <1>8 DEF Pull, browsers, server, tables, ghosts, OpenInv, TypeInv,
    Hook
<1>9. ASSUME StoreBegin PROVE OpenInv'
  BY <1>9 DEF StoreBegin, NoHook, browsers, server, tables, ghosts,
    OpenInv, TypeInv, Hook
<1>10. ASSUME StorePage PROVE OpenInv'
  BY <1>10 DEF StorePage, Written, browsers, server, tables, ghosts,
    OpenInv, TypeInv, Hook
<1>11. ASSUME StoreSynced PROVE OpenInv'
  BY <1>11 DEF StoreSynced, Written, NoHook, browsers, server, tables,
    ghosts, OpenInv, TypeInv, Hook
<1>12. ASSUME MaybeWriteSnapshot PROVE OpenInv'
  BY <1>12 DEF MaybeWriteSnapshot, browsers, server, tables, ghosts,
    OpenInv, TypeInv, Hook
<1>13. ASSUME InsertSnapshot PROVE OpenInv'
  BY <1>13 DEF InsertSnapshot, browsers, server, tables, ghosts, OpenInv,
    TypeInv, Hook
<1>14. ASSUME IndexReadPage PROVE OpenInv'
  BY <1>14 DEF IndexReadPage, browsers, server, tables, ghosts, OpenInv,
    TypeInv, Hook
<1>15. ASSUME IndexPageBody PROVE OpenInv'
  BY <1>15 DEF IndexPageBody, NoHook, Extract, browsers, server, tables,
    ghosts, OpenInv, TypeInv, Hook
<1>16. ASSUME HookFails PROVE OpenInv'
  BY <1>16 DEF HookFails, NoHook, Fault, browsers, server, tables,
    ghosts, OpenInv, TypeInv, Hook
<1>17. ASSUME Lapse PROVE OpenInv'
  BY <1>17 DEF Lapse, browsers, server, tables, ghosts, OpenInv, TypeInv,
    Hook
<1>18. ASSUME Unload PROVE OpenInv'
  BY <1>18 DEF Unload, browsers, server, tables, ghosts, OpenInv,
    TypeInv, Hook
<1>19. ASSUME Stop PROVE OpenInv'
  BY <1>19 DEF Stop, NoHook, Fault, browsers, server, tables, ghosts,
    OpenInv, TypeInv, Hook
<1>20. ASSUME NEW j \in Job, Rename(j) PROVE OpenInv'
  BY <1>20 DEF Rename, NoHandler, browsers, server, tables, ghosts,
    OpenInv, TypeInv, Hook
<1>21. ASSUME NEW j \in Job, SyncTitleRead(j) PROVE OpenInv'
  BY <1>21 DEF SyncTitleRead, browsers, server, tables, ghosts, OpenInv,
    TypeInv, Hook
<1>22. ASSUME NEW j \in Job, SyncTitleWrite(j) PROVE OpenInv'
  BY <1>22 DEF SyncTitleWrite, NoHandler, browsers, server, tables,
    ghosts, OpenInv, TypeInv, Hook
<1>23. ASSUME NEW j \in Job, CreateVersion(j) PROVE OpenInv'
  BY <1>23 DEF CreateVersion, NoHandler, browsers, server, tables,
    ghosts, OpenInv, TypeInv, Hook
<1>24. ASSUME NEW j \in Job, InsertVersion(j) PROVE OpenInv'
  BY <1>24 DEF InsertVersion, NoHandler, browsers, server, tables,
    ghosts, OpenInv, TypeInv, Hook
<1>25. ASSUME NEW j \in Job, NEW v \in versions, Restore(j, v) PROVE OpenInv'
  BY <1>25 DEF Restore, NoHandler, browsers, server, tables, ghosts,
    OpenInv, TypeInv, Hook
<1>26. ASSUME NEW j \in Job, RestoreReadCurrent(j) PROVE OpenInv'
  BY <1>26 DEF RestoreReadCurrent, browsers, server, tables, ghosts,
    OpenInv, TypeInv, Hook
<1>27. ASSUME NEW j \in Job, RestoreSafety(j) PROVE OpenInv'
  BY <1>27 DEF RestoreSafety, browsers, server, tables, ghosts, OpenInv,
    TypeInv, Hook
<1>28. ASSUME NEW j \in Job, RestoreApply(j) PROVE OpenInv'
  BY <1>28 DEF RestoreApply, NoHandler, browsers, server, tables, ghosts,
    OpenInv, TypeInv, Hook
<1>29. ASSUME NEW c \in Client, TokenExpires(c) PROVE OpenInv'
  BY <1>29 DEF TokenExpires, browsers, server, tables, ghosts, OpenInv,
    TypeInv, Hook, Handler, Connected
<1>30. ASSUME NEW c \in Client, RenewToken(c) PROVE OpenInv'
  BY <1>30 DEF RenewToken, browsers, server, tables, ghosts, OpenInv,
    TypeInv, Hook, Handler, Connected
<1>31. ASSUME NEW c \in Client, Refuse(c) PROVE OpenInv'
  BY <1>31 DEF Refuse, browsers, server, tables, ghosts, OpenInv,
    TypeInv, Hook, Handler, Connected
<1>32. ASSUME UNCHANGED vars PROVE OpenInv'
  BY <1>32 DEF vars, browsers, server, tables, ghosts, OpenInv, TypeInv,
    Hook
<1>q. QED
  BY <1>1, <1>2, <1>3, <1>4, <1>5, <1>6, <1>7, <1>8, <1>9, <1>10, <1>11, <1>12, <1>13,
     <1>14, <1>15, <1>16, <1>17, <1>18, <1>19, <1>20, <1>21, <1>22, <1>23, <1>24, <1>25,
     <1>26, <1>27, <1>28, <1>29, <1>30, <1>31, <1>32
  DEF Next

\* Versions are states the row has had.
LEMMA ListStep ==
  ASSUME TypeInv, ListInv, [Next]_vars
  PROVE  ListInv'
<1>1. ASSUME NEW c \in Client, OpenPage(c) PROVE ListInv'
  BY <1>1 DEF OpenPage, browsers, server, tables, ghosts, ListInv,
    TypeInv, Hook, Handler
<1>2. ASSUME NEW c \in Client, ClosePage(c) PROVE ListInv'
  BY <1>2 DEF ClosePage, browsers, server, tables, ghosts, ListInv,
    TypeInv, Hook, Handler
<1>3. ASSUME NEW c \in Client, Drop(c) PROVE ListInv'
  BY <1>3 DEF Drop, browsers, server, tables, ghosts, ListInv, TypeInv,
    Hook, Handler
<1>4. ASSUME NEW c \in Client, Connect(c) PROVE ListInv'
  BY <1>4, CollabAssumption DEF Connect, FetchDocument, browsers, server, tables, ghosts,
    ListInv, TypeInv, Hook, Handler, State
<1>5. ASSUME NEW c \in Client, NEW r \in {"none", "read", "write"}, SetRole(c, r) PROVE ListInv'
  BY <1>5 DEF SetRole, browsers, server, tables, ghosts, ListInv,
    TypeInv, Hook, Handler
<1>6. ASSUME NEW c \in Client, NEW n \in Number, Edit(c, n) PROVE ListInv'
  BY <1>6 DEF Edit, browsers, server, tables, ghosts, ListInv, TypeInv,
    Hook, Handler
<1>7. ASSUME NEW c \in Client, NEW u \in Update, Push(c, u) PROVE ListInv'
  BY <1>7, CollabAssumption DEF Push, browsers, server, tables, ghosts, ListInv, TypeInv,
    Hook, Handler, Connected
<1>8. ASSUME NEW c \in Client, NEW u \in Update, Pull(c, u) PROVE ListInv'
  BY <1>8 DEF Pull, browsers, server, tables, ghosts, ListInv, TypeInv,
    Hook, Handler
<1>9. ASSUME StoreBegin PROVE ListInv'
  BY <1>9 DEF StoreBegin, NoHook, browsers, server, tables, ghosts,
    ListInv, TypeInv, Hook, Handler
<1>10. ASSUME StorePage PROVE ListInv'
  BY <1>10 DEF StorePage, Written, browsers, server, tables, ghosts,
    ListInv, TypeInv, Hook, Handler
<1>11. ASSUME StoreSynced PROVE ListInv'
  BY <1>11 DEF StoreSynced, Written, NoHook, browsers, server, tables,
    ghosts, ListInv, TypeInv, Hook, Handler
<1>12. ASSUME MaybeWriteSnapshot PROVE ListInv'
  BY <1>12 DEF MaybeWriteSnapshot, browsers, server, tables, ghosts,
    ListInv, TypeInv, Hook, Handler
<1>13. ASSUME InsertSnapshot PROVE ListInv'
  BY <1>13 DEF InsertSnapshot, browsers, server, tables, ghosts, ListInv,
    TypeInv, Hook, Handler
<1>14. ASSUME IndexReadPage PROVE ListInv'
  BY <1>14 DEF IndexReadPage, browsers, server, tables, ghosts, ListInv,
    TypeInv, Hook, Handler
<1>15. ASSUME IndexPageBody PROVE ListInv'
  BY <1>15 DEF IndexPageBody, NoHook, Extract, browsers, server, tables,
    ghosts, ListInv, TypeInv, Hook, Handler
<1>16. ASSUME HookFails PROVE ListInv'
  BY <1>16 DEF HookFails, NoHook, Fault, browsers, server, tables,
    ghosts, ListInv, TypeInv, Hook, Handler
<1>17. ASSUME Lapse PROVE ListInv'
  BY <1>17 DEF Lapse, browsers, server, tables, ghosts, ListInv, TypeInv,
    Hook, Handler
<1>18. ASSUME Unload PROVE ListInv'
  BY <1>18 DEF Unload, browsers, server, tables, ghosts, ListInv,
    TypeInv, Hook, Handler
<1>19. ASSUME Stop PROVE ListInv'
  BY <1>19 DEF Stop, NoHook, Fault, browsers, server, tables, ghosts,
    ListInv, TypeInv, Hook, Handler
<1>20. ASSUME NEW j \in Job, Rename(j) PROVE ListInv'
  BY <1>20 DEF Rename, NoHandler, browsers, server, tables, ghosts,
    ListInv, TypeInv, Hook, Handler
<1>21. ASSUME NEW j \in Job, SyncTitleRead(j) PROVE ListInv'
  BY <1>21 DEF SyncTitleRead, browsers, server, tables, ghosts, ListInv,
    TypeInv, Hook, Handler
<1>22. ASSUME NEW j \in Job, SyncTitleWrite(j) PROVE ListInv'
  BY <1>22 DEF SyncTitleWrite, NoHandler, browsers, server, tables,
    ghosts, ListInv, TypeInv, Hook, Handler
<1>23. ASSUME NEW j \in Job, CreateVersion(j) PROVE ListInv'
  BY <1>23 DEF CreateVersion, NoHandler, browsers, server, tables,
    ghosts, ListInv, TypeInv, Hook, Handler
<1>24. ASSUME NEW j \in Job, InsertVersion(j) PROVE ListInv'
  BY <1>24 DEF InsertVersion, NoHandler, browsers, server, tables,
    ghosts, ListInv, TypeInv, Hook, Handler
<1>25. ASSUME NEW j \in Job, NEW v \in versions, Restore(j, v) PROVE ListInv'
  BY <1>25 DEF Restore, NoHandler, browsers, server, tables, ghosts,
    ListInv, TypeInv, Hook, Handler
<1>26. ASSUME NEW j \in Job, RestoreReadCurrent(j) PROVE ListInv'
  BY <1>26 DEF RestoreReadCurrent, browsers, server, tables, ghosts,
    ListInv, TypeInv, Hook, Handler
<1>27. ASSUME NEW j \in Job, RestoreSafety(j) PROVE ListInv'
  BY <1>27 DEF RestoreSafety, browsers, server, tables, ghosts, ListInv,
    TypeInv, Hook, Handler
<1>28. ASSUME NEW j \in Job, RestoreApply(j) PROVE ListInv'
  BY <1>28 DEF RestoreApply, NoHandler, browsers, server, tables, ghosts,
    ListInv, TypeInv, Hook, Handler
<1>29. ASSUME NEW c \in Client, TokenExpires(c) PROVE ListInv'
  BY <1>29 DEF TokenExpires, browsers, server, tables, ghosts, ListInv, TypeInv, Hook,
    Handler
<1>30. ASSUME NEW c \in Client, RenewToken(c) PROVE ListInv'
  BY <1>30 DEF RenewToken, browsers, server, tables, ghosts, ListInv, TypeInv, Hook,
    Handler
<1>31. ASSUME NEW c \in Client, Refuse(c) PROVE ListInv'
  BY <1>31 DEF Refuse, browsers, server, tables, ghosts, ListInv, TypeInv, Hook,
    Handler
<1>32. ASSUME UNCHANGED vars PROVE ListInv'
  BY <1>32 DEF vars, browsers, server, tables, ghosts, ListInv, TypeInv,
    Hook, Handler
<1>q. QED
  BY <1>1, <1>2, <1>3, <1>4, <1>5, <1>6, <1>7, <1>8, <1>9, <1>10, <1>11, <1>12, <1>13,
     <1>14, <1>15, <1>16, <1>17, <1>18, <1>19, <1>20, <1>21, <1>22, <1>23, <1>24, <1>25,
     <1>26, <1>27, <1>28, <1>29, <1>30, <1>31, <1>32
  DEF Next

\* One writer of the search row at a time, or they crossed.
LEMMA IndexStep ==
  ASSUME TypeInv, IndexInv, [Next]_vars
  PROVE  IndexInv'
<1>1. ASSUME NEW c \in Client, OpenPage(c) PROVE IndexInv'
  BY <1>1 DEF OpenPage, browsers, server, tables, ghosts, IndexInv, TypeInv, Hook, Handler,
    Indexing, HookIndexes
<1>2. ASSUME NEW c \in Client, ClosePage(c) PROVE IndexInv'
  BY <1>2 DEF ClosePage, browsers, server, tables, ghosts, IndexInv, TypeInv, Hook,
    Handler, Indexing, HookIndexes
<1>3. ASSUME NEW c \in Client, Drop(c) PROVE IndexInv'
  BY <1>3 DEF Drop, browsers, server, tables, ghosts, IndexInv, TypeInv, Hook, Handler,
    Indexing, HookIndexes
<1>4. ASSUME NEW c \in Client, Connect(c) PROVE IndexInv'
  BY <1>4 DEF Connect, FetchDocument, browsers, server, tables, ghosts, IndexInv, TypeInv,
    Hook, Handler, Indexing, HookIndexes
<1>5. ASSUME NEW c \in Client, NEW r \in {"none", "read", "write"}, SetRole(c, r) PROVE IndexInv'
  BY <1>5 DEF SetRole, browsers, server, tables, ghosts, IndexInv, TypeInv, Hook, Handler,
    Indexing, HookIndexes
<1>6. ASSUME NEW c \in Client, NEW n \in Number, Edit(c, n) PROVE IndexInv'
  BY <1>6 DEF Edit, browsers, server, tables, ghosts, IndexInv, TypeInv, Hook, Handler,
    Indexing, HookIndexes
<1>7. ASSUME NEW c \in Client, NEW u \in Update, Push(c, u) PROVE IndexInv'
  BY <1>7 DEF Push, browsers, server, tables, ghosts, IndexInv, TypeInv, Hook, Handler,
    Indexing, HookIndexes
<1>8. ASSUME NEW c \in Client, NEW u \in Update, Pull(c, u) PROVE IndexInv'
  BY <1>8 DEF Pull, browsers, server, tables, ghosts, IndexInv, TypeInv, Hook, Handler,
    Indexing, HookIndexes
<1>9. ASSUME StoreBegin PROVE IndexInv'
  BY <1>9 DEF StoreBegin, NoHook, browsers, server, tables, ghosts, IndexInv, TypeInv,
    Hook, Handler, Indexing, HookIndexes
<1>10. ASSUME StorePage PROVE IndexInv'
  BY <1>10 DEF StorePage, Written, browsers, server, tables, ghosts, IndexInv, TypeInv,
    Hook, Handler, Indexing, HookIndexes, Extract
<1>11. ASSUME StoreSynced PROVE IndexInv'
  BY <1>11 DEF StoreSynced, Written, NoHook, browsers, server, tables, ghosts, IndexInv,
    TypeInv, Hook, Handler, Indexing, HookIndexes
<1>12. ASSUME MaybeWriteSnapshot PROVE IndexInv'
  BY <1>12 DEF MaybeWriteSnapshot, browsers, server, tables, ghosts, IndexInv, TypeInv,
    Hook, Handler, Indexing, HookIndexes
<1>13. ASSUME InsertSnapshot PROVE IndexInv'
  BY <1>13 DEF InsertSnapshot, browsers, server, tables, ghosts, IndexInv, TypeInv, Hook,
    Handler, Indexing, HookIndexes
<1>14. ASSUME IndexReadPage PROVE IndexInv'
  BY <1>14 DEF IndexReadPage, browsers, server, tables, ghosts, IndexInv, TypeInv, Hook,
    Handler, Indexing, HookIndexes
<1>15. ASSUME IndexPageBody PROVE IndexInv'
  BY <1>15 DEF IndexPageBody, NoHook, Extract, browsers, server, tables, ghosts, IndexInv,
    TypeInv, Hook, Handler, Indexing, HookIndexes, Extract
<1>16. ASSUME HookFails PROVE IndexInv'
  BY <1>16 DEF HookFails, NoHook, Fault, browsers, server, tables, ghosts, IndexInv,
    TypeInv, Hook, Handler, Indexing, HookIndexes
<1>17. ASSUME Lapse PROVE IndexInv'
  BY <1>17 DEF Lapse, browsers, server, tables, ghosts, IndexInv, TypeInv, Hook, Handler,
    Indexing, HookIndexes
<1>18. ASSUME Unload PROVE IndexInv'
  BY <1>18 DEF Unload, browsers, server, tables, ghosts, IndexInv, TypeInv, Hook, Handler,
    Indexing, HookIndexes
<1>19. ASSUME Stop PROVE IndexInv'
  BY <1>19 DEF Stop, NoHook, Fault, browsers, server, tables, ghosts, IndexInv, TypeInv,
    Hook, Handler, Indexing, HookIndexes
<1>20. ASSUME NEW j \in Job, Rename(j) PROVE IndexInv'
  <2>1. job' = [job EXCEPT ![j] = [NoHandler EXCEPT !.pc = "title"]]
    BY <1>20 DEF Rename
  <2>2. job'[j].pc = "title" /\ \A k \in Job : k # j => job'[k] = job[k]
    BY <2>1 DEF TypeInv, NoHandler
  <2>3. Indexing' = Indexing \cup {j}
    BY <2>2 DEF Indexing
  <2>4. UNCHANGED <<kind, store, row, index, turned, faults>> /\ HookIndexes' = HookIndexes
    BY <1>20 DEF Rename, server, HookIndexes
  <2>5. ASSUME ~crossed' PROVE Indexing = {} /\ ~HookIndexes
    BY <1>20, <2>5 DEF Rename
  <2>6. ASSUME ~crossed' PROVE \A k \in Job : job'[k].pc # "upsert"
    BY <2>2, <2>5, <2>6 DEF Indexing
  <2>7. ASSUME ~crossed' PROVE /\ Indexing' = {j} /\ ~HookIndexes' /\ store'.pc # "index"
    BY <2>3, <2>4, <2>5, <2>7 DEF HookIndexes
  <2>8. ASSUME faults' = 0, kind' = "page", ~turned'
        PROVE  IF store'.pc \in {"idle", "write"} THEN index'.body = Extract(row')
               ELSE store'.state = row'
    BY <2>4, <2>8 DEF IndexInv, Extract
  <2>q. QED
    BY <2>6, <2>7, <2>8 DEF IndexInv, Extract
<1>21. ASSUME NEW j \in Job, SyncTitleRead(j) PROVE IndexInv'
  BY <1>21 DEF SyncTitleRead, browsers, server, tables, ghosts, IndexInv, TypeInv, Hook,
    Handler, Indexing, HookIndexes
<1>22. ASSUME NEW j \in Job, SyncTitleWrite(j) PROVE IndexInv'
  BY <1>22 DEF SyncTitleWrite, NoHandler, browsers, server, tables, ghosts, IndexInv,
    TypeInv, Hook, Handler, Indexing, HookIndexes
<1>23. ASSUME NEW j \in Job, CreateVersion(j) PROVE IndexInv'
  BY <1>23 DEF CreateVersion, NoHandler, browsers, server, tables, ghosts, IndexInv,
    TypeInv, Hook, Handler, Indexing, HookIndexes, Free
<1>24. ASSUME NEW j \in Job, InsertVersion(j) PROVE IndexInv'
  BY <1>24 DEF InsertVersion, NoHandler, browsers, server, tables, ghosts, IndexInv,
    TypeInv, Hook, Handler, Indexing, HookIndexes
<1>25. ASSUME NEW j \in Job, NEW v \in versions, Restore(j, v) PROVE IndexInv'
  BY <1>25 DEF Restore, NoHandler, browsers, server, tables, ghosts, IndexInv, TypeInv,
    Hook, Handler, Indexing, HookIndexes, Free
<1>26. ASSUME NEW j \in Job, RestoreReadCurrent(j) PROVE IndexInv'
  BY <1>26 DEF RestoreReadCurrent, browsers, server, tables, ghosts, IndexInv, TypeInv,
    Hook, Handler, Indexing, HookIndexes
<1>27. ASSUME NEW j \in Job, RestoreSafety(j) PROVE IndexInv'
  BY <1>27 DEF RestoreSafety, browsers, server, tables, ghosts, IndexInv, TypeInv, Hook,
    Handler, Indexing, HookIndexes
<1>28. ASSUME NEW j \in Job, RestoreApply(j) PROVE IndexInv'
  BY <1>28 DEF RestoreApply, NoHandler, browsers, server, tables, ghosts, IndexInv,
    TypeInv, Hook, Handler, Indexing, HookIndexes
<1>29. ASSUME NEW c \in Client, TokenExpires(c) PROVE IndexInv'
  BY <1>29 DEF TokenExpires, browsers, server, tables, ghosts, IndexInv, TypeInv, Hook, Handler,
    Indexing, HookIndexes
<1>30. ASSUME NEW c \in Client, RenewToken(c) PROVE IndexInv'
  BY <1>30 DEF RenewToken, browsers, server, tables, ghosts, IndexInv, TypeInv, Hook, Handler,
    Indexing, HookIndexes
<1>31. ASSUME NEW c \in Client, Refuse(c) PROVE IndexInv'
  BY <1>31 DEF Refuse, browsers, server, tables, ghosts, IndexInv, TypeInv, Hook, Handler,
    Indexing, HookIndexes
<1>32. ASSUME UNCHANGED vars PROVE IndexInv'
  BY <1>32 DEF vars, browsers, server, tables, ghosts, IndexInv, TypeInv, Hook, Handler,
    Indexing, HookIndexes, Extract
<1>q. QED
  BY <1>1, <1>2, <1>3, <1>4, <1>5, <1>6, <1>7, <1>8, <1>9, <1>10, <1>11, <1>12, <1>13,
     <1>14, <1>15, <1>16, <1>17, <1>18, <1>19, <1>20, <1>21, <1>22, <1>23, <1>24, <1>25,
     <1>26, <1>27, <1>28, <1>29, <1>30, <1>31, <1>32
  DEF Next

\* Together they are inductive.
DocInv == TypeInv /\ VouchedInv /\ ChainInv /\ IndexInv

\* Nobody has typed anything.
LEMMA DocInit == Init => DocInv
<1> SUFFICES ASSUME Init PROVE DocInv
  OBVIOUS
<1>1. store \in Hook /\ job \in [Job -> Handler]
  BY DEF Init, NoHook, NoHandler, Hook, Handler, State
<1>2. Connected = {}
  BY DEF Init, Connected
<1>3. TypeInv
  BY <1>1, <1>2 DEF Init, NoHook, TypeInv, State
<1>4. VouchedInv
  BY DEF Init, NoHook, NoHandler, VouchedInv, Vouched
<1>5. ChainInv
  BY DEF Init, NoHook, NoHandler, ChainInv, OpenInv, ListInv
<1>6. IndexInv
  BY DEF Init, NoHook, NoHandler, IndexInv, Indexing, HookIndexes, Extract
<1>q. QED
  BY <1>3, <1>4, <1>5, <1>6 DEF DocInv

\* The document and all its copies keep these invariants.
THEOREM DocInvariant == Spec => []DocInv
<1>1. Init => DocInv
  BY DocInit
<1>2. DocInv /\ [Next]_vars => DocInv'
  BY TypeStep, VouchedStep, OpenStep, ListStep, IndexStep DEF DocInv, ChainInv
<1>q. QED
  BY <1>1, <1>2, PTL DEF Spec

\* What somebody typed who never had a writable connection is in none of the
\* copies, whatever their number and however access changed in between.
THEOREM ReadersWriteNothing == Spec => []ReadersNeverWrite
<1>1. ASSUME DocInv PROVE ReadersNeverWrite
  <2> SUFFICES ASSUME NEW u \in (UNION versions) \cup row \cup index.body
                                   \cup (IF live = Closed THEN {} ELSE live)
               PROVE  u[1] \in writers
    BY DEF ReadersNeverWrite
  <2>1. CASE u \in UNION versions
    <3>1. PICK v \in versions : u \in v
      BY <2>1
    <3>q. QED
      BY <1>1, <3>1 DEF DocInv, VouchedInv, Vouched
  <2>2. CASE u \in row \cup index.body
    BY <1>1, <2>2 DEF DocInv, VouchedInv, Vouched
  <2>3. CASE u \in IF live = Closed THEN {} ELSE live
    <3>1. live # Closed /\ u \in live
      BY <2>3
    <3>q. QED
      BY <1>1, <3>1 DEF DocInv, VouchedInv, Vouched
  <2>q. QED
    BY <2>1, <2>2, <2>3
<1>q. QED
  BY <1>1, DocInvariant, PTL

\* The open document is stored, or a store is due or under way, or something broke.
THEOREM StoreIsDue == Spec => []DueOrStored
<1>1. DocInv => DueOrStored
  BY DEF DocInv, TypeInv, ChainInv, OpenInv, DueOrStored
<1>q. QED
  BY <1>1, DocInvariant, PTL

\* The search row has the page's title and text when nobody is at it, unless the hook
\* and a rename crossed, a write failed, or a restore came.
THEOREM SearchRowSettles == Spec => []IndexSettles
<1>1. DocInv => IndexSettles
  BY DEF DocInv, IndexInv, HookIndexes, IndexSettles
<1>q. QED
  BY <1>1, DocInvariant, PTL

\* Every step is one of PageHistory, or changes nothing of it.
LEMMA HistoryStep ==
  ASSUME DocInv, [Next]_vars
  PROVE  [History!Next]_History!vars
<1> USE DEF DocInv
<1>1. ASSUME NEW c \in Client, Connect(c) PROVE History!Open \/ UNCHANGED History!vars
  BY <1>1 DEF Connect, FetchDocument, tables, History!Open, History!vars
<1>2. ASSUME NEW c \in Client, NEW u \in Update, Push(c, u) PROVE History!Accept
  BY <1>2 DEF Push, tables, ghosts, TypeInv, Connected, State, History!Accept
<1>3. ASSUME StorePage \/ StoreSynced PROVE History!Save
  BY <1>3 DEF StorePage, StoreSynced, Written, TypeInv, ChainInv, OpenInv, State, History!Save
<1>4. ASSUME InsertSnapshot PROVE History!Capture
  BY <1>4 DEF InsertSnapshot, ChainInv, ListInv, History!Capture
<1>5. ASSUME NEW j \in Job, InsertVersion(j) \/ RestoreSafety(j) PROVE History!Capture
  BY <1>5 DEF InsertVersion, RestoreSafety, server, ghosts, ChainInv, ListInv, History!Capture
<1>6. ASSUME NEW j \in Job, RestoreApply(j) PROVE History!Restore
  BY <1>6 DEF RestoreApply, server, ChainInv, ListInv, History!Restore
<1>7. ASSUME Unload PROVE History!Close
  BY <1>7 DEF Unload, tables, ghosts, TypeInv, ChainInv, OpenInv, History!Close
<1>8. ASSUME HookFails \/ Stop PROVE History!Break
  BY <1>8 DEF HookFails, Stop, Fault, tables, History!Break
<1>9. ASSUME NEW c \in Client,
             \/ OpenPage(c) \/ ClosePage(c) \/ Drop(c) \/ TokenExpires(c) \/ RenewToken(c) \/ Refuse(c)
             \/ \E r \in {"none", "read", "write"} : SetRole(c, r)
             \/ \E n \in Number : Edit(c, n)
             \/ \E u \in Update : Pull(c, u)
      PROVE  UNCHANGED History!vars
  BY <1>9 DEF OpenPage, ClosePage, Drop, TokenExpires, RenewToken, Refuse, SetRole, Edit, Pull, server, tables, ghosts, History!vars
<1>10. ASSUME \/ StoreBegin \/ MaybeWriteSnapshot \/ IndexReadPage \/ IndexPageBody \/ Lapse
       PROVE  UNCHANGED History!vars
  BY <1>10 DEF StoreBegin, MaybeWriteSnapshot, IndexReadPage, IndexPageBody, Lapse,
               tables, ghosts, History!vars
<1>11. ASSUME NEW j \in Job,
              \/ Rename(j) \/ SyncTitleRead(j) \/ SyncTitleWrite(j) \/ CreateVersion(j)
              \/ \E v \in versions : Restore(j, v)
              \/ RestoreReadCurrent(j)
       PROVE  UNCHANGED History!vars
  BY <1>11 DEF Rename, SyncTitleRead, SyncTitleWrite, CreateVersion, Restore,
               RestoreReadCurrent, server, tables, ghosts, History!vars
<1>12. ASSUME UNCHANGED vars PROVE UNCHANGED History!vars
  BY <1>12 DEF vars, server, tables, ghosts, History!vars
<1>q. QED
  BY <1>1, <1>2, <1>3, <1>4, <1>5, <1>6, <1>7, <1>8, <1>9, <1>10, <1>11, <1>12
  DEF Next, History!Next

\* The sync server, the browsers and the version history together keep what
\* PageHistory promises of the document.
THEOREM ImplementsHistory == Spec => KeepsHistory
<1>1. Init => History!Init
  BY DEF Init, History!Init
<1>2. DocInv /\ [Next]_vars => [History!Next]_History!vars
  BY HistoryStep
<1>q. QED
  BY <1>1, <1>2, DocInvariant, PTL DEF Spec, KeepsHistory, History!Spec
=============================================================================
