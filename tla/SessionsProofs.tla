--------------------------- MODULE SessionsProofs ---------------------------
(***************************************************************************)
(* Proofs about the sessions of an account, for any number of tabs, calls, *)
(* handlers, tokens and links, and without the bounds on what happens.     *)
(*                                                                         *)
(* The argument.  revokeAll reaches the rows there are; what can live on   *)
(* is what a handler mints that was past its last check by then.  So the   *)
(* invariants follow a handler from its check to its insert: EndInv says   *)
(* that a refresh about to insert for an ended session is late, ResetInv   *)
(* that a handler about to insert with an outdated password is late too,   *)
(* unless a reset has still to revoke.                                     *)
(*                                                                         *)
(* LiveInv follows a token from the refresh that finds it good: in a       *)
(* session that did not race one token is current, and one refresh at most *)
(* is about to replace it.  CalmInv follows what each tab holds: as long   *)
(* as nothing fails, no token is in two hands.                             *)
(***************************************************************************)
EXTENDS Sessions, FiniteSetTheorems, TLAPS

\* The part of TypeOK that is not about handlers; a call under way has a tab,
\* and a session is named by the token its sign-in minted.
StoreOK ==
  /\ token \in [Token -> Row]
  /\ password \in Nat
  /\ link \in [Link -> {"none", "mailed", "used"}]
  /\ memory \in [Tab -> Minted \cup {None}]
  /\ disk \in Minted \cup {None}
  /\ call \in [Call -> [pc : {"idle", "sent", "waiting", "again"}, tab : Tab \cup {None}]]
  /\ \A c \in Call : call[c].pc # "idle" => call[c].tab \in Tab
  /\ \A x \in Minted : token[x].session \in Minted
  /\ raced \subseteq Minted /\ ended \subseteq Minted
  /\ calm \in BOOLEAN /\ cutShort \in BOOLEAN
  /\ faults \in 0..MaxFaults /\ events \in 0..MaxEvents

\* Where a refresh is bound to hold a token that was minted.
Exchanging == {"find", "create", "retire"}

\* What a handler at each step holds: a free slot serves no tab, a refresh has
\* a token that was minted.
HandlerOK(h) ==
  /\ h.tok \in Minted \cup {None} /\ h.new \in Minted \cup {None}
  /\ h.pc = "idle" => h.tab = None
  /\ h.pc = "retire" => h.op = "rotate"
  /\ h.op = "rotate" /\ h.pc \in Exchanging => h.tok \in Minted

\* refreshInFlight of tab t is None or names the refresh that serves t.
FlightOK(t) ==
  refreshing[t] # None => job[refreshing[t]].op = "rotate" /\ job[refreshing[t]].tab = t

JobsOK ==
  /\ job \in [Job -> Handler]
  /\ refreshing \in [Tab -> Job \cup {None}]
  /\ \A j \in Job : HandlerOK(job[j])
  /\ \A t \in Tab : FlightOK(t)

TypeInv == StoreOK /\ JobsOK

\* A refresh that has found its token good either was there when the session
\* ended, or found a token that itself was minted late.
EndInv ==
  /\ RevokedSessionsStayEnded
  /\ \A j \in Job : /\ job[j].op = "rotate" /\ job[j].pc = "create"
                    /\ token[job[j].tok].session \in ended
                    => job[j].late \/ token[job[j].tok].late

\* A reset that has changed the password has still to revoke the tokens, or
\* never will.
Revoking(h) == h.op = "reset" /\ h.pc = "revokeAll"
Unfinished == cutShort \/ \E j \in Job : Revoking(job[j])

\* A handler about to mint a token with an outdated password is late, or a
\* reset is unfinished.
ResetInv ==
  /\ ResetEndsOldSessions
  /\ \A j \in Job : /\ job[j].op = "rotate" /\ job[j].pc = "create"
                    /\ token[job[j].tok].secret # password
                    => job[j].late \/ token[job[j].tok].late \/ Unfinished
  /\ \A j \in Job : /\ job[j].op = "login" /\ job[j].pc = "create"
                    /\ job[j].secret # password
                    => job[j].late \/ Unfinished

----------------------------------------------------------------------------
(* Types. *)

CallRecord == [pc : {"idle", "sent", "waiting", "again"}, tab : Tab \cup {None}]

LEMMA NewRecords == NoHandler \in Handler /\ NoRow \in Row /\ NoCall \in CallRecord
BY DEF NoHandler, NoRow, Handler, Row, NoCall, CallRecord

LEMMA TypeInvType == TypeInv => TypeOK
BY DEF Minted, TypeInv, StoreOK, JobsOK, HandlerOK, FlightOK, TypeOK

LEMMA TypeInit == Init => TypeInv
<1> SUFFICES ASSUME Init PROVE TypeInv
  OBVIOUS
<1>1. StoreOK
  <2>1. /\ token \in [Token -> Row]
        /\ memory \in [Tab -> Minted \cup {None}]
        /\ call \in [Call -> CallRecord]
        /\ \A c \in Call : call[c].pc = "idle"
        /\ Minted = {}
    BY NewRecords DEF Init, NoCall, NoRow, Minted
  <2>2. calm \in BOOLEAN /\ cutShort \in BOOLEAN
    BY DEF Init
  <2>3. 0 \in 0..MaxFaults /\ 0 \in 0..MaxEvents
    BY SessionAssumption DEF SessionAssumption
  <2>4. link \in [Link -> {"none", "mailed", "used"}]
    BY DEF Init
  <2> QED
    BY <2>1, <2>2, <2>3, <2>4 DEF Init, StoreOK, CallRecord
<1>2. JobsOK
  BY SessionAssumption, NewRecords
     DEF SessionAssumption, Init, JobsOK, HandlerOK, FlightOK, NoHandler, Exchanging
<1> QED
  BY <1>1, <1>2 DEF TypeInv

\* A step of one handler: what must be shown of its new record and of the tabs
\* that wait for it.
LEMMA OneHandler ==
  ASSUME JobsOK, NEW j \in Job, job' \in [Job -> Handler],
         \A k \in Job \ {j} : job'[k] = job[k],
         Minted \subseteq Minted',
         HandlerOK(job[j])',
         refreshing' \in [Tab -> Job \cup {None}],
         \A t \in Tab : refreshing'[t] # None =>
            \/ refreshing'[t] = refreshing[t] /\ refreshing[t] # j
            \/ refreshing'[t] = j /\ job'[j].op = "rotate" /\ job'[j].tab = t
  PROVE  JobsOK'
<1>1. \A k \in Job : HandlerOK(job[k])'
  <2> SUFFICES ASSUME NEW k \in Job, k # j PROVE HandlerOK(job[k])'
    OBVIOUS
  <2>1. HandlerOK(job[k]) /\ job'[k] = job[k]
    BY DEF JobsOK
  <2> QED
    BY <2>1 DEF HandlerOK
<1>2. \A t \in Tab : FlightOK(t)'
  BY DEF JobsOK, FlightOK
<1> QED
  BY <1>1, <1>2 DEF JobsOK

LEMMA SameHandlers ==
  ASSUME JobsOK, job' = job, refreshing' = refreshing, Minted \subseteq Minted'
  PROVE  JobsOK'
<1>1. \A k \in Job : HandlerOK(job[k])'
  BY DEF JobsOK, HandlerOK
<1>2. \A t \in Tab : FlightOK(t)'
  BY DEF JobsOK, FlightOK
<1> QED
  BY <1>1, <1>2 DEF JobsOK

\* The actions that leave handlers, tabs' refreshes and rows alone.
LEMMA TypeQuiet ==
  ASSUME TypeInv,
         \/ \E c \in Call, t \in Tab : Send(c, t)
         \/ \E c \in Call : Answered(c)
         \/ \E t \in Tab : SignOut(t)
         \/ \E l \in Link : RequestReset(l)
  PROVE  TypeInv'
<1>1. /\ token' = token /\ job' = job /\ refreshing' = refreshing /\ Minted' = Minted
  BY DEF Send, Answered, SignOut, RequestReset, Minted, ghosts, history, tabs
<1>2. JobsOK'
  BY <1>1, SameHandlers DEF TypeInv
<1>3. ASSUME \E c \in Call, t \in Tab : Send(c, t)
      PROVE  StoreOK'
  BY <1>1, <1>3, SessionAssumption DEF TypeInv, StoreOK, SessionAssumption, Send, UserEvent, history
<1>4. ASSUME \E c \in Call : Answered(c)
      PROVE  StoreOK'
  BY <1>1, <1>4, NewRecords DEF TypeInv, StoreOK, Answered, ghosts, history, CallRecord, NoCall
<1>5. ASSUME \E t \in Tab : SignOut(t)
      PROVE  StoreOK'
  BY <1>1, <1>5, SessionAssumption DEF TypeInv, StoreOK, SessionAssumption, SignOut, UserEvent, history
<1>6. ASSUME \E l \in Link : RequestReset(l)
      PROVE  StoreOK'
  BY <1>1, <1>6, SessionAssumption
     DEF TypeInv, StoreOK, SessionAssumption, RequestReset, UserEvent, history, tabs
<1>7. StoreOK'
  BY <1>3, <1>4, <1>5, <1>6
<1> QED
  BY <1>2, <1>7 DEF TypeInv

\* The record that takes a slot, and what it serves.
LEMMA TypeTake ==
  ASSUME TypeInv, NEW j \in Job, Free(j), NEW h \in Handler,
         job' = [job EXCEPT ![j] = h],
         Minted' = Minted, HandlerOK(h),
         \/ refreshing' = refreshing
         \/ \E t \in Tab : /\ refreshing' = [refreshing EXCEPT ![t] = j]
                           /\ h.op = "rotate" /\ h.tab = t
  PROVE  JobsOK'
<1>1. job' \in [Job -> Handler] /\ job'[j] = h /\ \A k \in Job \ {j} : job'[k] = job[k]
  BY DEF TypeInv, JobsOK
<1>2. HandlerOK(job[j])'
  BY <1>1 DEF HandlerOK
<1>3. \A t \in Tab : refreshing[t] # None => refreshing[t] # j
  BY SessionAssumption DEF TypeInv, JobsOK, HandlerOK, FlightOK, Free, SessionAssumption
<1>4. refreshing' \in [Tab -> Job \cup {None}]
  BY DEF TypeInv, JobsOK
<1>5. \A t \in Tab : refreshing'[t] # None =>
        \/ refreshing'[t] = refreshing[t] /\ refreshing[t] # j
        \/ refreshing'[t] = j /\ job'[j].op = "rotate" /\ job'[j].tab = t
  BY <1>1, <1>3 DEF TypeInv, JobsOK
<1> QED
  BY <1>1, <1>2, <1>4, <1>5, OneHandler DEF TypeInv

LEMMA TypeUnauthorized ==
  ASSUME TypeInv, NEW c \in Call, Unauthorized(c)
  PROVE  TypeInv'
<1> DEFINE t == call[c].tab
<1>1. Minted' = Minted
  BY DEF Unauthorized, Minted
<1>2. /\ call' \in [Call -> CallRecord]
      /\ \A d \in Call : call'[d].pc # "idle" => call'[d].tab \in Tab
  <2>1. CASE call' = [call EXCEPT ![c].pc = "waiting"]
    BY <2>1 DEF Unauthorized, TypeInv, StoreOK, CallRecord
  <2>2. CASE call' = [call EXCEPT ![c] = NoCall]
    BY <2>2, NewRecords DEF TypeInv, StoreOK, CallRecord, NoCall
  <2> QED
    BY <2>1, <2>2 DEF Unauthorized
<1>3. StoreOK'
  BY <1>1, <1>2 DEF Unauthorized, TypeInv, StoreOK, CallRecord, ghosts, history
<1>4. ASSUME UNCHANGED <<refreshing, job>> PROVE JobsOK'
  BY <1>1, <1>4, SameHandlers DEF TypeInv
<1>5. ASSUME NEW j \in Job, Free(j), memory[t] # None,
             job' = [job EXCEPT ![j] = [NoHandler EXCEPT
                       !.op = "rotate", !.pc = "find", !.tab = t, !.tok = memory[t]]],
             refreshing' = [refreshing EXCEPT ![t] = j]
      PROVE  JobsOK'
  <2> DEFINE h == [NoHandler EXCEPT !.op = "rotate", !.pc = "find", !.tab = t, !.tok = memory[t]]
  <2>1. t \in Tab
    BY DEF TypeInv, StoreOK, Unauthorized
  <2>2. h \in Handler /\ h.op = "rotate" /\ h.pc = "find" /\ h.tab = t /\ h.tok = memory[t]
        /\ h.new = None
    BY <2>1 DEF TypeInv, StoreOK, NoHandler, Handler, Minted
  <2> HIDE DEF h
  <2>3. HandlerOK(h)
    BY <1>5, <2>1, <2>2 DEF HandlerOK, TypeInv, StoreOK
  <2>4. job' = [job EXCEPT ![j] = h]
    BY <1>5 DEF h
  <2> QED
    BY <1>1, <1>5, <2>1, <2>2, <2>3, <2>4, TypeTake
<1> QED
  BY <1>3, <1>4, <1>5 DEF TypeInv, Unauthorized

\* What a handler's end leaves in its slot.
LEMMA EmptySlot == HandlerOK(NoHandler) /\ NoHandler.pc = "idle" /\ NoHandler.op = "rotate"
BY DEF NoHandler, HandlerOK, Exchanging

\* The actions that serve a tab its answer, or nobody.
LEMMA TypeAnswer ==
  ASSUME TypeInv, NEW j \in Job,
         Refreshed(j) \/ RefreshRefused(j) \/ SignedIn(j) \/ Dropped(j)
  PROVE  TypeInv'
<1> DEFINE t == job[j].tab
<1>1. /\ Minted' = Minted /\ job' = [job EXCEPT ![j] = NoHandler]
      /\ UNCHANGED <<token, password, link, raced, ended, calm, cutShort, faults, events>>
  BY DEF Refreshed, RefreshRefused, SignedIn, Dropped, Minted, ghosts, history
<1>2. t \in Tab \cup {None} /\ job[j].new \in Minted \cup {None}
  BY DEF TypeInv, JobsOK, Handler, HandlerOK
<1>3. ASSUME NEW n \in {NoCall, [pc |-> "again", tab |-> t]}, call' = Settle(t, n), t # None
      PROVE  /\ call' \in [Call -> CallRecord]
             /\ \A d \in Call : call'[d].pc # "idle" => call'[d].tab \in Tab
  <2>1. n \in CallRecord /\ (n.pc # "idle" => n.tab \in Tab)
    BY <1>2, <1>3, NewRecords DEF CallRecord, NoCall
  <2> QED
    BY <1>3, <2>1 DEF Settle, TypeInv, StoreOK, CallRecord
<1>4. /\ call' \in [Call -> CallRecord]
      /\ \A d \in Call : call'[d].pc # "idle" => call'[d].tab \in Tab
  <2>1. CASE UNCHANGED call
    BY <2>1 DEF TypeInv, StoreOK, CallRecord
  <2> QED
    BY <1>3, <2>1 DEF Refreshed, RefreshRefused, SignedIn, Dropped, tabs
<1>5. memory' \in [Tab -> Minted \cup {None}] /\ disk' \in Minted \cup {None}
  BY <1>2 DEF Refreshed, RefreshRefused, SignedIn, Dropped, tabs, TypeInv, StoreOK
<1>6. StoreOK'
  BY <1>1, <1>4, <1>5 DEF TypeInv, StoreOK, CallRecord
<1>7. /\ job' \in [Job -> Handler] /\ job'[j] = NoHandler
      /\ \A k \in Job \ {j} : job'[k] = job[k]
  BY <1>1, NewRecords DEF TypeInv, JobsOK
<1>8. HandlerOK(job[j])'
  BY <1>1, <1>7, EmptySlot DEF HandlerOK
<1>9. /\ refreshing' \in [Tab -> Job \cup {None}]
      /\ \A u \in Tab : refreshing'[u] # None => refreshing'[u] = refreshing[u] /\ refreshing[u] # j
  <2>1. \A u \in Tab \ {t} : refreshing[u] # None => refreshing[u] # j
    BY DEF TypeInv, JobsOK, FlightOK
  <2>2. CASE refreshing' = [refreshing EXCEPT ![t] = None]
    BY <2>1, <2>2 DEF TypeInv, JobsOK
  <2>3. CASE job[j].op = "login" /\ refreshing' = refreshing
    BY <2>3 DEF TypeInv, JobsOK, FlightOK
  <2>4. CASE t = None /\ refreshing' = refreshing
    BY <2>1, <2>4, SessionAssumption DEF TypeInv, JobsOK, SessionAssumption
  <2> QED
    BY <2>2, <2>3, <2>4 DEF Refreshed, RefreshRefused, SignedIn, Dropped, tabs
<1> QED
  BY <1>1, <1>6, <1>7, <1>8, <1>9, OneHandler DEF TypeInv

\* A step of one handler that keeps what it holds and the tab it serves.
LEMMA TypeStep ==
  ASSUME TypeInv, NEW j \in Job, job' \in [Job -> Handler],
         \A k \in Job \ {j} : job'[k] = job[k],
         Minted \subseteq Minted', refreshing' = refreshing,
         job'[j].op = job[j].op, job'[j].tab = job[j].tab, job'[j].tok = job[j].tok,
         job'[j].new \in Minted' \cup {None},
         job'[j].pc # "idle", job'[j].pc = "retire" => job[j].op = "rotate",
         job[j].op = "rotate" /\ job'[j].pc \in Exchanging => job[j].pc \in Exchanging
  PROVE  JobsOK'
<1>1. HandlerOK(job[j])'
  BY DEF TypeInv, JobsOK, HandlerOK
<1>2. \A u \in Tab : refreshing'[u] # None =>
        \/ refreshing'[u] = refreshing[u] /\ refreshing[u] # j
        \/ refreshing'[u] = j /\ job'[j].op = "rotate" /\ job'[j].tab = u
  BY DEF TypeInv, JobsOK, FlightOK
<1> QED
  BY <1>1, <1>2, OneHandler DEF TypeInv, JobsOK

\* The row that Mint writes.
NewRow(session, secret, late) ==
  [state |-> "live", expired |-> FALSE, session |-> session, secret |-> secret, late |-> late]

LEMMA MintRow ==
  ASSUME TypeInv, NEW x \in Token, New(x),
         NEW s \in Token \cup {None}, NEW n \in Nat, NEW b \in BOOLEAN, Mint(x, s, n, b)
  PROVE  /\ x \notin Minted /\ Minted' = Minted \cup {x}
         /\ token' \in [Token -> Row]
         /\ token'[x] = NewRow(s, n, b)
         /\ \A y \in Token \ {x} : token'[y] = token[y]
<1> DEFINE r == NewRow(s, n, b)
<1>1. r \in Row /\ r.state = "live"
  BY DEF Row, NewRow
<1>2. token' = [token EXCEPT ![x] = r]
  BY DEF Mint, NewRow
<1> HIDE DEF r
<1>3. /\ token' \in [Token -> Row] /\ token'[x] = r
      /\ \A y \in Token \ {x} : token'[y] = token[y]
  BY <1>1, <1>2 DEF TypeInv, StoreOK
<1>4. x \notin Minted
  BY DEF New
<1>5. Minted' = Minted \cup {x}
  BY <1>1, <1>3 DEF Minted
<1> QED
  BY <1>3, <1>4, <1>5 DEF r

\* What a handler that mints puts into the row.
LEMMA MintArguments ==
  ASSUME TypeInv, NEW j \in Job
  PROVE  /\ job[j].late \in BOOLEAN /\ job[j].secret \in Nat
         /\ job[j].op = "rotate" /\ job[j].pc = "create" =>
              LET old == token[job[j].tok]
              IN /\ job[j].tok \in Minted
                 /\ old.session \in Token \cup {None} /\ old.secret \in Nat
                 /\ old.late \in BOOLEAN
                 /\ (job[j].late \/ old.late) \in BOOLEAN
<1>1. job[j] \in Handler /\ HandlerOK(job[j])
  BY DEF TypeInv, JobsOK
<1>2. job[j].late \in BOOLEAN /\ job[j].secret \in Nat
  BY <1>1 DEF Handler
<1>3. ASSUME job[j].op = "rotate", job[j].pc = "create"
      PROVE  job[j].tok \in Minted /\ token[job[j].tok] \in Row
  BY <1>1, <1>3 DEF HandlerOK, Exchanging, Minted, TypeInv, StoreOK
<1>4. \A r \in Row : r.session \in Token \cup {None} /\ r.secret \in Nat /\ r.late \in BOOLEAN
  BY DEF Row
<1>5. \A a, b \in BOOLEAN : (a \/ b) \in BOOLEAN
  OBVIOUS
<1> QED
  BY <1>2, <1>3, <1>4, <1>5

LEMMA TypeRotate ==
  ASSUME TypeInv, NEW j \in Job,
         \/ RotateFind(j) \/ RotateRetire(j)
         \/ \E x \in Token : RotateCreate(j, x) \/ LoginIssue(j, x)
  PROVE  TypeInv'
<1>h. job[j] \in Handler /\ HandlerOK(job[j])
  BY DEF TypeInv, JobsOK
<1>1. ASSUME RotateFind(j) PROVE TypeInv'
  <2>1. Minted' = Minted
    BY <1>1 DEF RotateFind, Minted
  <2>2. job[j].tok \in Minted
    BY <1>1, <1>h DEF RotateFind, HandlerOK, Exchanging
  <2>3. StoreOK'
    BY <1>1, <2>1, <2>2 DEF RotateFind, TypeInv, StoreOK, tabs
  <2>4. /\ job' \in [Job -> Handler] /\ \A k \in Job \ {j} : job'[k] = job[k]
        /\ job'[j].op = job[j].op /\ job'[j].tab = job[j].tab
        /\ job'[j].tok = job[j].tok /\ job'[j].new = job[j].new
        /\ job'[j].pc \in {"revokeAll", "refuse", "create"}
    BY <1>1 DEF RotateFind, TypeInv, JobsOK, Handler
  <2>5. refreshing' = refreshing
    BY <1>1 DEF RotateFind, tabs
  <2> QED
    BY <1>1, <1>h, <2>1, <2>3, <2>4, <2>5, TypeStep DEF TypeInv, RotateFind, HandlerOK, Exchanging
<1>2. ASSUME RotateRetire(j) PROVE TypeInv'
  <2>1. job[j].tok \in Minted
    BY <1>2, <1>h DEF RotateRetire, HandlerOK, Exchanging
  <2>2. /\ Minted' = Minted /\ token' \in [Token -> Row]
        /\ \A x \in Token : token'[x].session = token[x].session
    BY <1>2, <2>1 DEF RotateRetire, TypeInv, StoreOK, Minted, Row
  <2>3. StoreOK'
    BY <1>2, <2>2 DEF RotateRetire, TypeInv, StoreOK, tabs, ghosts, history
  <2>4. /\ job' \in [Job -> Handler] /\ \A k \in Job \ {j} : job'[k] = job[k]
        /\ job'[j].op = job[j].op /\ job'[j].tab = job[j].tab
        /\ job'[j].tok = job[j].tok /\ job'[j].new = job[j].new
        /\ job'[j].pc = "answer"
    BY <1>2 DEF RotateRetire, TypeInv, JobsOK, Handler
  <2>5. refreshing' = refreshing
    BY <1>2 DEF RotateRetire, tabs
  <2> QED
    BY <1>h, <2>2, <2>3, <2>4, <2>5, TypeStep DEF TypeInv, HandlerOK, Exchanging
<1>3. ASSUME NEW x \in Token, New(x), NEW s \in Minted \cup {x}, NEW n \in Nat, NEW b \in BOOLEAN,
             Mint(x, s, n, b), UNCHANGED <<password, link, tabs, ghosts>>
      PROVE  StoreOK'
  <2>1. /\ Minted' = Minted \cup {x} /\ token' \in [Token -> Row]
        /\ token'[x] = NewRow(s, n, b) /\ \A y \in Token \ {x} : token'[y] = token[y]
    BY <1>3, MintRow DEF Minted
  <2>2. \A y \in Minted' : token'[y].session \in Minted'
    BY <2>1 DEF NewRow, TypeInv, StoreOK, Minted
  <2> QED
    BY <1>3, <2>1, <2>2 DEF TypeInv, StoreOK, tabs, ghosts, history
<1>4. ASSUME NEW x \in Token, RotateCreate(j, x) PROVE TypeInv'
  <2> DEFINE old == token[job[j].tok]
  <2>1. /\ old.session \in Minted /\ old.secret \in Nat
        /\ (job[j].late \/ old.late) \in BOOLEAN
    BY <1>4, MintArguments DEF RotateCreate, TypeInv, StoreOK
  <2>2. New(x) /\ Mint(x, old.session, old.secret, job[j].late \/ old.late)
    BY <1>4 DEF RotateCreate
  <2>3. Minted' = Minted \cup {x}
    BY <2>1, <2>2, MintRow DEF Minted
  <2>4. StoreOK'
    BY <1>3, <1>4, <2>1, <2>2 DEF RotateCreate
  <2>5. /\ job' \in [Job -> Handler] /\ \A k \in Job \ {j} : job'[k] = job[k]
        /\ job'[j].op = job[j].op /\ job'[j].tab = job[j].tab
        /\ job'[j].tok = job[j].tok /\ job'[j].new = x
        /\ job'[j].pc = "retire" /\ job[j].op = "rotate" /\ job[j].pc = "create"
    <3> DEFINE h == [job[j] EXCEPT !.pc = "retire", !.new = x]
    <3>1. /\ h \in Handler /\ h.op = job[j].op /\ h.tab = job[j].tab /\ h.tok = job[j].tok
          /\ h.new = x /\ h.pc = "retire"
      BY <1>h DEF Handler
    <3>2. job' = [job EXCEPT ![j] = h]
      BY <1>4 DEF RotateCreate, TypeInv, JobsOK
    <3>3. job[j].op = "rotate" /\ job[j].pc = "create"
      BY <1>4 DEF RotateCreate
    <3> HIDE DEF h
    <3> QED
      BY <3>1, <3>2, <3>3 DEF TypeInv, JobsOK
  <2>6. refreshing' = refreshing
    BY <1>4 DEF RotateCreate, tabs
  <2> QED
    BY <2>3, <2>4, <2>5, <2>6, TypeStep DEF TypeInv, Exchanging
<1>5. ASSUME NEW x \in Token, LoginIssue(j, x) PROVE TypeInv'
  <2>1. job[j].secret \in Nat /\ job[j].late \in BOOLEAN
    BY MintArguments
  <2>2. New(x) /\ Mint(x, x, job[j].secret, job[j].late)
    BY <1>5 DEF LoginIssue
  <2>3. Minted' = Minted \cup {x}
    BY <2>1, <2>2, MintRow
  <2>4. StoreOK'
    BY <1>3, <1>5, <2>1, <2>2 DEF LoginIssue
  <2>5. /\ job' \in [Job -> Handler] /\ \A k \in Job \ {j} : job'[k] = job[k]
        /\ job'[j].op = job[j].op /\ job'[j].tab = job[j].tab
        /\ job'[j].tok = job[j].tok /\ job'[j].new = x
        /\ job'[j].pc = "answer"
    <3> DEFINE h == [job[j] EXCEPT !.pc = "answer", !.new = x]
    <3>1. /\ h \in Handler /\ h.op = job[j].op /\ h.tab = job[j].tab /\ h.tok = job[j].tok
          /\ h.new = x /\ h.pc = "answer"
      BY <1>h DEF Handler
    <3>2. job' = [job EXCEPT ![j] = h]
      BY <1>5 DEF LoginIssue, TypeInv, JobsOK
    <3> HIDE DEF h
    <3> QED
      BY <3>1, <3>2 DEF TypeInv, JobsOK
  <2>6. refreshing' = refreshing
    BY <1>5 DEF LoginIssue, tabs
  <2> QED
    BY <2>3, <2>4, <2>5, <2>6, TypeStep DEF TypeInv, Exchanging
<1> QED
  BY <1>1, <1>2, <1>4, <1>5

\* The record of a handler that another's revokeAll overtook.
SameButLate(old, new) ==
  /\ new.op = old.op /\ new.pc = old.pc /\ new.tab = old.tab /\ new.tok = old.tok
  /\ new.new = old.new /\ new.secret = old.secret
  /\ new.pc = "create" => new.late = TRUE

\* revokeAll leaves no row live and tells every handler that is to insert.
LEMMA Revoked ==
  ASSUME TypeInv, NEW j \in Job, RevokeAll(j)
  PROVE  /\ Minted' = Minted /\ token' \in [Token -> Row]
         /\ \A x \in Token : /\ token'[x].state # "live"
                             /\ token'[x].session = token[x].session
         /\ job' \in [Job -> Handler]
         /\ \A k \in Job \ {j} : SameButLate(job[k], job'[k])
         /\ \/ job[j].op = "reset" /\ job'[j] = NoHandler
            \/ job[j].op # "reset" /\ job'[j] = [job[j] EXCEPT !.pc = "refuse"]
<1> DEFINE row(x) == IF Live(x) THEN [token[x] EXCEPT !.state = "revoked"] ELSE token[x]
           rec(k) == IF k = j THEN IF job[j].op = "reset" THEN NoHandler
                                   ELSE [job[j] EXCEPT !.pc = "refuse"]
                     ELSE IF job[k].pc = "create" THEN [job[k] EXCEPT !.late = TRUE]
                     ELSE job[k]
<1>1. token' = [x \in Token |-> row(x)] /\ job' = [k \in Job |-> rec(k)]
  BY DEF RevokeAll
<1>2. ASSUME NEW x \in Token
      PROVE  /\ row(x) \in Row /\ row(x).state # "live" /\ row(x).session = token[x].session
             /\ row(x).state = "unminted" <=> token[x].state = "unminted"
  <2>1. token[x] \in Row
    BY DEF TypeInv, StoreOK
  <2>2. CASE Live(x)
    BY <2>1, <2>2 DEF Live, Row
  <2>3. CASE ~Live(x)
    BY <2>1, <2>3 DEF Live, Row
  <2> QED
    BY <2>2, <2>3
<1>3. ASSUME NEW k \in Job
      PROVE  rec(k) \in Handler /\ (k # j => SameButLate(job[k], rec(k)))
  <2>1. job[k] \in Handler
    BY DEF TypeInv, JobsOK
  <2>2. CASE k = j
    BY <2>1, <2>2, NewRecords DEF Handler
  <2>3. CASE k # j /\ job[k].pc = "create"
    BY <2>1, <2>3 DEF Handler, SameButLate
  <2>4. CASE k # j /\ job[k].pc # "create"
    BY <2>1, <2>4 DEF SameButLate
  <2> QED
    BY <2>2, <2>3, <2>4
<1>4. rec(j) = IF job[j].op = "reset" THEN NoHandler ELSE [job[j] EXCEPT !.pc = "refuse"]
  OBVIOUS
<1> HIDE DEF row, rec
<1>5. Minted' = Minted
  BY <1>1, <1>2 DEF Minted
<1>6. /\ token' \in [Token -> Row]
      /\ \A x \in Token : token'[x].state # "live" /\ token'[x].session = token[x].session
  BY <1>1, <1>2
<1>7. job' \in [Job -> Handler] /\ \A k \in Job \ {j} : SameButLate(job[k], job'[k])
  BY <1>1, <1>3
<1>8. \/ job[j].op = "reset" /\ job'[j] = NoHandler
      \/ job[j].op # "reset" /\ job'[j] = [job[j] EXCEPT !.pc = "refuse"]
  BY <1>1, <1>4
<1> QED
  BY <1>5, <1>6, <1>7, <1>8

LEMMA TypeRevokeAll ==
  ASSUME TypeInv, NEW j \in Job, RevokeAll(j)
  PROVE  TypeInv'
<1>1. Minted' = Minted /\ refreshing' = refreshing
  BY Revoked DEF RevokeAll, tabs
<1>2. StoreOK'
  <2>1. ended' \subseteq Minted
    BY DEF RevokeAll, TypeInv, StoreOK
  <2> QED
    BY <1>1, <2>1, Revoked DEF RevokeAll, TypeInv, StoreOK, tabs, Minted
<1>3. ASSUME NEW k \in Job, k # j PROVE HandlerOK(job[k])'
  <2>1. HandlerOK(job[k]) /\ SameButLate(job[k], job'[k])
    BY <1>3, Revoked DEF TypeInv, JobsOK
  <2> QED
    BY <1>1, <2>1 DEF HandlerOK, SameButLate
<1>4. HandlerOK(job[j])'
  <2>1. CASE job'[j] = NoHandler
    BY <1>1, <2>1, EmptySlot DEF HandlerOK
  <2>2. CASE job'[j] = [job[j] EXCEPT !.pc = "refuse"]
    <3>1. HandlerOK(job[j]) /\ job[j] \in Handler
      BY DEF TypeInv, JobsOK
    <3> QED
      BY <1>1, <2>2, <3>1 DEF HandlerOK, Exchanging, Handler
  <2> QED
    BY <2>1, <2>2, Revoked
<1>5. ASSUME NEW t \in Tab, refreshing[t] # None
      PROVE  job'[refreshing[t]].op = "rotate" /\ job'[refreshing[t]].tab = t
  <2>1. /\ refreshing[t] \in Job
        /\ job[refreshing[t]].op = "rotate" /\ job[refreshing[t]].tab = t
    BY <1>5 DEF TypeInv, JobsOK, FlightOK
  <2>2. CASE refreshing[t] = j
    <3>1. job'[j] = [job[j] EXCEPT !.pc = "refuse"]
      BY <2>1, <2>2, Revoked
    <3>2. job[j] \in Handler
      BY DEF TypeInv, JobsOK
    <3> QED
      BY <2>1, <2>2, <3>1, <3>2 DEF Handler
  <2>3. CASE refreshing[t] # j
    <3>1. SameButLate(job[refreshing[t]], job'[refreshing[t]])
      BY <2>1, <2>3, Revoked
    <3> QED
      BY <2>1, <3>1 DEF SameButLate
  <2> QED
    BY <2>2, <2>3
<1>6. JobsOK'
  <2>1. \A k \in Job : HandlerOK(job[k])'
    BY <1>3, <1>4
  <2>2. \A t \in Tab : FlightOK(t)'
    BY <1>1, <1>5 DEF FlightOK
  <2>3. job' \in [Job -> Handler]
    BY Revoked
  <2> QED
    BY <1>1, <2>1, <2>2, <2>3 DEF TypeInv, JobsOK
<1> QED
  BY <1>2, <1>6 DEF TypeInv

\* A row is revoked or expires.
LEMMA TypeRow ==
  ASSUME TypeInv, NEW x \in Token, Logout(x) \/ Expire(x)
  PROVE  TypeInv'
<1> DEFINE r == token'[x]
<1>1. /\ r \in Row /\ r.session = token[x].session /\ r.state # "unminted"
      /\ token' = [token EXCEPT ![x] = r] /\ x \in Minted
  <2>1. token[x] \in Row /\ token[x].state = "live"
    BY DEF Logout, Expire, Live, TypeInv, StoreOK
  <2>2. ASSUME Logout(x) PROVE <1>1!:
    <3>1. r = [token[x] EXCEPT !.state = "revoked"] /\ token' = [token EXCEPT ![x] = r]
      BY <2>2 DEF Logout, TypeInv, StoreOK
    <3> QED
      BY <2>1, <3>1 DEF Row, Minted
  <2>3. ASSUME Expire(x) PROVE <1>1!:
    <3>1. r = [token[x] EXCEPT !.expired = TRUE] /\ token' = [token EXCEPT ![x] = r]
      BY <2>3 DEF Expire, TypeInv, StoreOK
    <3> QED
      BY <2>1, <3>1 DEF Row, Minted
  <2> QED
    BY <2>2, <2>3
<1> HIDE DEF r
<1>0. /\ Minted' = Minted /\ token' \in [Token -> Row]
      /\ \A y \in Token : token'[y].session = token[y].session
  BY <1>1 DEF TypeInv, StoreOK, Minted
<1>2. JobsOK'
  BY <1>0, SameHandlers DEF TypeInv, Logout, Expire, tabs
<1>3. StoreOK'
  <2>1. faults' \in 0..MaxFaults /\ events' \in 0..MaxEvents
    BY SessionAssumption DEF SessionAssumption, Logout, Expire, UserEvent, TypeInv, StoreOK
  <2>2. calm' \in BOOLEAN /\ cutShort' \in BOOLEAN
    BY DEF Logout, Expire, TypeInv, StoreOK
  <2> QED
    BY <1>0, <2>1, <2>2 DEF TypeInv, StoreOK, Logout, Expire, tabs, Minted
<1> QED
  BY <1>2, <1>3 DEF TypeInv

\* A log-in or a reset takes a slot.
LEMMA TypeBegin ==
  ASSUME TypeInv, NEW j \in Job,
         (\E t \in Tab : LoginVerify(j, t)) \/ (\E l \in Link : ResetCheck(j, l))
  PROVE  TypeInv'
<1>1. Minted' = Minted /\ UNCHANGED <<token, password, link, tabs>> /\ Free(j)
  BY DEF LoginVerify, ResetCheck, Minted
<1>2. StoreOK'
  <2>1. faults' \in 0..MaxFaults /\ events' \in 0..MaxEvents
    <3>1. faults' = faults /\ UserEvent
      BY DEF LoginVerify, ResetCheck, history
    <3> QED
      BY <3>1, SessionAssumption DEF SessionAssumption, UserEvent, TypeInv, StoreOK
  <2>2. calm' \in BOOLEAN /\ cutShort' \in BOOLEAN
    BY DEF LoginVerify, ResetCheck, history, TypeInv, StoreOK
  <2> QED
    BY <1>1, <2>1, <2>2 DEF TypeInv, StoreOK, LoginVerify, ResetCheck, tabs, history
<1>3. ASSUME NEW t \in Tab, LoginVerify(j, t) PROVE JobsOK'
  <2> DEFINE h == [NoHandler EXCEPT !.op = "login", !.pc = "create", !.tab = t, !.secret = password]
  <2>1. h \in Handler /\ h.op = "login" /\ h.pc = "create" /\ h.tok = None /\ h.new = None
    BY DEF NoHandler, Handler, TypeInv, StoreOK
  <2>2. job' = [job EXCEPT ![j] = h]
    BY <1>3 DEF LoginVerify
  <2> HIDE DEF h
  <2>3. HandlerOK(h)
    BY <2>1 DEF HandlerOK
  <2> QED
    BY <1>1, <2>1, <2>2, <2>3, TypeTake DEF tabs
<1>4. ASSUME NEW l \in Link, ResetCheck(j, l) PROVE JobsOK'
  <2> DEFINE h == [NoHandler EXCEPT !.op = "reset", !.pc = "write", !.link = l]
  <2>1. h \in Handler /\ h.op = "reset" /\ h.pc = "write" /\ h.tok = None /\ h.new = None
    BY DEF NoHandler, Handler
  <2>2. job' = [job EXCEPT ![j] = h]
    BY <1>4 DEF ResetCheck
  <2> HIDE DEF h
  <2>3. HandlerOK(h)
    BY <2>1 DEF HandlerOK
  <2> QED
    BY <1>1, <2>1, <2>2, <2>3, TypeTake DEF tabs
<1> QED
  BY <1>2, <1>3, <1>4 DEF TypeInv

LEMMA TypeResetWrite ==
  ASSUME TypeInv, NEW j \in Job, ResetWrite(j)
  PROVE  TypeInv'
<1>1. Minted' = Minted /\ refreshing' = refreshing
  BY DEF ResetWrite, Minted, tabs
<1>2. StoreOK'
  <2>1. password' \in Nat
    BY DEF ResetWrite, TypeInv, StoreOK
  <2>2. link' \in [Link -> {"none", "mailed", "used"}]
    BY DEF ResetWrite, TypeInv, StoreOK
  <2>3. UNCHANGED <<token, memory, disk, call, raced, ended, calm, cutShort, faults, events>>
    BY DEF ResetWrite, tabs, ghosts, history
  <2> QED
    BY <1>1, <2>1, <2>2, <2>3 DEF TypeInv, StoreOK
<1>3. /\ job' \in [Job -> Handler] /\ \A k \in Job \ {j} : job'[k] = job[k]
      /\ job'[j].op = job[j].op /\ job'[j].tab = job[j].tab
      /\ job'[j].tok = job[j].tok /\ job'[j].new = job[j].new
      /\ job'[j].pc = "revokeAll"
  BY DEF ResetWrite, TypeInv, JobsOK, Handler
<1>4. JobsOK'
  BY <1>1, <1>3, TypeStep DEF TypeInv, JobsOK, HandlerOK, Exchanging
<1> QED
  BY <1>2, <1>4 DEF TypeInv

\* The calls that waited for a refresh that is over.
LEMMA CallsSettled ==
  ASSUME TypeInv, NEW j \in Job, Rejected(j)
  PROVE  /\ call' \in [Call -> CallRecord]
         /\ \A d \in Call : call'[d].pc # "idle" => call'[d].tab \in Tab
<1>1. CASE call' = call
  BY <1>1 DEF TypeInv, StoreOK, CallRecord
<1>2. CASE call' = Settle(job[j].tab, NoCall)
  <2>1. NoCall \in CallRecord /\ NoCall.pc = "idle"
    BY NewRecords DEF NoCall
  <2> QED
    BY <1>2, <2>1 DEF Settle, TypeInv, StoreOK, CallRecord
<1> QED
  BY <1>1, <1>2 DEF Rejected

\* A handler loses its tab, or its slot is emptied.
LEMMA TypeFault ==
  ASSUME TypeInv, NEW j \in Job, Cut(j) \/ Crash(j)
  PROVE  TypeInv'
<1> DEFINE t == job[j].tab
           cut == [job[j] EXCEPT !.tab = None]
<1>1. Minted' = Minted /\ Rejected(j) /\ UNCHANGED <<token, password, link, memory, disk, ended, events>>
  BY DEF Cut, Crash, Minted
<1>2. StoreOK'
  <2>1. faults' \in 0..MaxFaults
    BY SessionAssumption DEF SessionAssumption, Cut, Crash, TypeInv, StoreOK
  <2>2. calm' \in BOOLEAN /\ cutShort' \in BOOLEAN
    BY DEF Cut, Crash, TypeInv, StoreOK
  <2>3. raced' \subseteq Minted
    <3>1. CASE job[j].pc = "retire"
      <4>1. job[j].tok \in Minted
        BY <3>1 DEF TypeInv, JobsOK, HandlerOK, Exchanging
      <4> QED
        BY <4>1 DEF Cut, Crash, TypeInv, StoreOK
    <3>2. CASE job[j].pc # "retire"
      BY <3>2 DEF Cut, Crash, TypeInv, StoreOK
    <3> QED
      BY <3>1, <3>2
  <2> QED
    BY <1>1, <2>1, <2>2, <2>3, CallsSettled DEF TypeInv, StoreOK, CallRecord
<1>3. /\ job' \in [Job -> Handler] /\ job'[j] \in {NoHandler, cut}
      /\ \A k \in Job \ {j} : job'[k] = job[k]
  <2>1. cut \in Handler
    BY DEF TypeInv, JobsOK, Handler
  <2>2. job' = [job EXCEPT ![j] = NoHandler] \/ job' = [job EXCEPT ![j] = cut]
    BY DEF Cut, Crash
  <2> HIDE DEF cut
  <2> QED
    BY <2>1, <2>2, NewRecords DEF TypeInv, JobsOK
<1>4. HandlerOK(job[j])'
  <2>1. CASE job'[j] = NoHandler
    BY <1>1, <2>1, EmptySlot DEF HandlerOK
  <2>2. CASE job'[j] = cut
    <3>1. HandlerOK(job[j]) /\ job[j] \in Handler
      BY DEF TypeInv, JobsOK
    <3> QED
      BY <1>1, <2>2, <3>1 DEF HandlerOK, Exchanging, Handler
  <2> QED
    BY <1>3, <2>1, <2>2
<1>5. /\ refreshing' \in [Tab -> Job \cup {None}]
      /\ \A u \in Tab : refreshing'[u] # None => refreshing'[u] = refreshing[u] /\ refreshing[u] # j
  <2>1. \A u \in Tab \ {t} : refreshing[u] # None => refreshing[u] # j
    BY DEF TypeInv, JobsOK, FlightOK
  <2>2. CASE refreshing' = [refreshing EXCEPT ![t] = None]
    BY <2>1, <2>2 DEF TypeInv, JobsOK
  <2>3. CASE job[j].op # "rotate" /\ refreshing' = refreshing
    BY <2>3 DEF TypeInv, JobsOK, FlightOK
  <2>4. CASE t = None /\ refreshing' = refreshing
    BY <2>1, <2>4, SessionAssumption DEF TypeInv, JobsOK, SessionAssumption
  <2> QED
    BY <1>1, <2>2, <2>3, <2>4 DEF Rejected
<1> QED
  BY <1>1, <1>2, <1>3, <1>4, <1>5, OneHandler DEF TypeInv

\* Every handler that served the tab serves nobody.
LEMMA TypeReload ==
  ASSUME TypeInv, NEW t \in Tab, Reload(t)
  PROVE  TypeInv'
<1> DEFINE rec(k) == IF job[k].tab = t THEN [job[k] EXCEPT !.tab = None] ELSE job[k]
<1>1. Minted' = Minted /\ job' = [k \in Job |-> rec(k)]
  BY DEF Reload, Minted
<1>2. StoreOK'
  <2>1. events' \in 0..MaxEvents
    BY SessionAssumption DEF SessionAssumption, Reload, UserEvent, TypeInv, StoreOK
  <2>2. calm' \in BOOLEAN
    BY DEF Reload, TypeInv, StoreOK
  <2>3. memory' \in [Tab -> Minted \cup {None}]
    BY DEF Reload, TypeInv, StoreOK
  <2>4. /\ call' \in [Call -> CallRecord]
        /\ \A d \in Call : call'[d].pc # "idle" => call'[d].tab \in Tab
    <3>1. NoCall \in CallRecord /\ NoCall.pc = "idle"
      BY NewRecords DEF NoCall
    <3>2. call' = [c \in Call |-> IF call[c].tab = t THEN NoCall ELSE call[c]]
      BY DEF Reload
    <3> QED
      BY <3>1, <3>2 DEF TypeInv, StoreOK, CallRecord
  <2>5. UNCHANGED <<token, password, link, disk, raced, ended, cutShort, faults>>
    BY DEF Reload
  <2> QED
    BY <1>1, <2>1, <2>2, <2>3, <2>4, <2>5 DEF TypeInv, StoreOK, CallRecord
<1>3. ASSUME NEW k \in Job
      PROVE  /\ rec(k) \in Handler /\ HandlerOK(rec(k)) /\ rec(k).op = job[k].op
             /\ job[k].tab # t => rec(k).tab = job[k].tab
  <2>1. job[k] \in Handler /\ HandlerOK(job[k])
    BY DEF TypeInv, JobsOK
  <2>2. CASE job[k].tab = t
    BY <2>1, <2>2 DEF Handler, HandlerOK
  <2>3. CASE job[k].tab # t
    BY <2>1, <2>3
  <2> QED
    BY <2>2, <2>3
<1>4. refreshing' = [refreshing EXCEPT ![t] = None]
  BY DEF Reload
<1> HIDE DEF rec
<1>5. \A k \in Job : HandlerOK(job[k])'
  BY <1>1, <1>3 DEF HandlerOK
<1>6. \A u \in Tab : FlightOK(u)'
  BY <1>1, <1>3, <1>4 DEF FlightOK, TypeInv, JobsOK
<1>7. JobsOK'
  BY <1>1, <1>3, <1>4, <1>5, <1>6 DEF TypeInv, JobsOK
<1> QED
  BY <1>2, <1>7 DEF TypeInv

LEMMA TypeNext == TypeInv /\ [Next]_vars => TypeInv'
<1> SUFFICES ASSUME TypeInv, [Next]_vars PROVE TypeInv'
  OBVIOUS
<1>1. CASE Next
  <2>1. ASSUME NEW j \in Job, Serve(j) PROVE TypeInv'
    BY <2>1, TypeAnswer, TypeRotate, TypeRevokeAll, TypeResetWrite DEF Serve
  <2>2. ASSUME NEW j \in Job, Cut(j) \/ Crash(j) PROVE TypeInv'
    BY <2>2, TypeFault
  <2>3. ASSUME NEW x \in Token, Logout(x) \/ Expire(x) PROVE TypeInv'
    BY <2>3, TypeRow
  <2> QED
    BY <1>1, <2>1, <2>2, <2>3, TypeQuiet, TypeUnauthorized, TypeBegin, TypeReload DEF Next
<1>2. CASE UNCHANGED vars
  <2>1. JobsOK' /\ Minted' = Minted
    BY <1>2, SameHandlers DEF TypeInv, vars, Minted
  <2> QED
    BY <1>2, <2>1 DEF TypeInv, StoreOK, vars
<1> QED
  BY <1>1, <1>2

\* Rows, handlers and stores keep their types, and refreshInFlight names the
\* refresh that serves its tab.
THEOREM TypeCorrect == Spec => []TypeOK
BY TypeInit, TypeNext, TypeInvType, PTL DEF Spec

----------------------------------------------------------------------------
(* Revocation. *)

\* A record that is to insert was to insert before, with the same token in hand.
Inserting(old, new) ==
  new.pc = "create" => /\ old.pc = "create" /\ new.op = old.op /\ new.tok = old.tok
                       /\ new.secret = old.secret /\ new.late = old.late

\* A reset that has still to revoke stays one, unless it is cut short.
StillRevoking(old, new) == Revoking(old) => Revoking(new) \/ cutShort'

\* The actions that neither write a row nor change the password.
Plain == /\ UNCHANGED <<token, password, ended>>
         /\ cutShort => cutShort'
         /\ \A k \in Job : /\ Inserting(job[k], job'[k])
                           /\ StillRevoking(job[k], job'[k])

LEMMA SameRecord == \A h : Inserting(h, h) /\ StillRevoking(h, h)
BY DEF Inserting, StillRevoking

LEMMA PlainSteps ==
  ASSUME TypeInv,
         \/ \E c \in Call : Answered(c) \/ Unauthorized(c)
         \/ \E c \in Call, t \in Tab : Send(c, t)
         \/ \E t \in Tab : SignOut(t) \/ Reload(t)
         \/ \E l \in Link : RequestReset(l)
         \/ \E j \in Job, l \in Link : ResetCheck(j, l)
         \/ \E j \in Job : Refreshed(j) \/ RefreshRefused(j) \/ SignedIn(j) \/ Dropped(j)
         \/ \E j \in Job : Cut(j) \/ Crash(j)
         \/ UNCHANGED vars
  PROVE  Plain
<1>1. ASSUME UNCHANGED <<token, password, ended, cutShort, job>> PROVE Plain
  BY <1>1, SameRecord DEF Plain
<1>2. ASSUME NEW j \in Job, NEW h, job' = [job EXCEPT ![j] = h],
             UNCHANGED <<token, password, ended>>, cutShort => cutShort',
             Inserting(job[j], h), StillRevoking(job[j], h)
      PROVE  Plain
  <2>1. \A k \in Job : job'[k] = IF k = j THEN h ELSE job[k]
    BY <1>2 DEF TypeInv, JobsOK
  <2> QED
    BY <1>2, <2>1, SameRecord DEF Plain
<1>3. ASSUME NEW c \in Call, Answered(c) \/ Unauthorized(c) PROVE Plain
  <2>1. UNCHANGED <<token, password, ended, cutShort>>
    BY <1>3 DEF Answered, Unauthorized, ghosts, history
  <2>2. CASE job' = job
    BY <1>1, <2>1, <2>2
  <2>3. ASSUME NEW j \in Job, Free(j), NEW h, h.pc = "find", job' = [job EXCEPT ![j] = h]
        PROVE  Plain
    BY <1>2, <2>1, <2>3 DEF Inserting, StillRevoking, Revoking, Free
  <2>4. \/ job' = job
        \/ \E j \in Job : Free(j) /\ \E h : h.pc = "find" /\ job' = [job EXCEPT ![j] = h]
    <3>1. CASE Answered(c) \/ job' = job
      BY <3>1 DEF Answered
    <3>2. ASSUME NEW j \in Job, Free(j),
                 job' = [job EXCEPT ![j] = [NoHandler EXCEPT
                   !.op = "rotate", !.pc = "find", !.tab = call[c].tab, !.tok = memory[call[c].tab]]]
          PROVE  \E h : h.pc = "find" /\ job' = [job EXCEPT ![j] = h]
      <4> DEFINE h == [NoHandler EXCEPT
                   !.op = "rotate", !.pc = "find", !.tab = call[c].tab, !.tok = memory[call[c].tab]]
      <4>1. h.pc = "find"
        BY DEF NoHandler
      <4> HIDE DEF h
      <4> QED
        BY <3>2, <4>1 DEF h
    <3> QED
      BY <1>3, <3>1, <3>2 DEF Unauthorized
  <2> QED
    BY <2>2, <2>3, <2>4
<1>4. ASSUME NEW c \in Call, NEW t \in Tab, Send(c, t) PROVE Plain
  BY <1>1, <1>4 DEF Send, history
<1>5. ASSUME NEW t \in Tab, SignOut(t) PROVE Plain
  BY <1>1, <1>5 DEF SignOut, history
<1>6. ASSUME NEW t \in Tab, Reload(t) PROVE Plain
  <2>1. ASSUME NEW k \in Job
        PROVE  Inserting(job[k], job'[k]) /\ StillRevoking(job[k], job'[k])
    <3>1. job'[k] = IF job[k].tab = t THEN [job[k] EXCEPT !.tab = None] ELSE job[k]
      BY <1>6 DEF Reload
    <3>2. job[k] \in Handler
      BY DEF TypeInv, JobsOK
    <3>3. CASE job[k].tab = t
      BY <3>1, <3>2, <3>3 DEF Inserting, StillRevoking, Revoking, Handler
    <3>4. CASE job[k].tab # t
      BY <3>1, <3>4, SameRecord
    <3> QED
      BY <3>3, <3>4
  <2> QED
    BY <1>6, <2>1 DEF Reload, Plain
<1>7. ASSUME NEW l \in Link, RequestReset(l) PROVE Plain
  BY <1>1, <1>7 DEF RequestReset, history
<1>8. ASSUME NEW j \in Job, NEW l \in Link, ResetCheck(j, l) PROVE Plain
  <2> DEFINE h == [NoHandler EXCEPT !.op = "reset", !.pc = "write", !.link = l]
  <2>1. h.pc = "write" /\ job' = [job EXCEPT ![j] = h]
    BY <1>8 DEF ResetCheck, NoHandler
  <2>2. UNCHANGED <<token, password, ended, cutShort>> /\ Free(j)
    BY <1>8 DEF ResetCheck
  <2> HIDE DEF h
  <2> QED
    BY <1>2, <2>1, <2>2 DEF Inserting, StillRevoking, Revoking, Free
<1>9. ASSUME NEW j \in Job, Refreshed(j) \/ RefreshRefused(j) \/ SignedIn(j) \/ Dropped(j)
      PROVE  Plain
  <2>1. /\ job' = [job EXCEPT ![j] = NoHandler] /\ job[j].pc \in {"answer", "refuse"}
        /\ UNCHANGED <<token, password, ended, cutShort>>
    BY <1>9 DEF Refreshed, RefreshRefused, SignedIn, Dropped, ghosts, history
  <2> QED
    BY <1>2, <2>1, EmptySlot DEF Inserting, StillRevoking, Revoking
<1>10. ASSUME NEW j \in Job, Cut(j) PROVE Plain
  <2> DEFINE h == [job[j] EXCEPT !.tab = None]
  <2>1. Inserting(job[j], h) /\ StillRevoking(job[j], h)
    BY DEF Inserting, StillRevoking, Revoking, TypeInv, JobsOK, Handler
  <2>2. job' = [job EXCEPT ![j] = h] /\ UNCHANGED <<token, password, ended, cutShort>>
    BY <1>10 DEF Cut
  <2> HIDE DEF h
  <2> QED
    BY <1>2, <2>1, <2>2
<1>11. ASSUME NEW j \in Job, Crash(j) PROVE Plain
  <2>1. Revoking(job[j]) => cutShort'
    BY <1>11 DEF Crash, Revoking
  <2>2. /\ job' = [job EXCEPT ![j] = NoHandler] /\ UNCHANGED <<token, password, ended>>
        /\ cutShort => cutShort'
    BY <1>11 DEF Crash
  <2> QED
    BY <1>2, <2>1, <2>2, EmptySlot DEF Inserting, StillRevoking
<1>12. CASE UNCHANGED vars
  BY <1>1, <1>12 DEF vars
<1> QED
  BY <1>3, <1>4, <1>5, <1>6, <1>7, <1>8, <1>9, <1>10, <1>11, <1>12

LEMMA EndPlain ==
  ASSUME TypeInv, EndInv, Plain
  PROVE  EndInv'
BY DEF EndInv, Plain, Inserting, RevokedSessionsStayEnded, Live

LEMMA ResetPlain ==
  ASSUME TypeInv, ResetInv, Plain
  PROVE  ResetInv'
<1>1. Unfinished => Unfinished'
  BY DEF Plain, Unfinished, StillRevoking
<1>2. ResetEndsOldSessions'
  BY <1>1 DEF ResetInv, Plain, ResetEndsOldSessions, Unfinished, Revoking, Live
<1> QED
  BY <1>1, <1>2 DEF ResetInv, Plain, Inserting

\* A log-in passes its check with the password of the moment, and a refresh
\* with a row that is live.
LEMMA CheckSteps ==
  ASSUME TypeInv, EndInv, ResetInv, NEW j \in Job,
         RotateFind(j) \/ \E t \in Tab : LoginVerify(j, t)
  PROVE  EndInv' /\ ResetInv'
<1>1. /\ UNCHANGED <<token, password, ended, cutShort>>
      /\ \A k \in Job \ {j} : job'[k] = job[k]
      /\ ~Revoking(job[j])
  BY DEF RotateFind, LoginVerify, Free, Revoking, history, TypeInv, JobsOK
<1>2. job'[j].pc = "create" =>
        \/ job'[j].op = "rotate" /\ Live(job'[j].tok) /\ job'[j].tok \in Token
        \/ job'[j].op = "login" /\ job'[j].secret = password
  <2>1. CASE RotateFind(j)
    <3>1. job[j].tok \in Token /\ job[j] \in Handler
      BY <2>1 DEF RotateFind, TypeInv, JobsOK, HandlerOK, Exchanging, Minted
    <3>2. /\ job'[j].pc = "create" => Live(job[j].tok)
          /\ job'[j].op = "rotate" /\ job'[j].tok = job[j].tok
      BY <2>1, <3>1 DEF RotateFind, Handler, TypeInv, JobsOK
    <3> QED
      BY <3>1, <3>2
  <2>2. ASSUME NEW t \in Tab, LoginVerify(j, t)
        PROVE  job'[j].op = "login" /\ job'[j].secret = password
    BY <2>2 DEF LoginVerify, NoHandler, TypeInv, JobsOK
  <2> QED
    BY <2>1, <2>2
<1>3. EndInv'
  <2>1. RevokedSessionsStayEnded'
    BY <1>1 DEF EndInv, RevokedSessionsStayEnded, Live
  <2> QED
    BY <1>1, <1>2, <2>1 DEF EndInv, RevokedSessionsStayEnded
<1>4. Unfinished => Unfinished'
  BY <1>1 DEF Unfinished
<1>5. ResetEndsOldSessions'
  BY <1>1, <1>4 DEF ResetInv, ResetEndsOldSessions, Unfinished, Revoking, Live
<1>6. ResetInv'
  BY <1>1, <1>2, <1>4, <1>5 DEF ResetInv, ResetEndsOldSessions, Unfinished, Revoking
<1> QED
  BY <1>3, <1>6

\* The row a handler mints is as late as the handler and the token it presented.
LEMMA MintSteps ==
  ASSUME TypeInv, EndInv, ResetInv, NEW j \in Job, NEW x \in Token,
         RotateCreate(j, x) \/ LoginIssue(j, x)
  PROVE  EndInv' /\ ResetInv'
<1> DEFINE old == token[job[j].tok]
<1>1. /\ UNCHANGED <<password, ended, cutShort>>
      /\ \A k \in Job \ {j} : job'[k] = job[k]
      /\ job'[j].pc # "create" /\ ~Revoking(job[j]) /\ x \notin Minted
  BY DEF RotateCreate, LoginIssue, New, Revoking, ghosts, history, TypeInv, JobsOK, Handler
<1>2. PICK s \in Token \cup {None}, n \in Nat, b \in BOOLEAN :
        /\ Mint(x, s, n, b)
        /\ s \in ended => b
        /\ n # password => b \/ Unfinished
  <2>1. CASE RotateCreate(j, x)
    <3>1. /\ old.session \in Token \cup {None} /\ old.secret \in Nat
          /\ (job[j].late \/ old.late) \in BOOLEAN
      BY <2>1, MintArguments DEF RotateCreate
    <3>2. Mint(x, old.session, old.secret, job[j].late \/ old.late)
      BY <2>1 DEF RotateCreate
    <3>3. /\ old.session \in ended => job[j].late \/ old.late
          /\ old.secret # password => job[j].late \/ old.late \/ Unfinished
      BY <2>1 DEF RotateCreate, EndInv, ResetInv
    <3> QED
      BY <3>1, <3>2, <3>3
  <2>2. CASE LoginIssue(j, x)
    <3>1. job[j].late \in BOOLEAN /\ job[j].secret \in Nat
      BY MintArguments
    <3>2. Mint(x, x, job[j].secret, job[j].late) /\ x \notin ended
      BY <1>1, <2>2 DEF LoginIssue, TypeInv, StoreOK
    <3>3. job[j].secret # password => job[j].late \/ Unfinished
      BY <2>2 DEF LoginIssue, ResetInv
    <3> QED
      BY <3>1, <3>2, <3>3
  <2> QED
    BY <2>1, <2>2
<1>3. /\ token'[x] = NewRow(s, n, b) /\ \A y \in Token \ {x} : token'[y] = token[y]
  BY <1>1, <1>2, MintRow DEF Minted, New, RotateCreate, LoginIssue
<1>4. token'[x].session = s /\ token'[x].secret = n /\ token'[x].late = b
  BY <1>3 DEF NewRow
<1>5. \A k \in Job : job'[k].op = "rotate" /\ job'[k].pc = "create" =>
        /\ job'[k] = job[k] /\ token'[job[k].tok] = token[job[k].tok]
  BY <1>1, <1>3 DEF TypeInv, JobsOK, HandlerOK, Exchanging, Minted
<1>6. EndInv'
  <2>1. RevokedSessionsStayEnded'
    BY <1>1, <1>2, <1>3, <1>4 DEF EndInv, RevokedSessionsStayEnded, Live
  <2> QED
    BY <1>1, <1>5, <2>1 DEF EndInv
<1>7. Unfinished <=> Unfinished'
  BY <1>1 DEF Unfinished, RotateCreate, LoginIssue, Revoking, TypeInv, JobsOK, Handler
<1>8. ResetEndsOldSessions'
  BY <1>1, <1>2, <1>3, <1>4, <1>7 DEF ResetInv, ResetEndsOldSessions, Unfinished, Revoking, Live
<1> QED
  BY <1>1, <1>5, <1>6, <1>7, <1>8 DEF ResetInv

\* A row is revoked, by its rotation or by a log-out, or expires.
LEMMA RowSteps ==
  ASSUME TypeInv, EndInv, ResetInv,
         \/ \E j \in Job : RotateRetire(j)
         \/ \E x \in Token : Logout(x) \/ Expire(x)
  PROVE  EndInv' /\ ResetInv'
<1>1. \A y \in Token :
        /\ token'[y].state = "live" => token[y].state = "live"
        /\ token'[y].session = token[y].session
        /\ token'[y].secret = token[y].secret
        /\ token'[y].late = token[y].late
  <2>1. ASSUME NEW j \in Job, RotateRetire(j) PROVE <1>1!:
    BY <2>1 DEF RotateRetire, TypeInv, StoreOK, Row
  <2>2. ASSUME NEW x \in Token, Logout(x) PROVE <1>1!:
    BY <2>2 DEF Logout, TypeInv, StoreOK, Row
  <2>3. ASSUME NEW x \in Token, Expire(x) PROVE <1>1!:
    BY <2>3 DEF Expire, TypeInv, StoreOK, Row
  <2> QED
    BY <2>1, <2>2, <2>3
<1>2. UNCHANGED <<password, ended, cutShort>>
  BY DEF RotateRetire, Logout, Expire, ghosts, history
<1>3. \A k \in Job : Inserting(job[k], job'[k]) /\ StillRevoking(job[k], job'[k])
  <2>1. ASSUME NEW j \in Job, RotateRetire(j) PROVE <1>3!:
    <3>1. job'[j].pc = "answer" /\ job[j].pc = "retire"
      BY <2>1 DEF RotateRetire, TypeInv, JobsOK, Handler
    <3>2. \A k \in Job \ {j} : job'[k] = job[k]
      BY <2>1 DEF RotateRetire, TypeInv, JobsOK
    <3>3. Inserting(job[j], job'[j]) /\ StillRevoking(job[j], job'[j])
      BY <3>1 DEF Inserting, StillRevoking, Revoking
    <3> QED
      BY <3>2, <3>3, SameRecord
  <2>2. ASSUME NEW x \in Token, Logout(x) \/ Expire(x) PROVE <1>3!:
    BY <2>2, SameRecord DEF Logout, Expire
  <2> QED
    BY <2>1, <2>2
<1>4. \A k \in Job : job'[k].op = "rotate" /\ job'[k].pc = "create" =>
        /\ job[k].op = "rotate" /\ job[k].pc = "create"
        /\ job'[k].tok = job[k].tok /\ job'[k].late = job[k].late /\ job[k].tok \in Token
  BY <1>3 DEF Inserting, TypeInv, JobsOK, HandlerOK, Exchanging, Minted
<1>5. Unfinished => Unfinished'
  BY <1>2, <1>3 DEF Unfinished, StillRevoking
<1>6. EndInv'
  <2>1. RevokedSessionsStayEnded'
    BY <1>1, <1>2 DEF EndInv, RevokedSessionsStayEnded, Live
  <2>2. ASSUME NEW k \in Job, job'[k].op = "rotate", job'[k].pc = "create",
               token'[job'[k].tok].session \in ended'
        PROVE  job'[k].late \/ token'[job'[k].tok].late
    <3>0. /\ job'[k].tok = job[k].tok /\ job'[k].late = job[k].late
          /\ job[k].op = "rotate" /\ job[k].pc = "create" /\ job[k].tok \in Token
      BY <1>4, <2>2
    <3>a. /\ token'[job[k].tok].session = token[job[k].tok].session
          /\ token'[job[k].tok].secret = token[job[k].tok].secret
          /\ token'[job[k].tok].late = token[job[k].tok].late
      BY <1>1, <3>0
    <3>1. token[job[k].tok].session \in ended
      BY <1>2, <2>2, <3>0, <3>a
    <3>2. job[k].late \/ token[job[k].tok].late
      BY <3>0, <3>1 DEF EndInv
    <3> QED
      BY <3>0, <3>a, <3>2
  <2> QED
    BY <2>1, <2>2 DEF EndInv
<1>7. ResetEndsOldSessions'
  BY <1>1, <1>2, <1>5 DEF ResetInv, ResetEndsOldSessions, Unfinished, Revoking, Live
<1>8. \A k \in Job : job'[k].op = "login" /\ job'[k].pc = "create" =>
        /\ job[k].op = "login" /\ job[k].pc = "create"
        /\ job'[k].secret = job[k].secret /\ job'[k].late = job[k].late
  BY <1>3 DEF Inserting
<1>9. ResetInv'
  <2>1. ASSUME NEW k \in Job, job'[k].op = "rotate", job'[k].pc = "create",
               token'[job'[k].tok].secret # password'
        PROVE  job'[k].late \/ token'[job'[k].tok].late \/ Unfinished'
    <3>0. /\ job'[k].tok = job[k].tok /\ job'[k].late = job[k].late
          /\ job[k].op = "rotate" /\ job[k].pc = "create" /\ job[k].tok \in Token
      BY <1>4, <2>1
    <3>a. /\ token'[job[k].tok].session = token[job[k].tok].session
          /\ token'[job[k].tok].secret = token[job[k].tok].secret
          /\ token'[job[k].tok].late = token[job[k].tok].late
      BY <1>1, <3>0
    <3>1. token[job[k].tok].secret # password
      BY <1>2, <2>1, <3>0, <3>a
    <3>2. job[k].late \/ token[job[k].tok].late \/ Unfinished
      BY <3>0, <3>1 DEF ResetInv
    <3> QED
      BY <1>5, <3>0, <3>a, <3>2
  <2>2. ASSUME NEW k \in Job, job'[k].op = "login", job'[k].pc = "create",
               job'[k].secret # password'
        PROVE  job'[k].late \/ Unfinished'
    BY <1>2, <1>5, <1>8, <2>2 DEF ResetInv
  <2> QED
    BY <1>7, <2>1, <2>2 DEF ResetInv
<1> QED
  BY <1>6, <1>9

\* After a revokeAll nothing is live, and what is yet to be inserted is late.
LEMMA RevokeSteps ==
  ASSUME TypeInv, NEW j \in Job, RevokeAll(j)
  PROVE  EndInv' /\ ResetInv'
<1>1. \A x \in Token : ~(token'[x].state = "live")
  BY Revoked
<1>2. \A k \in Job : job'[k].pc = "create" => job'[k].late = TRUE
  <2>1. job'[j].pc # "create"
    <3>1. job[j] \in Handler
      BY DEF TypeInv, JobsOK
    <3>2. [job[j] EXCEPT !.pc = "refuse"].pc = "refuse"
      BY <3>1 DEF Handler
    <3> QED
      BY <3>2, Revoked, EmptySlot
  <2>2. ASSUME NEW k \in Job, k # j PROVE job'[k].pc = "create" => job'[k].late = TRUE
    BY <2>2, Revoked DEF SameButLate
  <2> QED
    BY <2>1, <2>2
<1> QED
  BY <1>1, <1>2 DEF EndInv, ResetInv, RevokedSessionsStayEnded, ResetEndsOldSessions, Live

\* From the new password on, until its revokeAll, the reset is unfinished.
LEMMA ResetSteps ==
  ASSUME TypeInv, EndInv, ResetInv, NEW j \in Job, ResetWrite(j)
  PROVE  EndInv' /\ ResetInv'
<1>1. /\ UNCHANGED <<token, ended>>
      /\ \A k \in Job \ {j} : job'[k] = job[k]
      /\ job'[j].op = "reset" /\ job'[j].pc = "revokeAll"
  BY DEF ResetWrite, ghosts, history, TypeInv, JobsOK, Handler
<1>2. Unfinished'
  BY <1>1 DEF Unfinished, Revoking
<1>3. RevokedSessionsStayEnded'
  BY <1>1 DEF EndInv, RevokedSessionsStayEnded, Live
<1>4. EndInv'
  BY <1>1, <1>3 DEF EndInv
<1>5. ResetEndsOldSessions'
  BY <1>2 DEF ResetEndsOldSessions, Unfinished, Revoking
<1> QED
  BY <1>2, <1>4, <1>5 DEF ResetInv

LEMMA SessionInit == Init => EndInv /\ ResetInv
BY DEF Init, EndInv, ResetInv, RevokedSessionsStayEnded, ResetEndsOldSessions, Live,
   NoRow, NoHandler

LEMMA SessionNext ==
  TypeInv /\ EndInv /\ ResetInv /\ [Next]_vars => EndInv' /\ ResetInv'
<1> SUFFICES ASSUME TypeInv, EndInv, ResetInv, [Next]_vars
             PROVE  EndInv' /\ ResetInv'
  OBVIOUS
<1>1. Plain => EndInv' /\ ResetInv'
  BY EndPlain, ResetPlain
<1>2. CASE UNCHANGED vars
  BY <1>1, <1>2, PlainSteps
<1>3. ASSUME NEW j \in Job, Serve(j)
      PROVE  EndInv' /\ ResetInv'
  <2>1. CASE RotateFind(j)
    BY <2>1, CheckSteps
  <2>2. CASE \E x \in Token : RotateCreate(j, x) \/ LoginIssue(j, x)
    BY <2>2, MintSteps
  <2>3. CASE RotateRetire(j)
    BY <2>3, RowSteps
  <2>4. CASE RevokeAll(j)
    BY <2>4, RevokeSteps
  <2>5. CASE ResetWrite(j)
    BY <2>5, ResetSteps
  <2>6. CASE Refreshed(j) \/ RefreshRefused(j) \/ SignedIn(j) \/ Dropped(j)
    BY <1>1, <2>6, PlainSteps
  <2> QED
    BY <1>3, <2>1, <2>2, <2>3, <2>4, <2>5, <2>6 DEF Serve
<1>4. ASSUME NEW j \in Job, NEW t \in Tab, LoginVerify(j, t)
      PROVE  EndInv' /\ ResetInv'
  BY <1>4, CheckSteps
<1>5. ASSUME NEW x \in Token, Logout(x) \/ Expire(x)
      PROVE  EndInv' /\ ResetInv'
  BY <1>5, RowSteps
<1>6. ASSUME NEW j \in Job, Cut(j) \/ Crash(j)
      PROVE  EndInv' /\ ResetInv'
  BY <1>1, <1>6, PlainSteps
<1> QED
  BY <1>1, <1>2, <1>3, <1>4, <1>5, <1>6, PlainSteps DEF Next

LEMMA SessionInvariant == Spec => [](TypeInv /\ EndInv /\ ResetInv)
BY TypeInit, TypeNext, SessionInit, SessionNext, PTL DEF Spec

\* Whatever interleaves, a session that a revokeAll found goes on only through a
\* refresh that had passed its look-up before.
THEOREM RevocationIsFinal == Spec => []RevokedSessionsStayEnded
<1>1. EndInv => RevokedSessionsStayEnded
  BY DEF EndInv
<1> QED
  BY <1>1, SessionInvariant, PTL

\* A session opened with a replaced password lives on only in what was issued
\* by a handler that revokeAll overtook, or while the reset is unfinished.
THEOREM ResetIsEffective == Spec => []ResetEndsOldSessions
<1>1. ResetInv => ResetEndsOldSessions
  BY DEF ResetInv
<1> QED
  BY <1>1, SessionInvariant, PTL

----------------------------------------------------------------------------
(* One live token. *)

\* A token whose replacement is there, and that is about to be revoked.
Superseded(x) == \E k \in Job : job[k].pc = "retire" /\ job[k].tok = x
Current(x) == Live(x) /\ ~Superseded(x)

Creating(h) == h.op = "rotate" /\ h.pc = "create"
Unraced(x) == token[x].session \notin raced
SameSession(x, y) == token[x].session = token[y].session

\* In a session that did not race, one token is current ...
OneCurrent == \A x, y \in Token : Current(x) /\ Current(y) /\ SameSession(x, y) /\ Unraced(x) => x = y

\* ... it is the one that a refresh about to mint has found good ...
CurrentPresented ==
  \A j \in Job, x \in Token :
    Creating(job[j]) /\ Current(x) /\ SameSession(x, job[j].tok) /\ Unraced(x) => x = job[j].tok

\* ... and no other refresh is about to mint, or to revoke the same token.
OneCreates ==
  \A j, k \in Job :
    /\ Creating(job[j]) /\ Creating(job[k])
    /\ SameSession(job[j].tok, job[k].tok) /\ Unraced(job[j].tok)
    => j = k
OneRetires ==
  \A j, k \in Job :
    /\ job[j].pc = "retire" \/ Creating(job[j])
    /\ job[k].pc = "retire"
    /\ job[j].tok = job[k].tok /\ Unraced(job[k].tok)
    => j = k

LiveInv == OneCurrent /\ CurrentPresented /\ OneCreates /\ OneRetires

LEMMA HeldTokens ==
  ASSUME TypeInv, NEW k \in Job, job[k].pc = "retire" \/ Creating(job[k])
  PROVE  job[k].tok \in Minted /\ job[k].tok \in Token
BY DEF TypeInv, JobsOK, HandlerOK, Exchanging, Creating, Minted

\* What a step does to a handler that adds no token and finds none good: one
\* that was to revoke still is, or its token is live no more, or the session
\* counts as raced.
GoesOn(k) ==
  /\ Creating(job'[k]) => Creating(job[k]) /\ job'[k].tok = job[k].tok
  /\ job'[k].pc = "retire" => job[k].pc = "retire" /\ job'[k].tok = job[k].tok
  /\ job[k].pc = "retire" => \/ job'[k].pc = "retire" /\ job'[k].tok = job[k].tok
                             \/ token'[job[k].tok].state # "live"
                             \/ token'[job[k].tok].session \in raced'

Fewer ==
  /\ raced \subseteq raced'
  /\ \A x \in Token : /\ token'[x].session = token[x].session
                      /\ token'[x].state = "live" => token[x].state = "live"
  /\ \A k \in Job : GoesOn(k)

LEMMA LiveFewer ==
  ASSUME TypeInv, LiveInv, Fewer
  PROVE  LiveInv'
<1>1. \A k \in Job : GoesOn(k)
  BY DEF Fewer
<1>2. ASSUME NEW x \in Token, Current(x)', Unraced(x)'
      PROVE  Current(x) /\ Unraced(x)
  <2>1. Live(x) /\ Unraced(x)
    BY <1>2 DEF Fewer, Current, Live, Unraced
  <2>2. ASSUME NEW k \in Job, job[k].pc = "retire", job[k].tok = x
        PROVE  job'[k].pc = "retire" /\ job'[k].tok = x
    BY <1>1, <1>2, <2>2 DEF GoesOn, Current, Live, Unraced
  <2> QED
    BY <1>2, <2>1, <2>2 DEF Current, Superseded
<1>3. ASSUME NEW k \in Job, job'[k].pc = "retire" \/ Creating(job'[k])
      PROVE  /\ job'[k].tok = job[k].tok /\ job[k].tok \in Token
             /\ job'[k].pc = "retire" => job[k].pc = "retire"
             /\ Creating(job'[k]) => Creating(job[k])
             /\ token'[job[k].tok].session = token[job[k].tok].session
             /\ Unraced(job[k].tok)' => Unraced(job[k].tok)
  <2>1. /\ job'[k].tok = job[k].tok
        /\ job'[k].pc = "retire" => job[k].pc = "retire"
        /\ Creating(job'[k]) => Creating(job[k])
    BY <1>1, <1>3 DEF GoesOn
  <2>2. job[k].tok \in Token
    BY <1>3, <2>1, HeldTokens
  <2> QED
    BY <2>1, <2>2 DEF Fewer, Unraced
<1>4. OneCurrent'
  <2> SUFFICES ASSUME NEW x \in Token, NEW y \in Token, Current(x)', Current(y)',
                      SameSession(x, y)', Unraced(x)'
               PROVE  x = y
    BY DEF OneCurrent
  <2>1. SameSession(x, y) /\ Unraced(y)'
    BY DEF Fewer, SameSession, Unraced
  <2> QED
    BY <1>2, <2>1 DEF LiveInv, OneCurrent
<1>5. CurrentPresented'
  <2> SUFFICES ASSUME NEW j \in Job, NEW x \in Token, Creating(job[j])', Current(x)',
                      SameSession(x, job[j].tok)', Unraced(x)'
               PROVE  x = job'[j].tok
    BY DEF CurrentPresented
  <2>1. /\ job'[j].tok = job[j].tok /\ Creating(job[j])
        /\ token'[job[j].tok].session = token[job[j].tok].session
    BY <1>3 DEF Creating
  <2>2. SameSession(x, job[j].tok)
    BY <2>1 DEF Fewer, SameSession
  <2> QED
    BY <1>2, <2>1, <2>2 DEF LiveInv, CurrentPresented
<1>6. OneCreates'
  <2> SUFFICES ASSUME NEW j \in Job, NEW k \in Job, Creating(job'[j]), Creating(job'[k]),
                      SameSession(job[j].tok, job[k].tok)', Unraced(job[j].tok)'
               PROVE  j = k
    BY DEF OneCreates, Creating
  <2>1. /\ Creating(job[j]) /\ Creating(job[k]) /\ Unraced(job[j].tok)
        /\ SameSession(job[j].tok, job[k].tok)
    BY <1>3 DEF SameSession, Creating
  <2> QED
    BY <2>1 DEF LiveInv, OneCreates
<1>7. OneRetires'
  <2> SUFFICES ASSUME NEW j \in Job, NEW k \in Job, job'[j].pc = "retire" \/ Creating(job'[j]),
                      job'[k].pc = "retire", job'[j].tok = job'[k].tok, Unraced(job[k].tok)'
               PROVE  j = k
    BY DEF OneRetires, Creating
  <2>1. /\ job[j].pc = "retire" \/ Creating(job[j])
        /\ job[k].pc = "retire" /\ job[j].tok = job[k].tok /\ Unraced(job[k].tok)
    BY <1>3
  <2> QED
    BY <2>1 DEF LiveInv, OneRetires
<1> QED
  BY <1>4, <1>5, <1>6, <1>7 DEF LiveInv

\* A refresh whose token is good goes on, and the session counts as raced when
\* another had found the same.
LEMMA LiveFind ==
  ASSUME TypeInv, LiveInv, NEW j \in Job, RotateFind(j)
  PROVE  LiveInv'
<1> DEFINE x == job[j].tok
<1>0. /\ token' = token /\ raced \subseteq raced' /\ x \in Token
      /\ job[j] \in Handler /\ job[j].pc = "find" /\ job[j].op = "rotate"
  BY DEF RotateFind, TypeInv, JobsOK, HandlerOK, Exchanging, Minted
<1>1. /\ \A k \in Job \ {j} : job'[k] = job[k]
      /\ job'[j].tok = x /\ job'[j].op = "rotate"
      /\ job'[j].pc \in {"revokeAll", "refuse", "create"}
      /\ job'[j].pc = "create" => Live(x) /\ ~token[x].expired
  BY <1>0 DEF RotateFind, TypeInv, JobsOK, Handler
<1>2. CASE job'[j].pc # "create"
  <2>1. \A k \in Job : GoesOn(k)
    BY <1>0, <1>1, <1>2 DEF GoesOn, Creating
  <2> QED
    BY <1>0, <2>1, LiveFewer DEF Fewer
<1>3. CASE job'[j].pc = "create" /\ Overlaps(j, x)
  <2>1. token[x].session \in raced'
    BY <1>1, <1>3 DEF RotateFind
  <2>2. \A y \in Token : Superseded(y)' <=> Superseded(y)
    BY <1>0, <1>1 DEF Superseded
  <2>3. \A y \in Token : Current(y)' <=> Current(y)
    BY <1>0, <2>2 DEF Current, Live
  <2>4. OneCurrent'
    BY <1>0, <2>3 DEF LiveInv, OneCurrent, SameSession, Unraced
  <2>5. CurrentPresented'
    BY <1>0, <1>1, <2>1, <2>3 DEF LiveInv, CurrentPresented, SameSession, Unraced
  <2>6. OneCreates'
    BY <1>0, <1>1, <2>1 DEF LiveInv, OneCreates, SameSession, Unraced
  <2>7. OneRetires'
    BY <1>0, <1>1, <1>3, <2>1 DEF LiveInv, OneRetires, Unraced
  <2> QED
    BY <2>4, <2>5, <2>6, <2>7 DEF LiveInv
<1>4. CASE job'[j].pc = "create" /\ ~Overlaps(j, x)
  <2>1. raced' = raced
    BY <1>4 DEF RotateFind
  <2>2. \A k \in Job : ~(job[k].pc = "retire" /\ job[k].tok = x)
                    /\ ~(Creating(job[k]) /\ job[k].tok = x)
    <3>1. \A k \in Job : job[k].pc = "retire" => job[k].op = "rotate"
      BY DEF TypeInv, JobsOK, HandlerOK
    <3> QED
      BY <1>0, <1>4, <3>1 DEF Overlaps, Creating
  <2>3. Current(x)
    BY <1>1, <1>4, <2>2 DEF Current, Superseded
  <2>4. \A y \in Token : Superseded(y)' <=> Superseded(y)
    BY <1>0, <1>1, <1>4 DEF Superseded
  <2>5. \A y \in Token : Current(y)' <=> Current(y)
    BY <1>0, <2>4 DEF Current, Live
  <2>6. OneCurrent'
    BY <1>0, <2>1, <2>5 DEF LiveInv, OneCurrent, SameSession, Unraced
  <2>7. CurrentPresented'
    <3> SUFFICES ASSUME NEW k \in Job, NEW y \in Token, Creating(job'[k]), Current(y)',
                        SameSession(y, job[k].tok)', Unraced(y)'
                 PROVE  y = job'[k].tok
      BY DEF CurrentPresented, Creating
    <3>1. CASE k = j
      BY <1>0, <1>1, <2>1, <2>3, <2>5, <3>1 DEF LiveInv, OneCurrent, SameSession, Unraced
    <3>2. CASE k # j
      BY <1>0, <1>1, <2>1, <2>5, <3>2 DEF LiveInv, CurrentPresented, SameSession, Unraced
    <3> QED
      BY <3>1, <3>2
  <2>8. ASSUME NEW k \in Job, k # j, Creating(job[k]), SameSession(x, job[k].tok), Unraced(x)
        PROVE  FALSE
    BY <1>0, <2>2, <2>3, <2>8 DEF LiveInv, CurrentPresented
  <2>9. OneCreates'
    <3> SUFFICES ASSUME NEW i \in Job, NEW k \in Job, Creating(job'[i]), Creating(job'[k]),
                        token[job'[i].tok].session = token[job'[k].tok].session,
                        token[job'[i].tok].session \notin raced
                 PROVE  i = k
      BY <1>0, <2>1 DEF OneCreates, Creating, SameSession, Unraced
    <3>1. CASE i # j /\ k # j
      BY <1>1, <3>1 DEF LiveInv, OneCreates, SameSession, Unraced
    <3>2. CASE i = j /\ k # j
      BY <1>1, <2>8, <3>2 DEF SameSession, Unraced
    <3>3. CASE i # j /\ k = j
      BY <1>1, <2>8, <3>3 DEF SameSession, Unraced
    <3> QED
      BY <3>1, <3>2, <3>3
  <2>10. OneRetires'
    <3> SUFFICES ASSUME NEW i \in Job, NEW k \in Job, job'[i].pc = "retire" \/ Creating(job'[i]),
                        job'[k].pc = "retire", job'[i].tok = job'[k].tok,
                        token[job'[k].tok].session \notin raced
                 PROVE  i = k
      BY <1>0, <2>1 DEF OneRetires, Creating, Unraced
    <3>1. k # j /\ job'[k] = job[k]
      BY <1>1
    <3>2. CASE i = j
      BY <1>1, <2>2, <3>1, <3>2
    <3>3. CASE i # j
      BY <1>1, <3>1, <3>3 DEF LiveInv, OneRetires, Unraced
    <3> QED
      BY <3>2, <3>3
  <2> QED
    BY <2>6, <2>7, <2>9, <2>10 DEF LiveInv
<1> QED
  BY <1>2, <1>3, <1>4

\* The replacement is current from its insert on, the token presented no more.
LEMMA LiveCreate ==
  ASSUME TypeInv, LiveInv, NEW j \in Job, NEW x \in Token, RotateCreate(j, x)
  PROVE  LiveInv'
<1> DEFINE old == job[j].tok
<1>1. /\ Creating(job[j]) /\ old \in Token /\ old \in Minted
      /\ x \notin Minted /\ raced' = raced /\ raced \subseteq Minted
  BY HeldTokens DEF RotateCreate, Creating, New, ghosts, history, TypeInv, StoreOK
<1>2. /\ token[old].session \in Token \cup {None} /\ token[old].secret \in Nat
      /\ (job[j].late \/ token[old].late) \in BOOLEAN
  BY MintArguments DEF RotateCreate
<1>3. New(x) /\ Mint(x, token[old].session, token[old].secret, job[j].late \/ token[old].late)
  BY DEF RotateCreate
<1>4. /\ \A y \in Token \ {x} : token'[y] = token[y]
      /\ token'[x].session = token[old].session /\ token'[x].state = "live"
  <2>1. /\ \A y \in Token \ {x} : token'[y] = token[y]
        /\ token'[x] = NewRow(token[old].session, token[old].secret, job[j].late \/ token[old].late)
    BY <1>2, <1>3, MintRow
  <2> QED
    BY <2>1 DEF NewRow
<1>5. /\ \A k \in Job \ {j} : job'[k] = job[k]
      /\ job'[j].pc = "retire" /\ job'[j].tok = old /\ job'[j].op = "rotate"
  <2> DEFINE h == [job[j] EXCEPT !.pc = "retire", !.new = x]
  <2>1. h.op = "rotate" /\ h.tok = old /\ h.pc = "retire"
    BY <1>1 DEF Creating, TypeInv, JobsOK, Handler
  <2>2. job' = [job EXCEPT ![j] = h]
    BY DEF RotateCreate, TypeInv, JobsOK
  <2> HIDE DEF h
  <2> QED
    BY <2>1, <2>2 DEF TypeInv, JobsOK
<1>6. \A k \in Job : job[k].pc = "retire" \/ Creating(job[k]) =>
        job[k].tok \in Token /\ job[k].tok \in Minted /\ job[k].tok # x
  BY <1>1, HeldTokens
<1>7. ASSUME NEW y \in Token, y # x, Current(y)'
      PROVE  Current(y) /\ y # old
  <2>1. y # old
    BY <1>5, <1>7 DEF Current, Superseded
  <2>2. ~Superseded(y)
    BY <1>1, <1>5, <1>7 DEF Current, Superseded, Creating
  <2> QED
    BY <1>4, <1>7, <2>1, <2>2 DEF Current, Live
\* In the session of the new token nothing else is current ...
<1>8. ASSUME NEW y \in Token, y # x, Current(y)', token[y].session = token[old].session,
             token[old].session \notin raced
      PROVE  FALSE
  <2>1. Current(y) /\ y # old
    BY <1>7, <1>8
  <2> QED
    BY <1>1, <1>8, <2>1 DEF LiveInv, CurrentPresented, SameSession, Unraced
\* ... and no other refresh is about to mint.
<1>9. ASSUME NEW k \in Job, Creating(job'[k])
      PROVE  /\ job'[k] = job[k] /\ k # j /\ Creating(job[k]) /\ job[k].tok \in Token
             /\ token'[job[k].tok] = token[job[k].tok]
             /\ token[job[k].tok].session = token[old].session => token[old].session \in raced
  <2>1. job'[k] = job[k] /\ k # j /\ Creating(job[k])
    BY <1>5, <1>9 DEF Creating
  <2>2. job[k].tok \in Token /\ job[k].tok # x
    BY <1>6, <2>1
  <2>3. token[job[k].tok].session = token[old].session => token[old].session \in raced
    BY <1>1, <2>1 DEF LiveInv, OneCreates, SameSession, Unraced
  <2> QED
    BY <1>4, <2>1, <2>2, <2>3
<1>10. OneCurrent'
  <2> SUFFICES ASSUME NEW y \in Token, NEW z \in Token, Current(y)', Current(z)',
                      token'[y].session = token'[z].session, token'[y].session \notin raced
               PROVE  y = z
    BY <1>1 DEF OneCurrent, SameSession, Unraced
  <2>1. CASE y # x /\ z # x
    <3>1. Current(y) /\ Current(z)
      BY <1>7, <2>1
    <3> QED
      BY <1>4, <2>1, <3>1 DEF LiveInv, OneCurrent, SameSession, Unraced
  <2>2. CASE y = x /\ z # x
    BY <1>4, <1>8, <2>2
  <2>3. CASE y # x /\ z = x
    BY <1>4, <1>8, <2>3
  <2> QED
    BY <2>1, <2>2, <2>3
<1>11. CurrentPresented'
  <2> SUFFICES ASSUME NEW k \in Job, NEW y \in Token, Creating(job'[k]), Current(y)',
                      token'[y].session = token'[job'[k].tok].session, token'[y].session \notin raced
               PROVE  y = job'[k].tok
    BY <1>1 DEF CurrentPresented, Creating, SameSession, Unraced
  <2>1. CASE y = x
    BY <1>4, <1>9, <2>1
  <2>2. CASE y # x
    <3>1. Current(y)
      BY <1>7, <2>2
    <3> QED
      BY <1>4, <1>9, <2>2, <3>1 DEF LiveInv, CurrentPresented, SameSession, Unraced
  <2> QED
    BY <2>1, <2>2
<1>12. OneCreates'
  <2> SUFFICES ASSUME NEW i \in Job, NEW k \in Job, Creating(job'[i]), Creating(job'[k]),
                      token'[job'[i].tok].session = token'[job'[k].tok].session,
                      token'[job'[i].tok].session \notin raced
               PROVE  i = k
    BY <1>1 DEF OneCreates, Creating, SameSession, Unraced
  <2> QED
    BY <1>9 DEF LiveInv, OneCreates, SameSession, Unraced
<1>13. OneRetires'
  <2> SUFFICES ASSUME NEW i \in Job, NEW k \in Job, job'[i].pc = "retire" \/ Creating(job'[i]),
                      job'[k].pc = "retire", job'[i].tok = job'[k].tok,
                      token'[job'[k].tok].session \notin raced
               PROVE  i = k
    BY <1>1 DEF OneRetires, Creating, Unraced
  <2>1. /\ i # j => job'[i] = job[i] /\ (job[i].pc = "retire" \/ Creating(job[i]))
        /\ k # j => job'[k] = job[k] /\ job[k].pc = "retire"
    BY <1>5
  <2>2. job'[k].tok \in Token /\ token'[job'[k].tok] = token[job'[k].tok]
    BY <1>1, <1>4, <1>5, <1>6, <2>1
  <2>3. CASE i # j /\ k # j
    BY <2>1, <2>2, <2>3 DEF LiveInv, OneRetires, Unraced
  <2>4. CASE i = j /\ k # j
    BY <1>1, <1>5, <2>1, <2>2, <2>4 DEF LiveInv, OneRetires, Unraced
  <2>5. CASE i # j /\ k = j
    <3>1. i # j /\ job[i].tok = old /\ token[old].session \notin raced
      BY <1>5, <2>1, <2>2, <2>5
    <3>2. CASE Creating(job[i])
      BY <1>1, <3>1, <3>2 DEF LiveInv, OneCreates, SameSession, Unraced
    <3>3. CASE job[i].pc = "retire"
      BY <1>1, <3>1, <3>3 DEF LiveInv, OneRetires, Unraced
    <3> QED
      BY <2>1, <2>5, <3>2, <3>3
  <2> QED
    BY <2>3, <2>4, <2>5
<1> QED
  BY <1>10, <1>11, <1>12, <1>13 DEF LiveInv

\* A sign-in begins a session of its own.
LEMMA LiveIssue ==
  ASSUME TypeInv, LiveInv, NEW j \in Job, NEW x \in Token, LoginIssue(j, x)
  PROVE  LiveInv'
<1>1. /\ x \notin Minted /\ raced' = raced /\ job[j].op = "login" /\ job[j].pc = "create"
  BY DEF LoginIssue, New, ghosts, history
<1>2. job[j].secret \in Nat /\ job[j].late \in BOOLEAN
  BY MintArguments
<1>3. New(x) /\ Mint(x, x, job[j].secret, job[j].late)
  BY DEF LoginIssue
<1>4. /\ \A y \in Token \ {x} : token'[y] = token[y]
      /\ token'[x].session = x /\ token'[x].state = "live"
  <2>1. /\ \A y \in Token \ {x} : token'[y] = token[y]
        /\ token'[x] = NewRow(x, job[j].secret, job[j].late)
    BY <1>2, <1>3, MintRow
  <2> QED
    BY <2>1 DEF NewRow
<1>5. \A k \in Job \ {j} : job'[k] = job[k]
  BY DEF LoginIssue, TypeInv, JobsOK
<1>6. job'[j].pc = "answer"
  BY DEF LoginIssue, TypeInv, JobsOK, Handler
<1>7. \A k \in Job : job'[k].pc = "retire" \/ Creating(job'[k]) =>
        /\ k # j /\ job'[k] = job[k] /\ job[k].tok \in Token /\ job[k].tok \in Minted
        /\ job[k].tok # x /\ token'[job[k].tok] = token[job[k].tok]
  BY <1>1, <1>4, <1>5, <1>6, HeldTokens DEF Creating
<1>8. ASSUME NEW y \in Token, y # x, Current(y)'
      PROVE  Current(y) /\ token'[y] = token[y] /\ token[y].session # x
  <2>1. Live(y) /\ token'[y] = token[y]
    BY <1>4, <1>8 DEF Current, Live
  <2>2. token[y].session # x
    BY <1>1, <2>1 DEF Live, TypeInv, StoreOK, Minted
  <2>3. ~Superseded(y)
    BY <1>1, <1>5, <1>8 DEF Current, Superseded
  <2> QED
    BY <2>1, <2>2, <2>3 DEF Current
<1>9. \A y \in Minted : token[y].session # x
  BY <1>1 DEF TypeInv, StoreOK
<1>10. OneCurrent'
  <2> SUFFICES ASSUME NEW y \in Token, NEW z \in Token, Current(y)', Current(z)',
                      token'[y].session = token'[z].session, token'[y].session \notin raced
               PROVE  y = z
    BY <1>1 DEF OneCurrent, SameSession, Unraced
  <2> QED
    BY <1>4, <1>8 DEF LiveInv, OneCurrent, SameSession, Unraced
<1>11. CurrentPresented'
  <2> SUFFICES ASSUME NEW k \in Job, NEW y \in Token, Creating(job'[k]), Current(y)',
                      token'[y].session = token'[job'[k].tok].session, token'[y].session \notin raced
               PROVE  y = job'[k].tok
    BY <1>1 DEF CurrentPresented, Creating, SameSession, Unraced
  <2>1. y # x
    BY <1>4, <1>7, <1>9
  <2> QED
    BY <1>7, <1>8, <2>1 DEF LiveInv, CurrentPresented, SameSession, Unraced
<1>12. OneCreates'
  BY <1>1, <1>7 DEF LiveInv, OneCreates, SameSession, Unraced
<1>13. OneRetires'
  BY <1>1, <1>7 DEF LiveInv, OneRetires, Unraced
<1> QED
  BY <1>10, <1>11, <1>12, <1>13 DEF LiveInv

LEMMA GoesOnSame == \A k : job'[k] = job[k] => GoesOn(k)
BY DEF GoesOn

LEMMA FewerSteps ==
  ASSUME TypeInv,
         \/ \E j \in Job : RotateRetire(j) \/ RevokeAll(j) \/ ResetWrite(j)
         \/ \E j \in Job : Refreshed(j) \/ RefreshRefused(j) \/ SignedIn(j) \/ Dropped(j)
         \/ \E c \in Call : Answered(c) \/ Unauthorized(c)
         \/ \E c \in Call, t \in Tab : Send(c, t)
         \/ \E t \in Tab : SignOut(t) \/ Reload(t)
         \/ \E j \in Job, t \in Tab : LoginVerify(j, t)
         \/ \E j \in Job, l \in Link : ResetCheck(j, l)
         \/ \E l \in Link : RequestReset(l)
         \/ \E x \in Token : Logout(x) \/ Expire(x)
         \/ \E j \in Job : Cut(j) \/ Crash(j)
         \/ UNCHANGED vars
  PROVE  Fewer
<1>1. ASSUME UNCHANGED <<token, raced, job>> PROVE Fewer
  BY <1>1, GoesOnSame DEF Fewer
<1>2. ASSUME NEW j \in Job, NEW h, job' = [job EXCEPT ![j] = h],
             UNCHANGED token, raced \subseteq raced',
             ~Creating(h), h.pc # "retire", job[j].pc = "retire" => token[job[j].tok].session \in raced'
      PROVE  Fewer
  <2>1. \A k \in Job : job'[k] = IF k = j THEN h ELSE job[k]
    BY <1>2 DEF TypeInv, JobsOK
  <2>2. GoesOn(j)
    BY <1>2, <2>1 DEF GoesOn
  <2> QED
    BY <1>2, <2>1, <2>2, GoesOnSame DEF Fewer
<1>3. ASSUME NEW j \in Job, RotateRetire(j) PROVE Fewer
  <2>1. job[j] \in Handler /\ job[j].tok \in Token
    BY <1>3, HeldTokens DEF RotateRetire, TypeInv, JobsOK
  <2>2. \A y \in Token : /\ token'[y].session = token[y].session
                         /\ token'[y].state = "live" => token[y].state = "live"
                         /\ y = job[j].tok => token'[y].state = "revoked"
    BY <1>3 DEF RotateRetire, TypeInv, StoreOK, Row
  <2>3. /\ \A k \in Job \ {j} : job'[k] = job[k]
        /\ job'[j].pc = "answer"
    BY <1>3, <2>1 DEF RotateRetire, TypeInv, JobsOK, Handler
  <2>4. GoesOn(j)
    BY <2>1, <2>2, <2>3 DEF GoesOn, Creating
  <2>5. raced' = raced
    BY <1>3 DEF RotateRetire, ghosts, history
  <2> QED
    BY <2>2, <2>3, <2>4, <2>5, GoesOnSame DEF Fewer
<1>4. ASSUME NEW j \in Job, RevokeAll(j) PROVE Fewer
  <2>1. \A x \in Token : token'[x].state # "live" /\ token'[x].session = token[x].session
    BY <1>4, Revoked
  <2>2. raced' = raced /\ job[j].pc = "revokeAll"
    BY <1>4 DEF RevokeAll
  <2>3. ASSUME NEW k \in Job, k # j PROVE GoesOn(k)
    <3>1. SameButLate(job[k], job'[k])
      BY <1>4, <2>3, Revoked
    <3> QED
      BY <3>1 DEF SameButLate, GoesOn, Creating
  <2>4. GoesOn(j)
    <3>1. job'[j].pc \in {"idle", "refuse"}
      <4>1. job[j] \in Handler
        BY DEF TypeInv, JobsOK
      <4>2. [job[j] EXCEPT !.pc = "refuse"].pc = "refuse"
        BY <4>1 DEF Handler
      <4> QED
        BY <1>4, <4>2, Revoked, EmptySlot
    <3> QED
      BY <2>2, <3>1 DEF GoesOn, Creating
  <2> QED
    BY <2>1, <2>2, <2>3, <2>4 DEF Fewer
<1>5. ASSUME NEW j \in Job, ResetWrite(j) PROVE Fewer
  <2>1. /\ UNCHANGED <<token, raced>> /\ job[j].pc = "write"
        /\ \A k \in Job \ {j} : job'[k] = job[k]
        /\ job'[j].pc = "revokeAll"
    BY <1>5 DEF ResetWrite, ghosts, history, TypeInv, JobsOK, Handler
  <2>2. GoesOn(j)
    BY <2>1 DEF GoesOn, Creating
  <2> QED
    BY <2>1, <2>2, GoesOnSame DEF Fewer
<1>6. ASSUME NEW j \in Job, Refreshed(j) \/ RefreshRefused(j) \/ SignedIn(j) \/ Dropped(j)
      PROVE  Fewer
  <2>1. /\ job' = [job EXCEPT ![j] = NoHandler] /\ job[j].pc \in {"answer", "refuse"}
        /\ UNCHANGED <<token, raced>>
    BY <1>6 DEF Refreshed, RefreshRefused, SignedIn, Dropped, ghosts, history
  <2> QED
    BY <1>2, <2>1, EmptySlot DEF Creating
<1>7. ASSUME NEW c \in Call, Answered(c) \/ Unauthorized(c) PROVE Fewer
  <2>1. UNCHANGED <<token, raced>>
    BY <1>7 DEF Answered, Unauthorized, ghosts, history
  <2>2. ASSUME NEW j \in Job, Free(j),
               job' = [job EXCEPT ![j] = [NoHandler EXCEPT
                 !.op = "rotate", !.pc = "find", !.tab = call[c].tab, !.tok = memory[call[c].tab]]]
        PROVE  Fewer
    <3> DEFINE h == [NoHandler EXCEPT
                 !.op = "rotate", !.pc = "find", !.tab = call[c].tab, !.tok = memory[call[c].tab]]
    <3>1. h.pc = "find" /\ job' = [job EXCEPT ![j] = h]
      BY <2>2 DEF NoHandler
    <3> HIDE DEF h
    <3>2. job[j].pc = "idle"
      BY <2>2 DEF Free
    <3> QED
      BY <1>2, <2>1, <3>1, <3>2 DEF Creating
  <2>3. CASE job' = job
    BY <1>1, <2>1, <2>3
  <2> QED
    BY <1>7, <2>2, <2>3 DEF Answered, Unauthorized
<1>8. ASSUME NEW t \in Tab, Reload(t) PROVE Fewer
  <2>1. ASSUME NEW k \in Job PROVE GoesOn(k)
    <3>1. job'[k] = IF job[k].tab = t THEN [job[k] EXCEPT !.tab = None] ELSE job[k]
      BY <1>8 DEF Reload
    <3>2. job'[k].op = job[k].op /\ job'[k].pc = job[k].pc /\ job'[k].tok = job[k].tok
      BY <3>1 DEF TypeInv, JobsOK, Handler
    <3> QED
      BY <3>2 DEF GoesOn, Creating
  <2> QED
    BY <1>8, <2>1 DEF Reload, Fewer
<1>9. ASSUME NEW j \in Job, NEW t \in Tab, LoginVerify(j, t) PROVE Fewer
  <2> DEFINE h == [NoHandler EXCEPT !.op = "login", !.pc = "create", !.tab = t, !.secret = password]
  <2>1. /\ h.op = "login" /\ h.pc = "create" /\ job' = [job EXCEPT ![j] = h]
        /\ UNCHANGED <<token, raced>> /\ job[j].pc = "idle"
    BY <1>9 DEF LoginVerify, NoHandler, Free, history
  <2> HIDE DEF h
  <2> QED
    BY <1>2, <2>1 DEF Creating
<1>10. ASSUME NEW j \in Job, NEW l \in Link, ResetCheck(j, l) PROVE Fewer
  <2> DEFINE h == [NoHandler EXCEPT !.op = "reset", !.pc = "write", !.link = l]
  <2>1. /\ h.pc = "write" /\ job' = [job EXCEPT ![j] = h]
        /\ UNCHANGED <<token, raced>> /\ job[j].pc = "idle"
    BY <1>10 DEF ResetCheck, NoHandler, Free
  <2> HIDE DEF h
  <2> QED
    BY <1>2, <2>1 DEF Creating
<1>11. ASSUME NEW x \in Token, Logout(x) \/ Expire(x) PROVE Fewer
  <2>1. \A y \in Token : /\ token'[y].session = token[y].session
                         /\ token'[y].state = "live" => token[y].state = "live"
    BY <1>11 DEF Logout, Expire, TypeInv, StoreOK, Row
  <2> QED
    BY <1>11, <2>1, GoesOnSame DEF Logout, Expire, Fewer
<1>12. ASSUME NEW j \in Job, Cut(j) PROVE Fewer
  <2>1. /\ \A k \in Job \ {j} : job'[k] = job[k]
        /\ job'[j].op = job[j].op /\ job'[j].pc = job[j].pc /\ job'[j].tok = job[j].tok
        /\ UNCHANGED <<token, raced>>
    BY <1>12 DEF Cut, TypeInv, JobsOK, Handler
  <2>2. GoesOn(j)
    BY <2>1 DEF GoesOn, Creating
  <2> QED
    BY <2>1, <2>2, GoesOnSame DEF Fewer
<1>13. ASSUME NEW j \in Job, Crash(j) PROVE Fewer
  <2>1. /\ job' = [job EXCEPT ![j] = NoHandler] /\ UNCHANGED token /\ raced \subseteq raced'
        /\ job[j].pc = "retire" => token[job[j].tok].session \in raced'
    BY <1>13 DEF Crash
  <2> QED
    BY <1>2, <2>1, EmptySlot DEF Creating
<1>14. ASSUME \/ \E c \in Call, t \in Tab : Send(c, t)
              \/ \E t \in Tab : SignOut(t)
              \/ \E l \in Link : RequestReset(l)
              \/ UNCHANGED vars
       PROVE  Fewer
  BY <1>1, <1>14 DEF Send, SignOut, RequestReset, history, vars
<1> QED
  BY <1>3, <1>4, <1>5, <1>6, <1>7, <1>8, <1>9, <1>10, <1>11, <1>12, <1>13, <1>14

LEMMA LiveInit == Init => LiveInv
BY DEF Init, LiveInv, OneCurrent, CurrentPresented, OneCreates, OneRetires, Current, Live,
   Creating, NoRow, NoHandler

LEMMA LiveNext ==
  TypeInv /\ LiveInv /\ [Next]_vars => LiveInv'
<1> SUFFICES ASSUME TypeInv, LiveInv, [Next]_vars PROVE LiveInv'
  OBVIOUS
<1>1. Fewer => LiveInv'
  BY LiveFewer
<1>2. ASSUME NEW j \in Job, Serve(j) PROVE LiveInv'
  <2>1. CASE RotateFind(j)
    BY <2>1, LiveFind
  <2>2. CASE \E x \in Token : RotateCreate(j, x) \/ LoginIssue(j, x)
    BY <2>2, LiveCreate, LiveIssue
  <2>3. CASE \/ RotateRetire(j) \/ RevokeAll(j) \/ ResetWrite(j)
             \/ Refreshed(j) \/ RefreshRefused(j) \/ SignedIn(j) \/ Dropped(j)
    BY <1>1, <2>3, FewerSteps
  <2> QED
    BY <1>2, <2>1, <2>2, <2>3 DEF Serve
<1> QED
  BY <1>1, <1>2, FewerSteps DEF Next

LEMMA LiveInvariant == Spec => [](TypeInv /\ LiveInv)
BY TypeInit, TypeNext, LiveInit, LiveNext, PTL DEF Spec

\* A session's live tokens: its current one, and those about to be revoked.
LEMMA LiveCount ==
  ASSUME TypeInv, LiveInv
  PROVE  OneLiveTokenPerSession
<1> SUFFICES ASSUME NEW s \in Token \ raced
             PROVE  Cardinality({x \in Token : Live(x) /\ token[x].session = s})
                      <= 1 + Cardinality({j \in Job : /\ job[j].pc = "retire"
                                                      /\ token[job[j].tok].session = s})
  BY DEF OneLiveTokenPerSession
<1> DEFINE L == {x \in Token : Live(x) /\ token[x].session = s}
           R == {j \in Job : job[j].pc = "retire" /\ token[job[j].tok].session = s}
           C == {x \in L : ~Superseded(x)}
           P == {job[j].tok : j \in R}
<1>1. IsFiniteSet(Token) /\ IsFiniteSet(Job)
  BY SessionAssumption DEF SessionAssumption
<1>2. /\ IsFiniteSet(L) /\ IsFiniteSet(R) /\ IsFiniteSet(C)
  <2>1. L \in SUBSET Token /\ R \in SUBSET Job /\ C \in SUBSET Token
    OBVIOUS
  <2> QED
    BY <1>1, <2>1, FS_Subset
<1>3. IsFiniteSet(P) /\ Cardinality(P) <= Cardinality(R)
  <2> DEFINE f == [j \in R |-> job[j].tok]
  <2>1. f \in Surjection(R, P)
    BY DEF Surjection
  <2> HIDE DEF f, R, P
  <2> QED
    BY <1>2, <2>1, FS_Surjection
<1>4. \A x, y \in C : x = y
  BY DEF LiveInv, OneCurrent, Current, SameSession, Unraced
<1>5. Cardinality(C) <= 1
  <2>1. CASE C = {}
    <3> HIDE DEF C
    <3>1. Cardinality(C) = 0
      BY <2>1, FS_EmptySet
    <3> QED
      BY <3>1
  <2>2. ASSUME NEW x \in C PROVE Cardinality(C) = 1
    <3>1. C = {x}
      BY <1>4, <2>2
    <3> HIDE DEF C
    <3> QED
      BY <3>1, FS_Singleton
  <2> HIDE DEF C
  <2> QED
    BY <2>1, <2>2
<1>6. L \in SUBSET (C \cup P)
  BY DEF Superseded
<1>7. /\ Cardinality(L) \in Nat /\ Cardinality(R) \in Nat
      /\ Cardinality(C) \in Nat /\ Cardinality(P) \in Nat
  <2> HIDE DEF L, R, C, P
  <2> QED
    BY <1>2, <1>3, FS_CardinalityType
<1>8. /\ IsFiniteSet(C \cup P) /\ IsFiniteSet(C \cap P)
      /\ Cardinality(C \cup P) = Cardinality(C) + Cardinality(P) - Cardinality(C \cap P)
  <2> HIDE DEF C, P
  <2>1. (C \cap P) \in SUBSET C
    OBVIOUS
  <2> QED
    BY <1>2, <1>3, <2>1, FS_Union, FS_Subset
<1>9. Cardinality(L) <= Cardinality(C \cup P) /\ Cardinality(C \cap P) \in Nat
  <2> HIDE DEF L, C, P
  <2> QED
    BY <1>6, <1>8, FS_Subset, FS_CardinalityType
<1> HIDE DEF L, R, C, P
<1>10. Cardinality(L) <= 1 + Cardinality(R)
  BY <1>3, <1>5, <1>7, <1>8, <1>9
<1> QED
  BY <1>10 DEF L, R

\* However sign-ins, refreshes, resets, log-outs and cut connections interleave,
\* a session that neither raced nor was cut short between the two writes of a
\* refresh has one live token, and one more for each refresh between its writes
\* (token.service.ts:93-99).
THEOREM RotationReplaces == Spec => []OneLiveTokenPerSession
BY LiveInvariant, LiveCount, PTL

----------------------------------------------------------------------------
(* Calm sessions. *)

\* The store's copy is the token of some tab.
DiskInv == disk # None => \E t \in Tab : memory[t] = disk

\* A refresh under way, and a handler that carries a minted token to its tab.
Rotating(h) == h.op = "rotate" /\ h.pc # "idle"
Bearing(h) == \/ h.op = "rotate" /\ h.pc = "retire"
              \/ h.op \in {"rotate", "login"} /\ h.pc = "answer"
Answering(h) == Rotating(h) /\ h.pc = "answer"

\* Nothing was revoked, refused or reset so far ...
CalmRows == \A x \in Token : ~token[x].expired
CalmSteps == \A j \in Job : job[j].pc \notin {"revokeAll", "refuse", "write"}

\* ... every refresh serves the tab whose refreshInFlight it is ...
CalmFlights ==
  \A j \in Job : Rotating(job[j]) =>
    job[j].tab \in Tab /\ refreshing[job[j].tab] = j /\ job[j].tok \in Minted

\* ... it alone presents its token, which no other tab holds, and which is good
\* until the refresh revokes it ...
CalmPresented ==
  \A j \in Job : Rotating(job[j]) =>
    /\ \A k \in Job : Rotating(job[k]) /\ job[k].tok = job[j].tok => k = j
    /\ \A t \in Tab : memory[t] = job[j].tok => t = job[j].tab
    /\ job[j].pc # "answer" => Live(job[j].tok)

\* ... a token on its way to a tab is good, and nobody else has it ...
CalmBorn ==
  \A j \in Job : Bearing(job[j]) =>
    /\ job[j].new \in Minted /\ Live(job[j].new)
    /\ \A t \in Tab : memory[t] # job[j].new
    /\ \A k \in Job : Rotating(job[k]) => job[k].tok # job[j].new
    /\ \A k \in Job : Bearing(job[k]) /\ job[k].new = job[j].new => k = j

\* ... and no two tabs share a token.
CalmTabs ==
  \A t \in Tab : memory[t] # None =>
    /\ \A u \in Tab : memory[u] = memory[t] => u = t
    /\ Live(memory[t]) \/ \E j \in Job : Answering(job[j]) /\ job[j].tok = memory[t]

CalmState == CalmRows /\ CalmSteps /\ CalmFlights /\ CalmPresented /\ CalmBorn /\ CalmTabs
CalmInv == calm => CalmState

\* A step that leaves every refresh with its tab and token, gives no tab a token
\* and mints none.
SameRefresh(k) ==
  /\ Rotating(job'[k]) <=> Rotating(job[k])
  /\ Rotating(job[k]) => /\ job'[k].tab = job[k].tab /\ job'[k].tok = job[k].tok
                         /\ job'[k].pc = "answer" <=> job[k].pc = "answer"
                         /\ refreshing'[job[k].tab] = refreshing[job[k].tab]
  /\ Bearing(job'[k]) => Bearing(job[k]) /\ job'[k].new = job[k].new
  /\ job'[k].pc \notin {"revokeAll", "refuse", "write"}

Alike ==
  /\ token' = token
  /\ \A t \in Tab : memory'[t] = memory[t] \/ memory'[t] = None
  /\ \A k \in Job : SameRefresh(k)

LEMMA CalmAlike ==
  ASSUME TypeInv, CalmState, Alike
  PROVE  CalmState'
<1>0. Minted' = Minted /\ None \notin Minted /\ token' = token
  BY SessionAssumption DEF Alike, Minted, SessionAssumption
<1>1. \A k \in Job : SameRefresh(k)
  BY DEF Alike
<1>2. CalmRows' /\ CalmSteps'
  BY <1>0, <1>1 DEF CalmState, CalmRows, CalmSteps, SameRefresh
<1>3. CalmFlights'
  BY <1>0, <1>1 DEF CalmState, CalmFlights, SameRefresh
<1>4. ASSUME NEW k \in Job, Rotating(job'[k])
      PROVE  /\ Rotating(job[k]) /\ job'[k].tab = job[k].tab /\ job'[k].tok = job[k].tok
             /\ job'[k].pc = "answer" <=> job[k].pc = "answer"
             /\ job[k].tok \in Minted
  BY <1>1, <1>4 DEF SameRefresh, CalmState, CalmFlights
<1>5. ASSUME NEW t \in Tab, memory'[t] # None
      PROVE  memory'[t] = memory[t]
  BY <1>5 DEF Alike
<1>6. CalmPresented'
  <2> SUFFICES ASSUME NEW j \in Job, Rotating(job'[j])
               PROVE  /\ \A k \in Job : Rotating(job'[k]) /\ job'[k].tok = job'[j].tok => k = j
                      /\ \A t \in Tab : memory'[t] = job'[j].tok => t = job'[j].tab
                      /\ job'[j].pc # "answer" => Live(job'[j].tok)
    BY <1>0 DEF CalmPresented, Rotating, Live
  <2>1. Rotating(job[j]) /\ job'[j].tok = job[j].tok /\ job[j].tok # None
    BY <1>0, <1>4
  <2> QED
    BY <1>4, <1>5, <2>1 DEF CalmState, CalmPresented
<1>7. CalmBorn'
  <2> SUFFICES ASSUME NEW j \in Job, Bearing(job'[j])
               PROVE  /\ job'[j].new \in Minted /\ Live(job'[j].new)
                      /\ \A t \in Tab : memory'[t] # job'[j].new
                      /\ \A k \in Job : Rotating(job'[k]) => job'[k].tok # job'[j].new
                      /\ \A k \in Job : Bearing(job'[k]) /\ job'[k].new = job'[j].new => k = j
    BY <1>0 DEF CalmBorn, Rotating, Bearing, Live
  <2>1. Bearing(job[j]) /\ job'[j].new = job[j].new
    BY <1>1 DEF SameRefresh
  <2>2. job[j].new # None
    BY <1>0, <2>1 DEF CalmState, CalmBorn
  <2>3. \A k \in Job : Bearing(job'[k]) => Bearing(job[k]) /\ job'[k].new = job[k].new
    BY <1>1 DEF SameRefresh
  <2> QED
    BY <1>4, <1>5, <2>1, <2>2, <2>3 DEF CalmState, CalmBorn
<1>8. CalmTabs'
  <2> SUFFICES ASSUME NEW t \in Tab, memory'[t] # None
               PROVE  /\ \A u \in Tab : memory'[u] = memory'[t] => u = t
                      /\ \/ Live(memory'[t])
                         \/ \E j \in Job : Answering(job'[j]) /\ job'[j].tok = memory'[t]
    BY <1>0 DEF CalmTabs, Answering, Rotating, Live
  <2>1. memory'[t] = memory[t]
    BY <1>5
  <2>2. \A u \in Tab : memory'[u] = memory'[t] => u = t
    BY <1>5, <2>1 DEF CalmState, CalmTabs
  <2>3. \/ Live(memory[t])
        \/ \E j \in Job : Answering(job[j]) /\ job[j].tok = memory[t]
    BY <2>1 DEF CalmState, CalmTabs
  <2>4. \A j \in Job : Answering(job[j]) => Answering(job'[j]) /\ job'[j].tok = job[j].tok
    BY <1>1 DEF SameRefresh, Answering
  <2> QED
    BY <2>1, <2>2, <2>3, <2>4
<1> QED
  BY <1>2, <1>3, <1>6, <1>7, <1>8 DEF CalmState

LEMMA SameRefreshSame ==
  ASSUME CalmState, NEW k \in Job, job'[k] = job[k],
         Rotating(job[k]) => refreshing'[job[k].tab] = refreshing[job[k].tab]
  PROVE  SameRefresh(k)
BY DEF SameRefresh, CalmState, CalmSteps

LEMMA NoneUnminted == None \notin Minted /\ None \notin Token
BY SessionAssumption DEF SessionAssumption, Minted

\* A tab begins a refresh: it has none under way, so no refresh has its token.
LEMMA CalmTake ==
  ASSUME TypeInv, CalmState, NEW t \in Tab, NEW j \in Job, NEW h,
         job[j].pc = "idle", job' = [job EXCEPT ![j] = h],
         h.op = "rotate", h.pc = "find", h.tab = t, h.tok = memory[t],
         memory[t] # None, refreshing[t] = None,
         refreshing' = [refreshing EXCEPT ![t] = j],
         UNCHANGED <<token, memory>>
  PROVE  CalmState'
<1>1. /\ Minted' = Minted /\ memory[t] \in Minted
      /\ \A k \in Job \ {j} : job'[k] = job[k]
      /\ job'[j] = h /\ Rotating(job'[j]) /\ ~Bearing(job'[j])
      /\ ~Rotating(job[j]) /\ ~Bearing(job[j])
  BY DEF TypeInv, StoreOK, JobsOK, Minted, Rotating, Bearing
<1>2. \A k \in Job : Rotating(job[k]) => /\ job[k].tab \in Tab /\ job[k].tab # t
                                         /\ refreshing[job[k].tab] = k /\ job[k].tok \in Minted
  BY SessionAssumption DEF SessionAssumption, CalmState, CalmFlights
<1>3. \A k \in Job : Rotating(job[k]) => job[k].tok # memory[t]
  BY <1>2 DEF CalmState, CalmPresented
<1>4. Live(memory[t])
  BY <1>3 DEF CalmState, CalmTabs, Answering
<1>5. CalmRows' /\ CalmSteps'
  BY <1>1 DEF CalmState, CalmRows, CalmSteps
<1>6. CalmFlights'
  <2> SUFFICES ASSUME NEW k \in Job, Rotating(job'[k])
               PROVE  job'[k].tab \in Tab /\ refreshing'[job'[k].tab] = k /\ job'[k].tok \in Minted
    BY <1>1 DEF CalmFlights, Rotating
  <2>1. CASE k = j
    BY <1>1, <2>1 DEF TypeInv, JobsOK
  <2>2. CASE k # j
    BY <1>1, <1>2, <2>2 DEF TypeInv, JobsOK
  <2> QED
    BY <2>1, <2>2
<1>7. CalmPresented'
  <2> SUFFICES ASSUME NEW i \in Job, Rotating(job'[i])
               PROVE  /\ \A k \in Job : Rotating(job'[k]) /\ job'[k].tok = job'[i].tok => k = i
                      /\ \A u \in Tab : memory[u] = job'[i].tok => u = job'[i].tab
                      /\ job'[i].pc # "answer" => Live(job'[i].tok)
    BY DEF CalmPresented, Rotating, Live
  <2>1. CASE i = j
    BY <1>1, <1>3, <1>4, <2>1 DEF CalmState, CalmTabs
  <2>2. CASE i # j
    BY <1>1, <1>3, <2>2 DEF CalmState, CalmPresented
  <2> QED
    BY <2>1, <2>2
<1>8. CalmBorn'
  <2> SUFFICES ASSUME NEW i \in Job, Bearing(job'[i])
               PROVE  /\ job'[i].new \in Minted /\ Live(job'[i].new)
                      /\ \A u \in Tab : memory[u] # job'[i].new
                      /\ \A k \in Job : Rotating(job'[k]) => job'[k].tok # job'[i].new
                      /\ \A k \in Job : Bearing(job'[k]) /\ job'[k].new = job'[i].new => k = i
    BY <1>1 DEF CalmBorn, Rotating, Bearing, Live
  <2>1. i # j /\ Bearing(job[i]) /\ job'[i] = job[i]
    BY <1>1
  <2> QED
    BY <1>1, <2>1 DEF CalmState, CalmBorn
<1>9. CalmTabs'
  <2> SUFFICES ASSUME NEW u \in Tab, memory[u] # None
               PROVE  /\ \A v \in Tab : memory[v] = memory[u] => v = u
                      /\ \/ Live(memory[u])
                         \/ \E k \in Job : Answering(job'[k]) /\ job'[k].tok = memory[u]
    BY DEF CalmTabs, Answering, Rotating, Live
  <2>1. \A k \in Job : Answering(job[k]) => Answering(job'[k]) /\ job'[k] = job[k]
    BY <1>1 DEF Answering
  <2> QED
    BY <2>1 DEF CalmState, CalmTabs
<1> QED
  BY <1>5, <1>6, <1>7, <1>8, <1>9 DEF CalmState

\* A token is minted: nobody has it yet.
LEMMA CalmMint ==
  ASSUME TypeInv, CalmState, NEW j \in Job, NEW x \in Token, x \notin Minted,
         NEW h, job' = [job EXCEPT ![j] = h], job[j].pc = "create",
         h.op = job[j].op, h.tab = job[j].tab, h.tok = job[j].tok, h.new = x,
         \/ h.op = "rotate" /\ h.pc = "retire"
         \/ h.op = "login" /\ h.pc = "answer",
         token'[x].state = "live", token'[x].expired = FALSE,
         \A y \in Token \ {x} : token'[y] = token[y],
         UNCHANGED <<memory, refreshing>>
  PROVE  CalmState'
<1>1. /\ Minted' = Minted \cup {x} /\ Minted \subseteq Token
      /\ \A y \in Minted : token'[y] = token[y]
  BY DEF Minted
<1>2. /\ \A k \in Job \ {j} : job'[k] = job[k]
      /\ job'[j] = h /\ ~Bearing(job[j])
      /\ Rotating(job'[j]) <=> Rotating(job[j])
      /\ ~Answering(job[j])
  BY DEF TypeInv, JobsOK, Rotating, Bearing, Answering
<1>3. /\ \A t \in Tab : memory[t] # x
      /\ \A k \in Job : Rotating(job[k]) => job[k].tok # x /\ job[k].tok \in Minted
      /\ \A k \in Job : Bearing(job[k]) => job[k].new # x /\ job[k].new \in Minted
  BY NoneUnminted DEF TypeInv, StoreOK, CalmState, CalmFlights, CalmBorn
<1>4. CalmRows' /\ CalmSteps'
  BY <1>2 DEF CalmState, CalmRows, CalmSteps
<1>5. CalmFlights'
  <2> SUFFICES ASSUME NEW k \in Job, Rotating(job'[k])
               PROVE  job'[k].tab \in Tab /\ refreshing[job'[k].tab] = k /\ job'[k].tok \in Minted'
    BY DEF CalmFlights, Rotating
  <2>1. Rotating(job[k]) /\ job'[k].tab = job[k].tab /\ job'[k].tok = job[k].tok
    BY <1>2
  <2> QED
    BY <1>1, <2>1 DEF CalmState, CalmFlights
<1>6. CalmPresented'
  <2>0. ASSUME NEW k \in Job, Rotating(job'[k])
        PROVE  /\ Rotating(job[k]) /\ job'[k].tab = job[k].tab /\ job'[k].tok = job[k].tok
               /\ job'[k].pc # "answer" => job[k].pc # "answer"
    BY <1>2, <2>0 DEF Rotating
  <2> SUFFICES ASSUME NEW i \in Job, Rotating(job'[i])
               PROVE  /\ \A k \in Job : Rotating(job'[k]) /\ job'[k].tok = job'[i].tok => k = i
                      /\ \A u \in Tab : memory[u] = job'[i].tok => u = job'[i].tab
                      /\ job'[i].pc # "answer" => token'[job'[i].tok].state = "live"
    BY DEF CalmPresented, Rotating, Live
  <2>1. token'[job[i].tok] = token[job[i].tok]
    BY <1>1, <1>3, <2>0
  <2> QED
    BY <2>0, <2>1 DEF CalmState, CalmPresented, Live
<1>7. CalmBorn'
  <2> SUFFICES ASSUME NEW i \in Job, Bearing(job'[i])
               PROVE  /\ job'[i].new \in Minted' /\ token'[job'[i].new].state = "live"
                      /\ \A u \in Tab : memory[u] # job'[i].new
                      /\ \A k \in Job : Rotating(job'[k]) => job'[k].tok # job'[i].new
                      /\ \A k \in Job : Bearing(job'[k]) /\ job'[k].new = job'[i].new => k = i
    BY DEF CalmBorn, Rotating, Bearing, Live
  <2>1. \A k \in Job : Rotating(job'[k]) => Rotating(job[k]) /\ job'[k].tok = job[k].tok
    BY <1>2
  <2>2. \A k \in Job \ {j} : Bearing(job'[k]) => Bearing(job[k]) /\ job'[k].new = job[k].new
    BY <1>2
  <2>3. CASE i = j
    BY <1>1, <1>2, <1>3, <2>1, <2>2, <2>3
  <2>4. CASE i # j
    BY <1>1, <1>2, <1>3, <2>1, <2>2, <2>4 DEF CalmState, CalmBorn, Live
  <2> QED
    BY <2>3, <2>4
<1>8. CalmTabs'
  <2> SUFFICES ASSUME NEW u \in Tab, memory[u] # None
               PROVE  /\ \A v \in Tab : memory[v] = memory[u] => v = u
                      /\ \/ token'[memory[u]].state = "live"
                         \/ \E k \in Job : Answering(job'[k]) /\ job'[k].tok = memory[u]
    BY DEF CalmTabs, Answering, Rotating, Live
  <2>1. \A k \in Job : Answering(job[k]) => Answering(job'[k]) /\ job'[k] = job[k]
    BY <1>2
  <2>2. token'[memory[u]] = token[memory[u]]
    BY <1>1 DEF TypeInv, StoreOK
  <2> QED
    BY <2>1, <2>2 DEF CalmState, CalmTabs, Live
<1> QED
  BY <1>4, <1>5, <1>6, <1>7, <1>8 DEF CalmState

\* The token presented is revoked; the refresh that did it has the new one.
LEMMA CalmRetire ==
  ASSUME TypeInv, CalmState, NEW j \in Job, RotateRetire(j)
  PROVE  CalmState'
<1> DEFINE x == job[j].tok
<1>0. /\ job[j] \in Handler /\ job[j].op = "rotate" /\ job[j].pc = "retire"
      /\ UNCHANGED <<memory, refreshing>>
  BY DEF RotateRetire, TypeInv, JobsOK, tabs
<1>1. /\ \A k \in Job \ {j} : job'[k] = job[k]
      /\ job'[j].op = "rotate" /\ job'[j].pc = "answer"
      /\ job'[j].tab = job[j].tab /\ job'[j].tok = x /\ job'[j].new = job[j].new
  BY <1>0 DEF RotateRetire, TypeInv, JobsOK, Handler
<1>2. /\ Minted' = Minted
      /\ \A y \in Token \ {x} : token'[y] = token[y]
      /\ \A y \in Token : token'[y].expired = token[y].expired
  <2>1. x \in Minted
    BY <1>0, HeldTokens
  <2> QED
    BY <2>1 DEF RotateRetire, TypeInv, StoreOK, Minted, Row
<1>3. /\ Rotating(job[j]) /\ Bearing(job[j]) /\ ~Answering(job[j])
      /\ Rotating(job'[j]) /\ Bearing(job'[j]) /\ Answering(job'[j])
  BY <1>0, <1>1 DEF Rotating, Bearing, Answering
<1>4. \A k \in Job : /\ Rotating(job'[k]) <=> Rotating(job[k])
                     /\ Bearing(job'[k]) <=> Bearing(job[k])
                     /\ job'[k].tab = job[k].tab /\ job'[k].tok = job[k].tok
                     /\ job'[k].new = job[k].new
                     /\ job'[k].pc # "answer" => k # j /\ job[k].pc # "answer"
  BY <1>1, <1>3
<1>5. CalmRows' /\ CalmSteps'
  BY <1>1, <1>2 DEF CalmState, CalmRows, CalmSteps
<1>6. CalmFlights'
  BY <1>0, <1>2, <1>4 DEF CalmState, CalmFlights
<1>7. CalmPresented'
  <2> SUFFICES ASSUME NEW i \in Job, Rotating(job[i])
               PROVE  /\ \A k \in Job : Rotating(job[k]) /\ job[k].tok = job[i].tok => k = i
                      /\ \A u \in Tab : memory[u] = job[i].tok => u = job[i].tab
                      /\ job'[i].pc # "answer" => token'[job[i].tok].state = "live"
    BY <1>0, <1>4 DEF CalmPresented, Live
  <2>1. ASSUME job'[i].pc # "answer" PROVE token'[job[i].tok].state = "live"
    <3>1. /\ job[i].tok # x /\ job[i].tok \in Token /\ Live(job[i].tok)
      BY <1>3, <1>4, <2>1 DEF CalmState, CalmPresented, CalmFlights, Minted
    <3> QED
      BY <1>2, <3>1 DEF Live
  <2> QED
    BY <2>1 DEF CalmState, CalmPresented
<1>8. CalmBorn'
  <2> SUFFICES ASSUME NEW i \in Job, Bearing(job[i])
               PROVE  /\ job[i].new \in Minted /\ token'[job[i].new].state = "live"
                      /\ \A u \in Tab : memory[u] # job[i].new
                      /\ \A k \in Job : Rotating(job[k]) => job[k].tok # job[i].new
                      /\ \A k \in Job : Bearing(job[k]) /\ job[k].new = job[i].new => k = i
    BY <1>0, <1>2, <1>4 DEF CalmBorn, Live
  <2>1. job[i].new # x /\ job[i].new \in Token /\ Live(job[i].new)
    BY <1>3 DEF CalmState, CalmBorn, Minted
  <2> QED
    BY <1>2, <2>1 DEF CalmState, CalmBorn, Live
<1>9. CalmTabs'
  <2> SUFFICES ASSUME NEW u \in Tab, memory[u] # None
               PROVE  /\ \A v \in Tab : memory[v] = memory[u] => v = u
                      /\ \/ token'[memory[u]].state = "live"
                         \/ \E k \in Job : Answering(job'[k]) /\ job'[k].tok = memory[u]
    BY <1>0 DEF CalmTabs, Answering, Rotating, Live
  <2>1. \A v \in Tab : memory[v] = memory[u] => v = u
    BY DEF CalmState, CalmTabs
  <2>2. CASE memory[u] = x
    <3>1. Answering(job'[j]) /\ job'[j].tok = memory[u]
      BY <1>1, <1>3, <2>2
    <3> QED
      BY <2>1, <3>1
  <2>3. CASE memory[u] # x
    <3>1. token'[memory[u]] = token[memory[u]]
      BY <1>2, <2>3, NoneUnminted DEF TypeInv, StoreOK, Minted
    <3>2. \A k \in Job : Answering(job[k]) => Answering(job'[k]) /\ job'[k] = job[k]
      BY <1>1, <1>3
    <3> QED
      BY <2>1, <3>1, <3>2 DEF CalmState, CalmTabs, Live
  <2> QED
    BY <2>1, <2>2, <2>3
<1> QED
  BY <1>5, <1>6, <1>7, <1>8, <1>9 DEF CalmState

\* The token reaches its tab.
LEMMA CalmReach ==
  ASSUME TypeInv, CalmState, NEW j \in Job, NEW t \in Tab,
         job[j].tab = t, Bearing(job[j]), job[j].pc = "answer",
         job' = [job EXCEPT ![j] = NoHandler],
         memory' = [memory EXCEPT ![t] = job[j].new],
         token' = token,
         \A u \in Tab : refreshing'[u] = refreshing[u] \/ refreshing[u] = j
  PROVE  CalmState'
<1> DEFINE x == job[j].new
<1>1. /\ Minted' = Minted
      /\ \A k \in Job \ {j} : job'[k] = job[k]
      /\ ~Rotating(job'[j]) /\ ~Bearing(job'[j]) /\ job'[j].pc = "idle"
  BY EmptySlot DEF Minted, TypeInv, JobsOK, Rotating, Bearing, NoHandler
<1>2. /\ memory'[t] = x /\ \A u \in Tab \ {t} : memory'[u] = memory[u]
  BY DEF TypeInv, StoreOK
<1>3. /\ x \in Minted /\ Live(x)
      /\ \A u \in Tab : memory[u] # x
      /\ \A k \in Job : Rotating(job[k]) => job[k].tok # x
      /\ \A k \in Job : Bearing(job[k]) /\ job[k].new = x => k = j
  BY DEF CalmState, CalmBorn
<1>4. CalmRows' /\ CalmSteps'
  BY <1>1 DEF CalmState, CalmRows, CalmSteps
<1>5. CalmFlights'
  <2> SUFFICES ASSUME NEW k \in Job, Rotating(job'[k])
               PROVE  job'[k].tab \in Tab /\ refreshing'[job'[k].tab] = k /\ job'[k].tok \in Minted
    BY <1>1 DEF CalmFlights, Rotating
  <2>1. k # j /\ Rotating(job[k]) /\ job'[k] = job[k]
    BY <1>1
  <2> QED
    BY <2>1 DEF CalmState, CalmFlights
<1>6. CalmPresented'
  <2> SUFFICES ASSUME NEW i \in Job, Rotating(job'[i])
               PROVE  /\ \A k \in Job : Rotating(job'[k]) /\ job'[k].tok = job'[i].tok => k = i
                      /\ \A u \in Tab : memory'[u] = job'[i].tok => u = job'[i].tab
                      /\ job'[i].pc # "answer" => Live(job'[i].tok)
    BY DEF CalmPresented, Rotating, Live
  <2>1. i # j /\ Rotating(job[i]) /\ job'[i] = job[i]
    BY <1>1
  <2> QED
    BY <1>1, <1>2, <1>3, <2>1 DEF CalmState, CalmPresented
<1>7. CalmBorn'
  <2> SUFFICES ASSUME NEW i \in Job, Bearing(job'[i])
               PROVE  /\ job'[i].new \in Minted /\ Live(job'[i].new)
                      /\ \A u \in Tab : memory'[u] # job'[i].new
                      /\ \A k \in Job : Rotating(job'[k]) => job'[k].tok # job'[i].new
                      /\ \A k \in Job : Bearing(job'[k]) /\ job'[k].new = job'[i].new => k = i
    BY <1>1 DEF CalmBorn, Rotating, Bearing, Live
  <2>1. i # j /\ Bearing(job[i]) /\ job'[i] = job[i]
    BY <1>1
  <2> QED
    BY <1>1, <1>2, <1>3, <2>1 DEF CalmState, CalmBorn
<1>8. CalmTabs'
  <2> SUFFICES ASSUME NEW u \in Tab, memory'[u] # None
               PROVE  /\ \A v \in Tab : memory'[v] = memory'[u] => v = u
                      /\ \/ Live(memory'[u])
                         \/ \E k \in Job : Answering(job'[k]) /\ job'[k].tok = memory'[u]
    BY DEF CalmTabs, Answering, Rotating, Live
  <2>1. CASE u = t
    BY <1>2, <1>3, <2>1
  <2>2. CASE u # t
    <3>1. \A v \in Tab : memory'[v] = memory'[u] => v = u
      BY <1>2, <1>3, <2>2 DEF CalmState, CalmTabs
    <3>2. \/ Live(memory[u])
          \/ \E k \in Job : Answering(job[k]) /\ job[k].tok = memory[u]
      BY <1>2, <2>2 DEF CalmState, CalmTabs
    \* Only the refresh of tab u presents the token of tab u.
    <3>3. ASSUME NEW k \in Job, Answering(job[k]), job[k].tok = memory[u]
          PROVE  Answering(job'[k]) /\ job'[k].tok = memory[u]
      BY <1>1, <2>2, <3>3 DEF CalmState, CalmPresented, Answering
    <3> QED
      BY <1>2, <2>2, <3>1, <3>2, <3>3
  <2> QED
    BY <2>1, <2>2
<1> QED
  BY <1>4, <1>5, <1>6, <1>7, <1>8 DEF CalmState

\* The actions that give no tab a token and mint none.
LEMMA AlikeSteps ==
  ASSUME TypeInv, DiskInv, CalmState, calm',
         \/ \E j \in Job : RotateFind(j) \/ Dropped(j)
         \/ \E c \in Call : Answered(c)
         \/ \E c \in Call, t \in Tab : Send(c, t)
         \/ \E t \in Tab : SignOut(t) \/ Reload(t)
         \/ \E j \in Job, t \in Tab : LoginVerify(j, t)
         \/ \E l \in Link : RequestReset(l)
         \/ UNCHANGED vars
  PROVE  Alike
<1>1. ASSUME UNCHANGED <<token, job, refreshing>>, \A t \in Tab : memory'[t] \in {memory[t], None}
      PROVE  Alike
  BY <1>1, SameRefreshSame DEF Alike
<1>2. ASSUME NEW j \in Job, NEW h, job' = [job EXCEPT ![j] = h],
             UNCHANGED <<token, memory, refreshing>>,
             SameRefresh(j)
      PROVE  Alike
  <2>1. \A k \in Job \ {j} : job'[k] = job[k]
    BY <1>2 DEF TypeInv, JobsOK
  <2> QED
    BY <1>2, <2>1, SameRefreshSame DEF Alike
<1>3. ASSUME NEW j \in Job, RotateFind(j) PROVE Alike
  <2>1. /\ UNCHANGED <<token, memory, refreshing>> /\ job[j].op = "rotate" /\ job[j].pc = "find"
        /\ job[j] \in Handler
    BY <1>3 DEF RotateFind, tabs, TypeInv, JobsOK
  <2>2. Rotating(job[j]) /\ Live(job[j].tok) /\ ~token[job[j].tok].expired
    BY <2>1 DEF Rotating, CalmState, CalmPresented, CalmRows, CalmFlights, Minted
  <2>3. /\ \A k \in Job \ {j} : job'[k] = job[k]
        /\ job'[j].op = "rotate" /\ job'[j].pc = "create"
        /\ job'[j].tab = job[j].tab /\ job'[j].tok = job[j].tok
    BY <1>3, <2>1, <2>2 DEF RotateFind, TypeInv, JobsOK, Handler
  <2>4. SameRefresh(j)
    BY <2>1, <2>3 DEF SameRefresh, Rotating, Bearing
  <2> QED
    BY <2>1, <2>3, <2>4, SameRefreshSame DEF Alike
<1>4. ASSUME NEW j \in Job, Dropped(j) PROVE Alike
  <2>1. /\ UNCHANGED <<token, memory, refreshing>> /\ job[j].pc \in {"answer", "refuse"}
        /\ job[j].tab = None /\ job' = [job EXCEPT ![j] = NoHandler]
    BY <1>4 DEF Dropped, tabs
  <2>2. ~Rotating(job[j])
    BY <2>1, SessionAssumption DEF SessionAssumption, CalmState, CalmFlights
  <2>3. job'[j] = NoHandler
    BY <2>1 DEF TypeInv, JobsOK
  <2>4. SameRefresh(j)
    BY <2>2, <2>3, EmptySlot DEF SameRefresh, Rotating, Bearing
  <2> QED
    BY <1>2, <2>1, <2>4
<1>5. ASSUME NEW t \in Tab, Reload(t) PROVE Alike
  <2>1. /\ token' = token /\ refreshing[t] = None
        /\ memory' = [memory EXCEPT ![t] = disk]
        /\ refreshing' = [refreshing EXCEPT ![t] = None]
        /\ \A u \in Tab \ {t} : memory[u] = None \/ memory[u] # disk
    BY <1>5 DEF Reload
  <2>2. \A u \in Tab : memory'[u] = memory[u] \/ memory'[u] = None
    BY <2>1 DEF DiskInv, TypeInv, StoreOK
  <2>3. ASSUME NEW k \in Job PROVE SameRefresh(k)
    <3>1. job'[k] = IF job[k].tab = t THEN [job[k] EXCEPT !.tab = None] ELSE job[k]
      BY <1>5 DEF Reload
    <3>2. Rotating(job[k]) => job[k].tab \in Tab \ {t} /\ refreshing'[job[k].tab] = refreshing[job[k].tab]
      BY <2>1, SessionAssumption DEF SessionAssumption, CalmState, CalmFlights, TypeInv, JobsOK
    <3>3. /\ job'[k].op = job[k].op /\ job'[k].pc = job[k].pc /\ job'[k].tok = job[k].tok
          /\ job'[k].new = job[k].new
          /\ job[k].tab # t => job'[k].tab = job[k].tab
      BY <3>1 DEF TypeInv, JobsOK, Handler
    <3> QED
      BY <3>2, <3>3 DEF SameRefresh, Rotating, Bearing, CalmState, CalmSteps
  <2> QED
    BY <2>1, <2>2, <2>3 DEF Alike
<1>6. ASSUME NEW j \in Job, NEW t \in Tab, LoginVerify(j, t) PROVE Alike
  <2> DEFINE h == [NoHandler EXCEPT !.op = "login", !.pc = "create", !.tab = t, !.secret = password]
  <2>1. /\ h.op = "login" /\ h.pc = "create" /\ job' = [job EXCEPT ![j] = h]
        /\ UNCHANGED <<token, memory, refreshing>> /\ job[j].pc = "idle"
    BY <1>6 DEF LoginVerify, NoHandler, Free, tabs
  <2> HIDE DEF h
  <2>2. job'[j] = h
    BY <2>1 DEF TypeInv, JobsOK
  <2>3. SameRefresh(j)
    BY <2>1, <2>2 DEF SameRefresh, Rotating, Bearing
  <2> QED
    BY <1>2, <2>1, <2>3
<1>7. ASSUME NEW t \in Tab, SignOut(t) PROVE Alike
  <2>1. UNCHANGED <<token, job, refreshing>> /\ memory' = [memory EXCEPT ![t] = None]
    BY <1>7 DEF SignOut
  <2> QED
    BY <1>1, <2>1 DEF TypeInv, StoreOK
<1>8. ASSUME \/ \E c \in Call : Answered(c)
             \/ \E c \in Call, t \in Tab : Send(c, t)
             \/ \E l \in Link : RequestReset(l)
             \/ UNCHANGED vars
      PROVE  Alike
  BY <1>1, <1>8 DEF Answered, Send, RequestReset, tabs, vars
<1> QED
  BY <1>3, <1>4, <1>5, <1>6, <1>7, <1>8

LEMMA CalmServe ==
  ASSUME TypeInv, DiskInv, CalmState, calm', NEW j \in Job, Serve(j)
  PROVE  CalmState'
<1>0. job[j] \in Handler /\ job[j].pc \notin {"revokeAll", "refuse", "write"}
  BY DEF TypeInv, JobsOK, CalmState, CalmSteps
<1>1. CASE RotateFind(j) \/ Dropped(j)
  BY <1>1, AlikeSteps, CalmAlike
<1>2. CASE RotateRetire(j)
  BY <1>2, CalmRetire
<1>3. ASSUME NEW x \in Token, RotateCreate(j, x) PROVE CalmState'
  <2> DEFINE h == [job[j] EXCEPT !.pc = "retire", !.new = x]
  <2>1. /\ h.op = job[j].op /\ h.tab = job[j].tab /\ h.tok = job[j].tok /\ h.new = x
        /\ h.op = "rotate" /\ h.pc = "retire"
    BY <1>0, <1>3 DEF RotateCreate, Handler
  <2>2. /\ job' = [job EXCEPT ![j] = h] /\ job[j].pc = "create" /\ x \notin Minted
        /\ UNCHANGED <<memory, refreshing>>
    BY <1>3 DEF RotateCreate, New, tabs, TypeInv, JobsOK
  <2>3. /\ token'[x].state = "live" /\ token'[x].expired = FALSE
        /\ \A y \in Token \ {x} : token'[y] = token[y]
    BY <1>3 DEF RotateCreate, Mint, TypeInv, StoreOK
  <2> HIDE DEF h
  <2> QED
    BY <2>1, <2>2, <2>3, CalmMint
<1>4. ASSUME NEW x \in Token, LoginIssue(j, x) PROVE CalmState'
  <2> DEFINE h == [job[j] EXCEPT !.pc = "answer", !.new = x]
  <2>1. /\ h.op = job[j].op /\ h.tab = job[j].tab /\ h.tok = job[j].tok /\ h.new = x
        /\ h.op = "login" /\ h.pc = "answer"
    BY <1>0, <1>4 DEF LoginIssue, Handler
  <2>2. /\ job' = [job EXCEPT ![j] = h] /\ job[j].pc = "create" /\ x \notin Minted
        /\ UNCHANGED <<memory, refreshing>>
    BY <1>4 DEF LoginIssue, New, tabs, TypeInv, JobsOK
  <2>3. /\ token'[x].state = "live" /\ token'[x].expired = FALSE
        /\ \A y \in Token \ {x} : token'[y] = token[y]
    BY <1>4 DEF LoginIssue, Mint, TypeInv, StoreOK
  <2> HIDE DEF h
  <2> QED
    BY <2>1, <2>2, <2>3, CalmMint
<1>5. CASE Refreshed(j) \/ SignedIn(j)
  <2> DEFINE t == job[j].tab
  <2>1. /\ t \in Tab /\ job[j].pc = "answer" /\ Bearing(job[j])
        /\ job' = [job EXCEPT ![j] = NoHandler]
        /\ memory' = [memory EXCEPT ![t] = job[j].new] /\ token' = token
    BY <1>0, <1>5 DEF Refreshed, SignedIn, Bearing, Handler
  <2>2. \A u \in Tab : refreshing'[u] = refreshing[u] \/ refreshing[u] = j
    <3>1. CASE Refreshed(j)
      <4>1. refreshing[t] = j /\ refreshing' = [refreshing EXCEPT ![t] = None]
        BY <3>1 DEF Refreshed, CalmState, CalmFlights, Rotating
      <4> QED
        BY <4>1 DEF TypeInv, JobsOK
    <3>2. CASE SignedIn(j)
      BY <3>2 DEF SignedIn
    <3> QED
      BY <1>5, <3>1, <3>2
  <2> QED
    BY <2>1, <2>2, CalmReach
<1>6. ~RevokeAll(j) /\ ~ResetWrite(j) /\ ~RefreshRefused(j)
  BY <1>0 DEF RevokeAll, ResetWrite, RefreshRefused
<1> QED
  BY <1>1, <1>2, <1>3, <1>4, <1>5, <1>6 DEF Serve

LEMMA CalmUnauthorized ==
  ASSUME TypeInv, CalmState, NEW c \in Call, Unauthorized(c)
  PROVE  CalmState'
<1> DEFINE t == call[c].tab
<1>1. t \in Tab /\ UNCHANGED <<token, memory>>
  BY DEF Unauthorized, TypeInv, StoreOK
<1>2. CASE UNCHANGED <<refreshing, job>>
  <2>1. Alike
    BY <1>1, <1>2, SameRefreshSame DEF Alike
  <2> QED
    BY <2>1, CalmAlike
<1>3. ASSUME NEW j \in Job, Free(j), refreshing[t] = None, memory[t] # None,
             job' = [job EXCEPT ![j] = [NoHandler EXCEPT
                       !.op = "rotate", !.pc = "find", !.tab = t, !.tok = memory[t]]],
             refreshing' = [refreshing EXCEPT ![t] = j]
      PROVE  CalmState'
  <2> DEFINE h == [NoHandler EXCEPT !.op = "rotate", !.pc = "find", !.tab = t, !.tok = memory[t]]
  <2>1. h.op = "rotate" /\ h.pc = "find" /\ h.tab = t /\ h.tok = memory[t]
    BY DEF NoHandler
  <2>2. job' = [job EXCEPT ![j] = h] /\ job[j].pc = "idle"
    BY <1>3 DEF Free
  <2>3. /\ memory[t] # None /\ refreshing[t] = None
        /\ refreshing' = [refreshing EXCEPT ![t] = j]
    BY <1>3
  <2> HIDE DEF h, t
  <2> QED
    BY <1>1, <2>1, <2>2, <2>3, CalmTake
<1> QED
  BY <1>2, <1>3 DEF Unauthorized

LEMMA CalmInit == Init => DiskInv /\ CalmInv
BY DEF Init, DiskInv, CalmInv, CalmState, CalmRows, CalmSteps, CalmFlights, CalmPresented,
   CalmBorn, CalmTabs, Rotating, Bearing, NoRow, NoHandler

\* Only answers, sign-outs and reloads write the store's copy.
LEMMA DiskNext ==
  TypeInv /\ DiskInv /\ [Next]_vars => DiskInv'
<1> SUFFICES ASSUME TypeInv, DiskInv, [Next]_vars PROVE DiskInv'
  OBVIOUS
<1>1. ASSUME UNCHANGED <<memory, disk>> PROVE DiskInv'
  BY <1>1 DEF DiskInv
<1>2. ASSUME NEW t \in Tab, disk' = None \/ memory'[t] = disk' PROVE DiskInv'
  BY <1>2 DEF DiskInv
<1>3. ASSUME NEW j \in Job, Serve(j) PROVE DiskInv'
  <2>1. CASE UNCHANGED tabs
    BY <1>1, <2>1 DEF tabs
  <2>2. CASE RefreshRefused(j)
    BY <2>2 DEF RefreshRefused, DiskInv
  <2>3. CASE Refreshed(j) \/ SignedIn(j)
    <3>1. job[j].tab \in Tab /\ memory'[job[j].tab] = disk'
      BY <2>3 DEF Refreshed, SignedIn, TypeInv, StoreOK, JobsOK, Handler
    <3> QED
      BY <1>2, <3>1
  <2> QED
    BY <1>3, <2>1, <2>2, <2>3
       DEF Serve, RotateFind, RotateRetire, RevokeAll, ResetWrite, RotateCreate, LoginIssue, Dropped
<1>4. ASSUME NEW t \in Tab, SignOut(t) PROVE DiskInv'
  BY <1>4 DEF SignOut, DiskInv
<1>5. ASSUME NEW t \in Tab, Reload(t) PROVE DiskInv'
  <2>1. memory'[t] = disk'
    BY <1>5 DEF Reload, TypeInv, StoreOK
  <2> QED
    BY <1>2, <2>1
<1>6. ASSUME \/ \E c \in Call : Answered(c) \/ Unauthorized(c)
             \/ \E c \in Call, t \in Tab : Send(c, t)
             \/ \E j \in Job, t \in Tab : LoginVerify(j, t)
             \/ \E j \in Job, l \in Link : ResetCheck(j, l)
             \/ \E l \in Link : RequestReset(l)
             \/ \E x \in Token : Logout(x) \/ Expire(x)
             \/ \E j \in Job : Cut(j) \/ Crash(j)
             \/ UNCHANGED vars
      PROVE  UNCHANGED <<memory, disk>>
  BY <1>6 DEF Answered, Unauthorized, Send, LoginVerify, ResetCheck, RequestReset, Logout, Expire,
              Cut, Crash, tabs, vars
<1> QED
  BY <1>1, <1>3, <1>4, <1>5, <1>6 DEF Next

LEMMA CalmNext ==
  TypeInv /\ DiskInv /\ CalmInv /\ [Next]_vars => CalmInv'
<1> SUFFICES ASSUME TypeInv, DiskInv, CalmInv, [Next]_vars, calm' PROVE CalmState'
  BY DEF CalmInv
<1>1. calm => CalmState
  BY DEF CalmInv
<1>2. calm
  <2>1. ASSUME NEW j \in Job, Serve(j) PROVE calm' = calm
    BY <2>1 DEF Serve, RotateFind, RotateRetire, RevokeAll, ResetWrite, RotateCreate, LoginIssue,
                Refreshed, RefreshRefused, SignedIn, Dropped, ghosts, history
  <2>2. ASSUME NEW t \in Tab, Reload(t) PROVE calm
    BY <2>2 DEF Reload
  <2>3. ASSUME \/ \E c \in Call : Answered(c) \/ Unauthorized(c)
               \/ \E c \in Call, t \in Tab : Send(c, t)
               \/ \E t \in Tab : SignOut(t)
               \/ \E j \in Job, t \in Tab : LoginVerify(j, t)
               \/ \E l \in Link : RequestReset(l)
               \/ UNCHANGED vars
        PROVE  calm' = calm
    BY <2>3 DEF Answered, Unauthorized, Send, SignOut, LoginVerify, RequestReset, ghosts, history, vars
  <2>4. ASSUME \/ \E j \in Job, l \in Link : ResetCheck(j, l)
               \/ \E x \in Token : Logout(x) \/ Expire(x)
               \/ \E j \in Job : Cut(j) \/ Crash(j)
        PROVE  FALSE
    BY <2>4 DEF ResetCheck, Logout, Expire, Cut, Crash
  <2> QED
    BY <2>1, <2>2, <2>3, <2>4 DEF Next
<1>3. CalmState
  BY <1>1, <1>2
<1>4. ASSUME NEW j \in Job, Serve(j) PROVE CalmState'
  BY <1>3, <1>4, CalmServe
<1>5. ASSUME NEW c \in Call, Unauthorized(c) PROVE CalmState'
  BY <1>3, <1>5, CalmUnauthorized
<1>6. ASSUME \/ \E c \in Call : Answered(c)
             \/ \E c \in Call, t \in Tab : Send(c, t)
             \/ \E t \in Tab : SignOut(t) \/ Reload(t)
             \/ \E j \in Job, t \in Tab : LoginVerify(j, t)
             \/ \E l \in Link : RequestReset(l)
             \/ UNCHANGED vars
      PROVE  CalmState'
  BY <1>3, <1>6, AlikeSteps, CalmAlike
<1>7. ASSUME \/ \E j \in Job, l \in Link : ResetCheck(j, l)
             \/ \E x \in Token : Logout(x) \/ Expire(x)
             \/ \E j \in Job : Cut(j) \/ Crash(j)
      PROVE  FALSE
  BY <1>7 DEF ResetCheck, Logout, Expire, Cut, Crash
<1> QED
  BY <1>4, <1>5, <1>6, <1>7 DEF Next

LEMMA CalmInvariant == Spec => [](TypeInv /\ DiskInv /\ CalmInv)
BY TypeInit, TypeNext, CalmInit, DiskNext, CalmNext, PTL DEF Spec

LEMMA CalmHolds == TypeInv /\ CalmInv => CalmKeepsSessions
<1> SUFFICES ASSUME TypeInv, CalmState, NEW t \in Tab, memory[t] # None
             PROVE  \/ Live(memory[t]) /\ ~token[memory[t]].expired
                    \/ \E j \in Job : /\ job[j].op = "rotate" /\ job[j].tok = memory[t]
                                      /\ job[j].pc = "answer"
  BY DEF CalmInv, CalmKeepsSessions
<1>1. memory[t] \in Token
  BY DEF TypeInv, StoreOK, Minted
<1> QED
  BY <1>1 DEF CalmState, CalmRows, CalmTabs, Answering, Rotating

\* Tabs that only sign in and out, call and refresh never lose a session to each
\* other: a tab's token is good, or is the one its own refresh has just replaced
\* (apiClient.ts:59-64, token.service.ts:74-99).
THEOREM CalmIsSafe == Spec => []CalmKeepsSessions
BY CalmInvariant, CalmHolds, PTL
=============================================================================
