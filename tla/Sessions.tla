------------------------------ MODULE Sessions ------------------------------
(***************************************************************************)
(* Sign-in sessions of one account: the rotating refresh tokens of         *)
(* apps/api/src/auth/token.service.ts, the handlers of auth.service.ts     *)
(* that issue and revoke them, and the browser tabs that hold them         *)
(* (apps/web/src/api/apiClient.ts over the persisted store of              *)
(* apps/web/src/auth/authStore.ts).  No query relates two accounts.        *)
(*                                                                         *)
(* A server handler is a slot that takes one action per query.  A tab is   *)
(* single-threaded: what runs between two awaits is one action.  A token   *)
(* is a random secret, here any id that was never minted.                  *)
(***************************************************************************)
EXTENDS Naturals, FiniteSets

CONSTANTS
  Token,     \* bound: the refresh tokens a behaviour can mint
  Tab,
  Call,      \* bound: API calls the tabs have under way together
  Job,       \* bound: server handlers under way together
  Link,      \* bound: password reset links mailed in a behaviour
  None,
  MaxFaults, \* bound: crashed handlers, cut connections and tokens that expire
  MaxEvents  \* bound: what users do in a behaviour

ASSUME SessionAssumption ==
  /\ None \notin Token \cup Tab \cup Call \cup Job \cup Link
  /\ IsFiniteSet(Token) /\ IsFiniteSet(Job)
  /\ MaxFaults \in Nat /\ MaxEvents \in Nat

VARIABLES
  token,      \* RefreshToken rows, with the session each belongs to
  password,   \* User.passwordHash: how often it was changed
  link,       \* PasswordResetToken rows
  memory,     \* the refresh token in each tab's store, or None
  disk,       \* the store's copy in localStorage, shared by the tabs
  refreshing, \* each tab's refreshInFlight: the handler that serves it
  call,       \* API calls
  job,        \* server handlers
  raced,      \* sessions with two refreshes of one token at once, or one cut short
  ended,      \* sessions a revokeAll found
  calm,       \* nothing but sign-ins, sign-outs, calls and refreshes so far
  cutShort,   \* a reset's handler died before its revokeAll
  faults, events

tabs == <<memory, disk, refreshing, call>>
history == <<raced, ended, calm, cutShort, faults>>
ghosts == <<history, events>>
vars == <<token, password, link, memory, disk, refreshing, call, job, raced, ended,
          calm, cutShort, faults, events>>

----------------------------------------------------------------------------
Row == [state : {"unminted", "live", "revoked"},
        expired : BOOLEAN,
        session : Token \cup {None},  \* the token minted at sign-in
        secret : Nat,                 \* the password that sign-in gave
        late : BOOLEAN]               \* minted by a handler a revokeAll overtook

Handler == [op : {"rotate", "login", "reset"},
            pc : {"idle", "find", "create", "retire", "revokeAll", "answer",
                  "refuse", "write"},
            tab : Tab \cup {None},
            tok : Token \cup {None},      \* presented
            new : Token \cup {None},      \* minted
            secret : Nat,
            link : Link \cup {None},
            late : BOOLEAN]

NoRow == [state |-> "unminted", expired |-> FALSE, session |-> None, secret |-> 0,
          late |-> FALSE]
NoHandler == [op |-> "rotate", pc |-> "idle", tab |-> None, tok |-> None,
              new |-> None, secret |-> 0, link |-> None, late |-> FALSE]
NoCall == [pc |-> "idle", tab |-> None]

Live(x) == token[x].state = "live"
Minted == {x \in Token : token[x].state # "unminted"}

\* A fresh random secret: which one does not matter.
New(x) == x \notin Minted /\ x = CHOOSE y \in Token : y \notin Minted

UserEvent == events < MaxEvents /\ events' = events + 1

\* A free slot: which one serves a request does not matter.
Free(j) == job[j].pc = "idle" /\ j = CHOOSE k \in Job : job[k].pc = "idle"

\* Handlers that may still mint, and whether the bound leaves a token for one more.
Minting == {j \in Job : \/ job[j].op = "rotate" /\ job[j].pc \in {"find", "create"}
                        \/ job[j].op = "login" /\ job[j].pc = "create"}
Room == Cardinality(Token \ Minted) > Cardinality(Minting)

\* The calls of tab t that wait for its refresh become next.
Settle(t, next) ==
  [c \in Call |-> IF call[c].tab = t /\ call[c].pc = "waiting" THEN next ELSE call[c]]
SettleOne(t, next) ==
  LET waiting == {c \in Call : call[c].tab = t /\ call[c].pc = "waiting"}
  IN IF waiting = {} THEN call ELSE [call EXCEPT ![CHOOSE c \in waiting : TRUE] = next]

Init ==
  /\ token = [x \in Token |-> NoRow]
  /\ password = 0
  /\ link = [l \in Link |-> "none"]
  /\ memory = [t \in Tab |-> None]
  /\ disk = None
  /\ refreshing = [t \in Tab |-> None]
  /\ call = [c \in Call |-> NoCall]
  /\ job = [j \in Job |-> NoHandler]
  /\ raced = {} /\ ended = {}
  /\ calm = TRUE /\ cutShort = FALSE
  /\ faults = 0 /\ events = 0

----------------------------------------------------------------------------
(* The tab: request, refresh and doRefresh; the auth store; sign in and out. *)

\* A signed-in tab sends a request with its access token.
Send(c, t) ==
  /\ call[c].pc = "idle" /\ c = CHOOSE d \in Call : call[d].pc = "idle"
  /\ memory[t] # None
  /\ call' = [call EXCEPT ![c] = [pc |-> "sent", tab |-> t]]
  /\ UserEvent
  /\ UNCHANGED <<token, password, link, memory, disk, refreshing, job, history>>

\* Any response but the first 401; a second 401 surfaces as an error.
Answered(c) ==
  /\ call[c].pc \in {"sent", "again"}
  /\ call' = [call EXCEPT ![c] = NoCall]
  /\ UNCHANGED <<token, password, link, memory, disk, refreshing, job, ghosts>>

\* (Every 401 with a refresh of its own.)
UnauthorizedEach(c) ==
  LET t == call[c].tab IN
  /\ call[c].pc = "sent"
  /\ memory[t] # None
  /\ Room
  /\ \E j \in Job :
       /\ Free(j)
       /\ job' = [job EXCEPT ![j] = [NoHandler EXCEPT
                    !.op = "rotate", !.pc = "find", !.tab = t, !.tok = memory[t]]]
       /\ refreshing' = [refreshing EXCEPT ![t] = j]
  /\ call' = [call EXCEPT ![c].pc = "waiting"]
  /\ UNCHANGED <<token, password, link, memory, disk, ghosts>>

\* The access token had expired: join the refresh in flight, or start one; a
\* tab that has signed out meanwhile has nothing to refresh with.
Unauthorized(c) ==
  LET t == call[c].tab IN
  /\ call[c].pc = "sent"
  /\ \/ /\ refreshing[t] # None
        /\ call' = [call EXCEPT ![c].pc = "waiting"]
        /\ UNCHANGED <<refreshing, job>>
     \/ /\ refreshing[t] = None
        /\ memory[t] # None
        /\ Room
        /\ \E j \in Job :
             /\ Free(j)
             /\ job' = [job EXCEPT ![j] = [NoHandler EXCEPT
                          !.op = "rotate", !.pc = "find", !.tab = t, !.tok = memory[t]]]
             /\ refreshing' = [refreshing EXCEPT ![t] = j]
        /\ call' = [call EXCEPT ![c].pc = "waiting"]
     \/ /\ refreshing[t] = None
        /\ memory[t] = None
        /\ call' = [call EXCEPT ![c] = NoCall]
        /\ UNCHANGED <<refreshing, job>>
  /\ UNCHANGED <<token, password, link, memory, disk, ghosts>>

\* The new pair arrives: setSession, whatever happened to the store meanwhile;
\* the waiting calls are sent again.
Refreshed(j) ==
  LET t == job[j].tab IN
  /\ job[j].op = "rotate" /\ job[j].pc = "answer"
  /\ t # None
  /\ memory' = [memory EXCEPT ![t] = job[j].new]
  /\ disk' = job[j].new
  /\ refreshing' = [refreshing EXCEPT ![t] = None]
  /\ call' = Settle(t, [pc |-> "again", tab |-> t])
  /\ job' = [job EXCEPT ![j] = NoHandler]
  /\ UNCHANGED <<token, password, link, ghosts>>

\* (One waiting call alone hears of a refusal.)
RefreshRefusedWakesOne(j) ==
  LET t == job[j].tab IN
  /\ job[j].op = "rotate" /\ job[j].pc = "refuse"
  /\ t # None
  /\ memory' = [memory EXCEPT ![t] = None]
  /\ disk' = None
  /\ refreshing' = [refreshing EXCEPT ![t] = None]
  /\ call' = SettleOne(t, NoCall)
  /\ job' = [job EXCEPT ![j] = NoHandler]
  /\ UNCHANGED <<token, password, link, ghosts>>

\* The refresh was refused: the session is cleared and the waiting calls fail.
RefreshRefused(j) ==
  LET t == job[j].tab IN
  /\ job[j].op = "rotate" /\ job[j].pc = "refuse"
  /\ t # None
  /\ memory' = [memory EXCEPT ![t] = None]
  /\ disk' = None
  /\ refreshing' = [refreshing EXCEPT ![t] = None]
  /\ call' = Settle(t, NoCall)
  /\ job' = [job EXCEPT ![j] = NoHandler]
  /\ UNCHANGED <<token, password, link, ghosts>>

SignedIn(j) ==
  LET t == job[j].tab IN
  /\ job[j].op = "login" /\ job[j].pc = "answer"
  /\ t # None
  /\ memory' = [memory EXCEPT ![t] = job[j].new]
  /\ disk' = job[j].new
  /\ job' = [job EXCEPT ![j] = NoHandler]
  /\ UNCHANGED <<token, password, link, refreshing, call, ghosts>>

\* Sign out only clears the store: the server is not told.
SignOut(t) ==
  /\ memory[t] # None
  /\ memory' = [memory EXCEPT ![t] = None]
  /\ disk' = None
  /\ UserEvent
  /\ UNCHANGED <<token, password, link, refreshing, call, job, history>>

\* A tab is opened or reloaded: its store is read back from localStorage, what
\* it had under way is forgotten (when there is nothing to do either for, no step).
Reload(t) ==
  /\ memory[t] # disk \/ \E j \in Job : job[j].tab = t \/ \E c \in Call : call[c].tab = t
  /\ memory' = [memory EXCEPT ![t] = disk]
  /\ refreshing' = [refreshing EXCEPT ![t] = None]
  /\ call' = [c \in Call |-> IF call[c].tab = t THEN NoCall ELSE call[c]]
  /\ job' = [j \in Job |-> IF job[j].tab = t THEN [job[j] EXCEPT !.tab = None] ELSE job[j]]
  /\ calm' = (calm /\ refreshing[t] = None
                   /\ \A u \in Tab \ {t} : memory[u] = None \/ memory[u] # disk)
  /\ UserEvent
  /\ UNCHANGED <<token, password, link, disk, raced, ended, cutShort, faults>>

----------------------------------------------------------------------------
(* Refresh: TokenService.rotate. *)

\* Another handler that found the same token live has not finished with it.
Overlaps(j, x) ==
  \E k \in Job \ {j} : job[k].op = "rotate" /\ job[k].tok = x
                       /\ job[k].pc \in {"create", "retire"}

\* (A revoked token is exchanged like any other.)
RotateFindAny(j) ==
  LET x == job[j].tok IN
  /\ job[j].op = "rotate" /\ job[j].pc = "find"
  /\ job' = [job EXCEPT ![j].pc = IF token[x].expired THEN "refuse" ELSE "create"]
  /\ raced' = IF ~token[x].expired /\ Overlaps(j, x) THEN raced \cup {token[x].session} ELSE raced
  /\ UNCHANGED <<token, password, link, tabs, ended, calm, cutShort, faults, events>>

\* The presented token is looked up: revoked, expired or good.
RotateFind(j) ==
  LET x == job[j].tok IN
  /\ job[j].op = "rotate" /\ job[j].pc = "find"
  /\ job' = [job EXCEPT ![j].pc = IF ~Live(x) THEN "revokeAll"
                                  ELSE IF token[x].expired THEN "refuse" ELSE "create"]
  /\ raced' = IF Live(x) /\ ~token[x].expired /\ Overlaps(j, x) THEN raced \cup {token[x].session} ELSE raced
  /\ UNCHANGED <<token, password, link, tabs, ended, calm, cutShort, faults, events>>

\* The row of a new token.
Mint(x, session, secret, late) ==
  token' = [token EXCEPT ![x] =
              [state |-> "live", expired |-> FALSE, session |-> session,
               secret |-> secret, late |-> late]]

\* The replacement is created.
RotateCreate(j, x) ==
  LET old == token[job[j].tok] IN
  /\ job[j].op = "rotate" /\ job[j].pc = "create"
  /\ New(x)
  /\ Mint(x, old.session, old.secret, job[j].late \/ old.late)
  /\ job' = [job EXCEPT ![j].pc = "retire", ![j].new = x]
  /\ UNCHANGED <<password, link, tabs, ghosts>>

\* (The presented token stays good.)
RotateRetireNothing(j) ==
  /\ job[j].op = "rotate" /\ job[j].pc = "retire"
  /\ job' = [job EXCEPT ![j].pc = "answer"]
  /\ UNCHANGED <<token, password, link, tabs, ghosts>>

\* The presented token is revoked, whatever its row says by now.
RotateRetire(j) ==
  /\ job[j].op = "rotate" /\ job[j].pc = "retire"
  /\ token' = [token EXCEPT ![job[j].tok].state = "revoked"]
  /\ job' = [job EXCEPT ![j].pc = "answer"]
  /\ UNCHANGED <<password, link, tabs, ghosts>>

\* revokeAll: for a token presented again, or after a password reset.
RevokeAll(j) ==
  /\ job[j].pc = "revokeAll"
  /\ token' = [x \in Token |-> IF Live(x) THEN [token[x] EXCEPT !.state = "revoked"]
                               ELSE token[x]]
  /\ job' = [k \in Job |->
               IF k = j THEN IF job[j].op = "reset" THEN NoHandler
                             ELSE [job[j] EXCEPT !.pc = "refuse"]
               ELSE IF job[k].pc = "create" THEN [job[k] EXCEPT !.late = TRUE]
               ELSE job[k]]
  /\ ended' = ended \cup {token[x].session : x \in Minted}
  /\ UNCHANGED <<password, link, tabs, raced, calm, cutShort, faults, events>>

----------------------------------------------------------------------------
(* The handlers of AuthService. *)

\* The log-in form is submitted with the password of the moment, found right
\* (a wrong one changes nothing).
LoginVerify(j, t) ==
  /\ Free(j)
  /\ memory[t] = None
  /\ \A k \in Job : ~(job[k].op = "login" /\ job[k].tab = t)
  /\ Room
  /\ job' = [job EXCEPT ![j] = [NoHandler EXCEPT
               !.op = "login", !.pc = "create", !.tab = t, !.secret = password]]
  /\ UserEvent
  /\ UNCHANGED <<token, password, link, tabs, history>>

\* The check was some milliseconds ago: the token is issued all the same.
LoginIssue(j, x) ==
  /\ job[j].op = "login" /\ job[j].pc = "create"
  /\ New(x)
  /\ Mint(x, x, job[j].secret, job[j].late)
  /\ job' = [job EXCEPT ![j].pc = "answer", ![j].new = x]
  /\ UNCHANGED <<password, link, tabs, ghosts>>

\* POST /auth/logout revokes one token.
Logout(x) ==
  /\ Live(x)
  /\ token' = [token EXCEPT ![x].state = "revoked"]
  /\ calm' = FALSE
  /\ UserEvent
  /\ UNCHANGED <<password, link, tabs, job, raced, ended, cutShort, faults>>

RequestReset(l) ==
  /\ link[l] = "none"
  /\ link' = [link EXCEPT ![l] = "mailed"]
  /\ UserEvent
  /\ UNCHANGED <<token, password, tabs, job, history>>

\* The link is good; the new password is hashed.
ResetCheck(j, l) ==
  /\ Free(j)
  /\ link[l] = "mailed"
  /\ job' = [job EXCEPT ![j] = [NoHandler EXCEPT !.op = "reset", !.pc = "write", !.link = l]]
  /\ calm' = FALSE
  /\ UserEvent
  /\ UNCHANGED <<token, password, link, tabs, raced, ended, cutShort, faults>>

\* (Without the revokeAll.)
ResetWriteOnly(j) ==
  /\ job[j].op = "reset" /\ job[j].pc = "write"
  /\ password' = password + 1
  /\ link' = [link EXCEPT ![job[j].link] = "used"]
  /\ job' = [job EXCEPT ![j] = NoHandler]
  /\ UNCHANGED <<token, tabs, ghosts>>

\* The transaction: the password and the link together.
ResetWrite(j) ==
  /\ job[j].op = "reset" /\ job[j].pc = "write"
  /\ password' = password + 1
  /\ link' = [link EXCEPT ![job[j].link] = "used"]
  /\ job' = [job EXCEPT ![j].pc = "revokeAll"]
  /\ UNCHANGED <<token, tabs, ghosts>>

----------------------------------------------------------------------------
(* What may go wrong. *)

\* Nobody waits for the answer any more.
Dropped(j) ==
  /\ job[j].pc \in {"answer", "refuse"}
  /\ job[j].tab = None
  /\ job' = [job EXCEPT ![j] = NoHandler]
  /\ UNCHANGED <<token, password, link, tabs, ghosts>>

\* fetch rejects: the refresh is over, the store is kept, the waiting calls fail.
Rejected(j) ==
  LET t == job[j].tab IN
  IF job[j].op = "rotate" /\ t # None
  THEN /\ refreshing' = [refreshing EXCEPT ![t] = None]
       /\ call' = Settle(t, NoCall)
  ELSE UNCHANGED <<refreshing, call>>

\* The connection is cut while the handler runs, or its answer is lost.
Cut(j) ==
  /\ faults < MaxFaults
  /\ job[j].tab # None
  /\ Rejected(j)
  /\ job' = [job EXCEPT ![j].tab = None]
  /\ faults' = faults + 1
  /\ calm' = FALSE
  /\ UNCHANGED <<token, password, link, memory, disk, raced, ended, cutShort, events>>

\* The server process dies between two queries of the handler.
Crash(j) ==
  /\ faults < MaxFaults
  /\ job[j].pc # "idle"
  /\ Rejected(j)
  /\ job' = [job EXCEPT ![j] = NoHandler]
  /\ raced' = IF job[j].pc = "retire" THEN raced \cup {token[job[j].tok].session} ELSE raced
  /\ cutShort' = (cutShort \/ (job[j].op = "reset" /\ job[j].pc = "revokeAll"))
  /\ faults' = faults + 1
  /\ calm' = FALSE
  /\ UNCHANGED <<token, password, link, memory, disk, ended, events>>

Expire(x) ==
  /\ faults < MaxFaults
  /\ Live(x) /\ ~token[x].expired
  /\ token' = [token EXCEPT ![x].expired = TRUE]
  /\ faults' = faults + 1
  /\ calm' = FALSE
  /\ UNCHANGED <<password, link, tabs, job, raced, ended, cutShort, events>>

----------------------------------------------------------------------------
\* What a handler does next, and what the tab does with its answer.
Serve(j) ==
  \/ RotateFind(j) \/ RotateRetire(j) \/ RevokeAll(j) \/ ResetWrite(j)
  \/ \E x \in Token : RotateCreate(j, x) \/ LoginIssue(j, x)
  \/ Refreshed(j) \/ RefreshRefused(j) \/ SignedIn(j) \/ Dropped(j)

Next ==
  \/ \E j \in Job : Serve(j)
  \/ \E c \in Call : Answered(c) \/ Unauthorized(c)
  \/ \E c \in Call, t \in Tab : Send(c, t)
  \/ \E t \in Tab : SignOut(t) \/ Reload(t)
  \/ \E j \in Job, t \in Tab : LoginVerify(j, t)
  \/ \E j \in Job, l \in Link : ResetCheck(j, l)
  \/ \E l \in Link : RequestReset(l)
  \/ \E x \in Token : Logout(x) \/ Expire(x)
  \/ \E j \in Job : Cut(j) \/ Crash(j)

\* The event loop and the database keep serving what was begun.
Fairness ==
  /\ \A j \in Job : WF_vars(Serve(j))
  /\ \A c \in Call : WF_vars(Answered(c))

Spec == Init /\ [][Next]_vars /\ Fairness

----------------------------------------------------------------------------
(* Properties. *)

\* Rows, handlers and stores are well formed; what a tab or a handler holds was
\* minted, and refreshInFlight names the refresh that serves the tab
\* (token.service.ts:93, apiClient.ts:88).
TypeOK ==
  /\ token \in [Token -> Row]
  /\ password \in Nat
  /\ link \in [Link -> {"none", "mailed", "used"}]
  /\ memory \in [Tab -> Minted \cup {None}]
  /\ disk \in Minted \cup {None}
  /\ refreshing \in [Tab -> Job \cup {None}]
  /\ call \in [Call -> [pc : {"idle", "sent", "waiting", "again"}, tab : Tab \cup {None}]]
  /\ job \in [Job -> Handler]
  /\ \A j \in Job : job[j].tok \in Minted \cup {None} /\ job[j].new \in Minted \cup {None}
  /\ \A t \in Tab : refreshing[t] # None =>
       job[refreshing[t]].op = "rotate" /\ job[refreshing[t]].tab = t
  /\ raced \subseteq Token /\ ended \subseteq Token
  /\ calm \in BOOLEAN /\ cutShort \in BOOLEAN
  /\ faults \in 0..MaxFaults /\ events \in 0..MaxEvents

\* A session survives its own refreshes: while tabs only sign in and out, call
\* and refresh, and no two of them came to share a token, each tab's token is
\* good or being exchanged by the one refresh in flight.  This is what the
\* single-flight guard is for (apiClient.ts:59-64): a second refresh would
\* present a rotated token and revoke every session of the account.
CalmKeepsSessions ==
  calm => \A t \in Tab : memory[t] # None =>
    \/ Live(memory[t]) /\ ~token[memory[t]].expired
    \/ \E j \in Job : job[j].op = "rotate" /\ job[j].tok = memory[t] /\ job[j].pc = "answer"

\* Rotation replaces: however sign-ins, refreshes, resets and cut connections
\* interleave, a session has one live token, plus one for each refresh between
\* its two writes; only two refreshes of one token at once, or a crash between
\* those writes, leave it more (token.service.ts:93-99).
OneLiveTokenPerSession ==
  \A s \in Token \ raced :
    Cardinality({x \in Token : Live(x) /\ token[x].session = s})
      <= 1 + Cardinality({j \in Job : /\ job[j].pc = "retire"
                                      /\ token[job[j].tok].session = s})

\* Once revokeAll has run, no session it found goes on: no refresh that looked
\* its token up afterwards leads to a live one (token.service.ts:77-81, 114).
RevokedSessionsStayEnded ==
  \A x \in Token : Live(x) /\ token[x].session \in ended => token[x].late

\* After a password reset no session opened with an older password is live,
\* but what a handler issued that had passed its checks before, or when the
\* reset itself was cut short (auth.service.ts:139-147).
ResetEndsOldSessions ==
  \A x \in Token : Live(x) /\ token[x].secret # password =>
    \/ token[x].late
    \/ cutShort
    \/ \E j \in Job : job[j].op = "reset" /\ job[j].pc = "revokeAll"

\* "Invalidate existing sessions after a password change" (auth.service.ts:146),
\* taken at its word: no session that revokeAll found is live with a password
\* that a finished reset has replaced.
ResetInvalidatesSessions ==
  \A x \in Token : Live(x) /\ token[x].secret # password /\ token[x].session \in ended =>
    \E j \in Job : job[j].op = "reset" /\ job[j].pc = "revokeAll"

\* A call that waits for a refresh is sent again or fails: whoever began the
\* refresh, and however it ends (apiClient.ts:88-125).
WaitingCallsEnd ==
  \A c \in Call : call[c].pc = "waiting" ~> call[c].pc # "waiting"
=============================================================================
