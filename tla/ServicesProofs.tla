--------------------------- MODULE ServicesProofs ---------------------------
(***************************************************************************)
(* Proofs about three of the services: sign-on, comments and published     *)
(* pages; each for any constants and without the bounds on what may happen.*)
(*                                                                         *)
(* Sign-on.  A login's code is exchanged once, so at most one of its       *)
(* callbacks gets past the exchange, and none does once a session of it    *)
(* was issued (OnceInv).  The user that a callback is about to issue a     *)
(* session of, and every user one was issued of, has the subject of the    *)
(* login until another subject is linked to it, which is what relinked     *)
(* says (AccountInv): users with one subject being one user (UsersInv), so *)
(* are two sessions' users.  A browser's cookie is of the newest login or  *)
(* else the login was disturbed (CookieInv); it is of a login begun in the *)
(* browser, and so is the login of a callback that passed both checks,     *)
(* whose state and code are then of that one login (BoundInv).             *)
(*                                                                         *)
(* Comments.  A thread is on one page because a reply is admitted on its   *)
(* parent's page only, and a root gives its thread a number no comment or  *)
(* request has yet (StrandsInv): a request past its insertion is the only  *)
(* one of its comment, which is as the request says (PlacedInv).  What a   *)
(* request gathers stays enough until it is sent: a comment with a smaller *)
(* number that is in the thread then was in it and there when the request  *)
(* gathered, since a comment never comes back and never moves to a thread  *)
(* that has others (GatheredInv).                                          *)
(*                                                                         *)
(* Published pages.  A request that found a slug keeps it only if no page  *)
(* has it when it writes (OneOwner).  Of a page that no two requests ran   *)
(* for at once there is one request (AloneInv), which keeps the address    *)
(* or begins with the word it was asked for (AskedInv): a step that        *)
(* changes the address is therefore one that was asked to.  What a request *)
(* or a visit holds went through the allow-list (PublishOK, VisitInv).     *)
(***************************************************************************)
EXTENDS SignOn, Discussion, PublicPages, SequenceTheorems, TLAPS

(* Sign-on. *)

UserRow == [email : Email, subject : Subject \cup {NoOne}]
LoginRow == [browser : Browser, subject : Subject \cup {NoOne}, spent : BOOLEAN]
Stages == {"check", "exchange", "subject", "email", "link", "create", "issue", "me"}
Callback == [id : Nat, browser : Browser, state : Nat, login : Nat, cookie : Nat \cup {NoOne}, at : Stages,
             email : Email \cup {NoOne}, user : Nat \cup {NoOne}]

\* A callback past the exchange, which has not issued a session yet.
Past(c) == c.at \in {"subject", "email", "link", "create", "issue"}

CallOK(c) ==
  /\ c.state \in DOMAIN logins
  /\ c.login \in DOMAIN logins /\ logins[c.login].subject \in Subject
  /\ c.at \in {"subject", "email", "link", "create"} => c.email \in Email
  /\ c.at \in {"link", "issue", "me"} => c.user \in DOMAIN users

TypeInv ==
  /\ users \in Seq(UserRow) /\ logins \in Seq(LoginRow)
  /\ mailOf \in [Subject -> Email]
  /\ cookie \in [Browser -> Nat \cup {NoOne}] /\ session \in [Browser -> Nat \cup {NoOne}]
  /\ callbacks \subseteq Callback /\ asked \in Nat
  /\ \A c \in callbacks : CallOK(c)
  /\ issued \subseteq Nat \X Subject \X Nat \X Nat
  /\ \A i \in issued : i[1] \in DOMAIN logins /\ i[3] \in DOMAIN users

UsersInv ==
  \A u, v \in DOMAIN users :
    \/ users[u].email = users[v].email
    \/ users[u].subject = users[v].subject /\ users[u].subject # NoOne
    => u = v

OnceInv ==
  /\ \A c \in callbacks : Past(c) => /\ logins[c.login].spent
                                     /\ \A i \in issued : i[1] # c.login
  /\ \A c, d \in callbacks : Past(c) /\ Past(d) /\ c.login = d.login => c = d
  /\ \A i \in issued : logins[i[1]].spent
  /\ \A i, j \in issued : i[1] = j[1] => i = j

AccountInv ==
  /\ \A c \in callbacks :
       c.at = "issue" /\ SubjectOf(c) \notin relinked => users[c.user].subject = SubjectOf(c)
  /\ \A i \in issued : i[2] \notin relinked => users[i[3]].subject = i[2]

SessionInv ==
  /\ \A c \in callbacks : c.at = "me" => \E i \in issued : i[1] = c.login /\ i[3] = c.user
  /\ \A b \in Browser : session[b] # NoOne =>
       \E i \in issued : logins[i[1]].browser = b /\ i[3] = session[b]

CookieInv ==
  /\ \A n \in DOMAIN logins : cookie[logins[n].browser] = n \/ n \in disturbed
  /\ \A c \in callbacks : OwnReturn(c) => c.cookie = c.state \/ c.state \in disturbed
  /\ refused \subseteq disturbed

BoundInv ==
  /\ \A b \in Browser : cookie[b] # NoOne => cookie[b] \in DOMAIN logins /\ logins[cookie[b]].browser = b
  /\ \A c \in callbacks : c.cookie # NoOne => c.cookie \in DOMAIN logins /\ logins[c.cookie].browser = c.browser
  /\ \A c \in callbacks : Past(c) \/ c.at = "me" => c.cookie = c.login

SignOnInv == TypeInv /\ UsersInv /\ OnceInv /\ AccountInv /\ SessionInv /\ CookieInv

\* Of two callbacks: the one is what became of the other.
Same(c, d) == d.browser = c.browser /\ d.state = c.state /\ d.login = c.login /\ d.cookie = c.cookie

-----------------------------------------------------------------------------
(* Records                                                                 *)

\* A callback that goes on keeps its browser, its login, its cookie and what else it has.
LEMMA Moved ==
  ASSUME NEW c \in Callback, NEW p \in Stages
  PROVE  /\ [c EXCEPT !.at = p] \in Callback
         /\ [c EXCEPT !.at = p].at = p
         /\ [c EXCEPT !.at = p].id = c.id
         /\ [c EXCEPT !.at = p].browser = c.browser
         /\ [c EXCEPT !.at = p].state = c.state
         /\ [c EXCEPT !.at = p].login = c.login
         /\ [c EXCEPT !.at = p].cookie = c.cookie
         /\ [c EXCEPT !.at = p].email = c.email
         /\ [c EXCEPT !.at = p].user = c.user
  BY DEF Callback

\* The stages.
LEMMA StageNames ==
  /\ "check" \in Stages /\ "exchange" \in Stages /\ "subject" \in Stages /\ "email" \in Stages
  /\ "link" \in Stages /\ "create" \in Stages /\ "issue" \in Stages /\ "me" \in Stages
  BY DEF Stages

\* A new user is after the others, which stay as they are.
LEMMA UserAppended ==
  ASSUME users \in Seq(UserRow), NEW r \in UserRow, users' = Append(users, r)
  PROVE  /\ users' \in Seq(UserRow)
         /\ DOMAIN users' = DOMAIN users \cup {Len(users) + 1}
         /\ Len(users) + 1 \in Nat
         /\ Len(users) + 1 \notin DOMAIN users
         /\ \A u \in DOMAIN users : users'[u] = users[u]
         /\ users'[Len(users) + 1] = r
  <1>1. Len(users) \in Nat /\ DOMAIN users = 1 .. Len(users)
    BY LenProperties
  <1>2. /\ users' \in Seq(UserRow) /\ Len(users') = Len(users) + 1
        /\ \A u \in 1 .. Len(users) : users'[u] = users[u]
        /\ users'[Len(users) + 1] = r
    BY AppendProperties
  <1>3. DOMAIN users' = 1 .. Len(users) + 1
    BY <1>2, LenProperties
  <1> QED BY <1>1, <1>2, <1>3

\* So is a new login.
LEMMA LoginAppended ==
  ASSUME logins \in Seq(LoginRow), NEW r \in LoginRow, logins' = Append(logins, r)
  PROVE  /\ logins' \in Seq(LoginRow)
         /\ DOMAIN logins' = DOMAIN logins \cup {Len(logins) + 1}
         /\ Len(logins) + 1 \in Nat
         /\ Len(logins) + 1 \notin DOMAIN logins
         /\ \A n \in DOMAIN logins : logins'[n] = logins[n]
         /\ logins'[Len(logins) + 1] = r
  <1>1. Len(logins) \in Nat /\ DOMAIN logins = 1 .. Len(logins)
    BY LenProperties
  <1>2. /\ logins' \in Seq(LoginRow) /\ Len(logins') = Len(logins) + 1
        /\ \A n \in 1 .. Len(logins) : logins'[n] = logins[n]
        /\ logins'[Len(logins) + 1] = r
    BY AppendProperties
  <1>3. DOMAIN logins' = 1 .. Len(logins) + 1
    BY <1>2, LenProperties
  <1> QED BY <1>1, <1>2, <1>3

\* What a row of the tables is.
LEMMA Rows ==
  ASSUME TypeInv
  PROVE  /\ \A u \in DOMAIN users : users[u] \in UserRow /\ u \in Nat
         /\ \A n \in DOMAIN logins : logins[n] \in LoginRow /\ n \in Nat
  <1>1. users \in Seq(UserRow) /\ logins \in Seq(LoginRow)
    BY DEF TypeInv
  <1>2. \A u \in DOMAIN users : users[u] \in UserRow /\ u \in Nat
    BY <1>1, ElementOfSeq, LenProperties
  <1>3. \A n \in DOMAIN logins : logins[n] \in LoginRow /\ n \in Nat
    BY <1>1, ElementOfSeq, LenProperties
  <1> QED BY <1>2, <1>3

-----------------------------------------------------------------------------
(* Steps that change the requests under way and nothing else.  What a      *)
(* callback becomes: one of the same browser, with the same state, login   *)
(* and cookie, that was past the exchange before if it is now.             *)

\* The callback ends.
LEMMA CallEnds ==
  ASSUME SignOnInv, NEW c \in callbacks, Ends(c), UNCHANGED <<users, issued, relinked, mailOf, asked>>,
         UNCHANGED <<logins, cookie, session, disturbed>>, refused' \subseteq disturbed
  PROVE  SignOnInv'
  <1>1. callbacks' \subseteq callbacks
    BY DEF Ends
  <1>2. TypeInv'
    BY <1>1 DEF SignOnInv, TypeInv, CallOK
  <1>3. UsersInv' /\ OnceInv'
    BY <1>1 DEF SignOnInv, UsersInv, OnceInv, Past
  <1>4. AccountInv' /\ SessionInv'
    BY <1>1 DEF SignOnInv, AccountInv, SessionInv, SubjectOf
  <1>5. CookieInv'
    BY <1>1 DEF SignOnInv, CookieInv, OwnReturn
  <1> QED BY <1>2, <1>3, <1>4, <1>5 DEF SignOnInv

\* The callback goes on.
LEMMA CallGoes ==
  ASSUME SignOnInv, NEW c \in callbacks, NEW d \in Callback, Goes(c, d),
         Same(c, d), CallOK(d), Past(d) => Past(c), d.at # "me",
         d.at = "issue" => users[d.user].subject = SubjectOf(d),
         UNCHANGED <<users, issued, relinked, mailOf, asked>>,
         UNCHANGED <<logins, cookie, session, disturbed, refused>>
  PROVE  SignOnInv'
  <1>1. callbacks' = (callbacks \ {c}) \cup {d}
    BY DEF Goes
  <1>2. TypeInv'
    BY <1>1 DEF SignOnInv, TypeInv, CallOK, Same
  <1>3. UsersInv'
    BY DEF SignOnInv, UsersInv
  <1>4. OnceInv'
    <2>1. \A e \in callbacks' : Past(e) => /\ logins[e.login].spent
                                           /\ \A i \in issued : i[1] # e.login
      BY <1>1 DEF SignOnInv, OnceInv, Same
    <2>2. ASSUME NEW e \in callbacks', NEW f \in callbacks', Past(e), Past(f), e.login = f.login
          PROVE  e = f
      BY <1>1, <2>2 DEF SignOnInv, OnceInv, Same
    <2> QED BY <2>1, <2>2 DEF SignOnInv, OnceInv, Past
  <1>5. AccountInv' /\ SessionInv'
    BY <1>1 DEF SignOnInv, AccountInv, SessionInv, SubjectOf, Same
  <1>6. CookieInv'
    BY <1>1 DEF SignOnInv, CookieInv, OwnReturn, Same
  <1> QED BY <1>2, <1>3, <1>4, <1>5, <1>6 DEF SignOnInv

-----------------------------------------------------------------------------
(* The steps                                                               *)

\* A registration adds a user whose address nobody has and without a subject.
LEMMA RegisterKeeps ==
  ASSUME SignOnInv, NEW e \in Email, Register(e)
  PROVE  SignOnInv'
  <1> DEFINE r == [email |-> e, subject |-> NoOne]
  <1>1. r \in UserRow /\ r.email = e /\ r.subject = NoOne
    BY DEF UserRow
  <1>2. /\ users' = Append(users, r) /\ \A u \in DOMAIN users : users[u].email # e
        /\ UNCHANGED <<issued, relinked, mailOf, callbacks, asked, logins, cookie, session, disturbed, refused>>
    BY DEF Register, WithEmail, inBrowser
  <1> HIDE DEF r
  <1>3. /\ users' \in Seq(UserRow)
        /\ DOMAIN users' = DOMAIN users \cup {Len(users) + 1}
        /\ Len(users) + 1 \notin DOMAIN users
        /\ \A u \in DOMAIN users : users'[u] = users[u]
        /\ users'[Len(users) + 1] = r
    BY <1>1, <1>2, UserAppended DEF SignOnInv, TypeInv
  <1>4. TypeInv'
    BY <1>2, <1>3 DEF SignOnInv, TypeInv, CallOK
  <1>5. UsersInv'
    BY <1>1, <1>2, <1>3 DEF SignOnInv, UsersInv
  <1>6. OnceInv'
    BY <1>2 DEF SignOnInv, OnceInv, Past
  <1>7. AccountInv'
    <2>1. \A c \in callbacks : c.at = "issue" => users'[c.user] = users[c.user]
      BY <1>3 DEF SignOnInv, TypeInv, CallOK
    <2>2. \A i \in issued : users'[i[3]] = users[i[3]]
      BY <1>3 DEF SignOnInv, TypeInv
    <2> QED BY <1>2, <2>1, <2>2 DEF SignOnInv, AccountInv, SubjectOf
  <1>8. SessionInv' /\ CookieInv'
    BY <1>2 DEF SignOnInv, SessionInv, CookieInv, OwnReturn
  <1> QED BY <1>4, <1>5, <1>6, <1>7, <1>8 DEF SignOnInv

\* An address moves at the provider: nothing here knows.
LEMMA MoveMailKeeps ==
  ASSUME SignOnInv, NEW s \in Subject, NEW e \in Email, MoveMail(s, e)
  PROVE  SignOnInv'
  <1>1. /\ mailOf' = [mailOf EXCEPT ![s] = e]
        /\ UNCHANGED <<users, issued, relinked, callbacks, asked, logins, cookie, session, disturbed, refused>>
    BY DEF MoveMail, accounts, inBrowser
  <1>2. TypeInv'
    BY <1>1 DEF SignOnInv, TypeInv, CallOK
  <1>3. UsersInv' /\ OnceInv'
    BY <1>1 DEF SignOnInv, UsersInv, OnceInv, Past
  <1>4. AccountInv' /\ SessionInv' /\ CookieInv'
    BY <1>1 DEF SignOnInv, AccountInv, SessionInv, CookieInv, SubjectOf, OwnReturn
  <1> QED BY <1>2, <1>3, <1>4 DEF SignOnInv

\* A cookie that goes was of a login of its browser, which is disturbed.
LEMMA CookieGoes ==
  ASSUME SignOnInv, NEW b \in Browser, cookie' = [cookie EXCEPT ![b] = NoOne],
         disturbed' = disturbed \cup LoginsOf(b), logins' = logins, refused' = refused,
         \A c \in callbacks' : \E d \in callbacks : Same(d, c)
  PROVE  CookieInv'
  <1>1. ASSUME NEW n \in DOMAIN logins
        PROVE  cookie'[logins[n].browser] = n \/ n \in disturbed'
    <2>1. logins[n].browser \in Browser
      BY Rows DEF SignOnInv, LoginRow
    <2>2. CASE logins[n].browser = b
      BY <2>2 DEF LoginsOf
    <2>3. CASE logins[n].browser # b
      BY <2>1, <2>3 DEF SignOnInv, TypeInv, CookieInv
    <2> QED BY <2>2, <2>3
  <1>2. \A c \in callbacks' : OwnReturn(c)' => c.cookie = c.state \/ c.state \in disturbed'
    BY DEF SignOnInv, CookieInv, OwnReturn, Same
  <1>3. refused' \subseteq disturbed'
    BY DEF SignOnInv, CookieInv
  <1> QED BY <1>1, <1>2, <1>3 DEF CookieInv

\* The cookie expires.
LEMMA ExpireKeeps ==
  ASSUME SignOnInv, NEW b \in Browser, Expire(b)
  PROVE  SignOnInv'
  <1>1. /\ cookie' = [cookie EXCEPT ![b] = NoOne] /\ disturbed' = disturbed \cup LoginsOf(b)
        /\ UNCHANGED <<users, issued, relinked, mailOf, callbacks, asked, logins, session, refused>>
    BY DEF Expire, accounts
  <1>2. TypeInv'
    BY <1>1 DEF SignOnInv, TypeInv, CallOK
  <1>3. UsersInv' /\ OnceInv'
    BY <1>1 DEF SignOnInv, UsersInv, OnceInv, Past
  <1>4. AccountInv' /\ SessionInv'
    BY <1>1 DEF SignOnInv, AccountInv, SessionInv, SubjectOf
  <1>5. CookieInv'
    BY <1>1, CookieGoes DEF Same
  <1> QED BY <1>2, <1>3, <1>4, <1>5 DEF SignOnInv

\* A login begins: its number is new, and the cookie is of it.
LEMMA BeginLoginKeeps ==
  ASSUME SignOnInv, NEW b \in Browser, BeginLogin(b)
  PROVE  SignOnInv'
  <1> DEFINE r == [browser |-> b, subject |-> NoOne, spent |-> FALSE]
             n == Len(logins) + 1
  <1>1. r \in LoginRow /\ r.browser = b
    BY DEF LoginRow
  <1>2. /\ logins' = Append(logins, r)
        /\ cookie' = [cookie EXCEPT ![b] = n] /\ disturbed' = disturbed \cup LoginsOf(b)
        /\ UNCHANGED <<users, issued, relinked, mailOf, callbacks, asked, session, refused>>
    BY DEF BeginLogin, accounts, atProvider
  <1> HIDE DEF r
  <1>3. /\ logins' \in Seq(LoginRow)
        /\ DOMAIN logins' = DOMAIN logins \cup {n}
        /\ n \in Nat /\ n \notin DOMAIN logins
        /\ \A m \in DOMAIN logins : logins'[m] = logins[m]
        /\ logins'[n] = r
    BY <1>1, <1>2, LoginAppended DEF SignOnInv, TypeInv
  <1> HIDE DEF n
  <1>4. TypeInv'
    BY <1>2, <1>3 DEF SignOnInv, TypeInv, CallOK
  <1>5. UsersInv'
    BY <1>2 DEF SignOnInv, UsersInv
  <1>6. \A c \in callbacks : logins'[c.login] = logins[c.login]
    BY <1>3 DEF SignOnInv, TypeInv, CallOK
  <1>7. \A i \in issued : logins'[i[1]] = logins[i[1]]
    BY <1>3 DEF SignOnInv, TypeInv
  <1>8. OnceInv'
    BY <1>2, <1>6, <1>7 DEF SignOnInv, OnceInv, Past
  <1>9. AccountInv' /\ SessionInv'
    <2>1. AccountInv'
      <3>1. users' = users /\ issued' = issued /\ relinked' = relinked /\ callbacks' = callbacks
        BY <1>2
      <3>2. \A c \in callbacks' : c.at = "issue" /\ logins'[c.login].subject \notin relinked' =>
                                   users'[c.user].subject = logins'[c.login].subject
        BY <1>6, <3>1 DEF SignOnInv, AccountInv, SubjectOf
      <3>3. \A i \in issued' : i[2] \notin relinked' => users'[i[3]].subject = i[2]
        BY <3>1 DEF SignOnInv, AccountInv
      <3> QED BY <3>2, <3>3 DEF AccountInv, SubjectOf
    <2>2. SessionInv'
      <3>1. session' = session /\ issued' = issued /\ callbacks' = callbacks
        BY <1>2
      <3>2. \A a \in Browser : session'[a] # NoOne =>
              \E i \in issued' : logins'[i[1]].browser = a /\ i[3] = session'[a]
        BY <1>7, <3>1 DEF SignOnInv, SessionInv
      <3>3. \A c \in callbacks' : c.at = "me" => \E i \in issued' : i[1] = c.login /\ i[3] = c.user
        BY <3>1 DEF SignOnInv, SessionInv
      <3> QED BY <3>2, <3>3, Zenon DEF SessionInv
    <2> QED BY <2>1, <2>2
  <1>10. CookieInv'
    <2>1. ASSUME NEW m \in DOMAIN logins'
          PROVE  cookie'[logins'[m].browser] = m \/ m \in disturbed'
      <3>1. CASE m = n
        BY <1>1, <1>2, <1>3, <3>1 DEF SignOnInv, TypeInv
      <3>2. CASE m # n
        <4>1. m \in DOMAIN logins /\ logins'[m] = logins[m]
          BY <1>3, <2>1, <3>2
        <4>2. logins[m].browser \in Browser
          BY <4>1, Rows DEF SignOnInv, LoginRow
        <4>3. CASE logins[m].browser = b
          BY <1>2, <4>1, <4>3 DEF LoginsOf
        <4>4. CASE logins[m].browser # b
          BY <1>2, <4>1, <4>2, <4>4 DEF SignOnInv, TypeInv, CookieInv
        <4> QED BY <4>3, <4>4
      <3> QED BY <3>1, <3>2
    <2>2. ASSUME NEW c \in callbacks, OwnReturn(c)'
          PROVE  c.cookie = c.state \/ c.state \in disturbed'
      <3>1. logins'[c.state] = logins[c.state]
        BY <1>3 DEF SignOnInv, TypeInv, CallOK
      <3> QED BY <1>2, <2>2, <3>1 DEF SignOnInv, CookieInv, OwnReturn
    <2> QED BY <1>2, <2>1, <2>2 DEF SignOnInv, CookieInv
  <1> QED BY <1>4, <1>5, <1>8, <1>9, <1>10 DEF SignOnInv

\* The browser comes back, with the cookie it has now.
LEMMA ReturnKeeps ==
  ASSUME SignOnInv, NEW b \in Browser, NEW o \in DOMAIN logins, NEW n \in DOMAIN logins,
         NEW s \in Subject, Return(b, o, n, s)
  PROVE  SignOnInv'
  <1>0. PICK k : k = [id |-> asked, browser |-> b, state |-> o, login |-> n, cookie |-> cookie[b],
                      at |-> "check", email |-> NoOne, user |-> NoOne]
    OBVIOUS
  <1>1. /\ logins[n].subject \in {NoOne, s} /\ asked' = asked + 1
        /\ logins' = [logins EXCEPT ![n].subject = s]
        /\ callbacks' = callbacks \cup {k}
        /\ UNCHANGED <<users, issued, relinked, mailOf, cookie, session, disturbed, refused>>
    BY <1>0 DEF Return, accounts, atProvider
  <1>2. logins[n] \in LoginRow /\ n \in Nat /\ logins[n].browser \in Browser
    BY Rows DEF SignOnInv, LoginRow
  <1>3. /\ k \in Callback /\ k.browser = b /\ k.state = o /\ k.login = n /\ k.cookie = cookie[b]
        /\ k.at = "check"
    <2>1. o \in Nat /\ asked \in Nat /\ cookie[b] \in Nat \cup {NoOne}
      BY Rows DEF SignOnInv, TypeInv
    <2> QED BY <1>0, <1>2, <2>1 DEF Callback, Stages
  <1>4. /\ DOMAIN logins' = DOMAIN logins
        /\ logins' \in Seq(LoginRow)
        /\ logins'[n].subject = s
        /\ \A m \in DOMAIN logins : logins'[m].browser = logins[m].browser /\ logins'[m].spent = logins[m].spent
        /\ \A m \in DOMAIN logins : logins[m].subject \in Subject => logins'[m].subject = logins[m].subject
    <2> DEFINE r == [logins[n] EXCEPT !.subject = s]
    <2>1. r \in LoginRow /\ r.subject = s /\ r.browser = logins[n].browser /\ r.spent = logins[n].spent
      BY <1>2 DEF LoginRow
    <2>2. logins' = [logins EXCEPT ![n] = r]
      BY <1>1
    <2> HIDE DEF r
    <2>3. logins \in Seq(LoginRow) /\ n \in 1 .. Len(logins) /\ DOMAIN logins = 1 .. Len(logins)
      BY LenProperties DEF SignOnInv, TypeInv
    <2>4. logins' \in Seq(LoginRow) /\ DOMAIN logins' = DOMAIN logins
      BY <2>1, <2>2, <2>3, ExceptSeq, LenProperties
    <2>5. logins'[n] = r /\ \A m \in DOMAIN logins : m # n => logins'[m] = logins[m]
      BY <2>2
    <2> QED BY <1>1, <2>1, <2>4, <2>5, SignOnAssumption
  <1>5. TypeInv'
    <2>1. \A c \in callbacks' : c \in Callback /\ CallOK(c)'
      BY <1>1, <1>3, <1>4, StageNames DEF SignOnInv, TypeInv, CallOK
    <2> QED BY <1>1, <1>4, <2>1 DEF SignOnInv, TypeInv
  <1>6. UsersInv'
    BY <1>1 DEF SignOnInv, UsersInv
  <1>7. OnceInv'
    <2>1. ~Past(k)
      BY <1>3 DEF Past
    <2>2. \A c \in callbacks : c.login \in DOMAIN logins
      BY DEF SignOnInv, TypeInv, CallOK
    <2>3. \A i \in issued : i[1] \in DOMAIN logins
      BY DEF SignOnInv, TypeInv
    <2>4. \A c \in callbacks' : Past(c) => /\ logins'[c.login].spent
                                           /\ \A i \in issued : i[1] # c.login
      BY <1>1, <1>4, <2>1, <2>2 DEF SignOnInv, OnceInv
    <2>5. \A c, d \in callbacks' : Past(c) /\ Past(d) /\ c.login = d.login => c = d
      BY <1>1, <2>1 DEF SignOnInv, OnceInv
    <2>6. \A i \in issued : logins'[i[1]].spent
      BY <1>4, <2>3 DEF SignOnInv, OnceInv
    <2> QED BY <1>1, <2>4, <2>5, <2>6 DEF SignOnInv, OnceInv, Past
  <1>8. AccountInv'
    <2>1. \A c \in callbacks : logins'[c.login].subject = logins[c.login].subject
      BY <1>4 DEF SignOnInv, TypeInv, CallOK
    <2>2. k.at # "issue"
      BY <1>3
    <2> QED BY <1>1, <2>1, <2>2 DEF SignOnInv, AccountInv, SubjectOf
  <1>9. SessionInv'
    <2>1. \A i \in issued : logins'[i[1]].browser = logins[i[1]].browser
      BY <1>4 DEF SignOnInv, TypeInv
    <2>2. k.at # "me"
      BY <1>3
    <2> QED BY <1>1, <2>1, <2>2 DEF SignOnInv, SessionInv
  <1>10. CookieInv'
    <2>1. ASSUME OwnReturn(k)'
          PROVE  k.cookie = k.state \/ k.state \in disturbed
      BY <1>3, <1>4, <2>1 DEF SignOnInv, CookieInv, OwnReturn
    <2>2. ASSUME NEW c \in callbacks, OwnReturn(c)'
          PROVE  c.cookie = c.state \/ c.state \in disturbed
      <3>1. c.state \in DOMAIN logins
        BY DEF SignOnInv, TypeInv, CallOK
      <3> QED BY <1>4, <2>2, <3>1 DEF SignOnInv, CookieInv, OwnReturn
    <2>3. \A m \in DOMAIN logins' : cookie'[logins'[m].browser] = m \/ m \in disturbed'
      BY <1>1, <1>4 DEF SignOnInv, CookieInv
    <2> QED BY <1>1, <2>1, <2>2, <2>3 DEF SignOnInv, CookieInv
  <1> QED BY <1>5, <1>6, <1>7, <1>8, <1>9, <1>10 DEF SignOnInv

\* The cookie is looked at.
LEMMA ReadTransactionKeeps ==
  ASSUME SignOnInv, NEW c \in callbacks, ReadTransaction(c)
  PROVE  SignOnInv'
  <1>1. /\ c.at = "check"
        /\ UNCHANGED <<users, issued, relinked, mailOf, asked>>
        /\ UNCHANGED <<logins, cookie, session, disturbed>>
    BY DEF ReadTransaction, accounts, atProvider
  <1>2. c \in Callback
    BY DEF SignOnInv, TypeInv
  <1>3. CASE c.cookie = c.state
    <2>1. PICK d : d = [c EXCEPT !.at = "exchange"]
      OBVIOUS
    <2>2. Goes(c, d) /\ refused' = refused
      BY <1>3, <2>1 DEF ReadTransaction
    <2>3. d \in Callback /\ d.at = "exchange" /\ Same(c, d)
      BY <1>2, <2>1, Moved, StageNames DEF Same
    <2>4. CallOK(d) /\ ~Past(d)
      BY <2>3 DEF SignOnInv, TypeInv, CallOK, Past, Same
    <2> QED BY <1>1, <2>2, <2>3, <2>4, CallGoes
  <1>4. CASE c.cookie # c.state
    <2>1. Ends(c) /\ refused' = refused \cup (IF OwnReturn(c) THEN {c.state} ELSE {})
      BY <1>4 DEF ReadTransaction
    <2>2. refused' \subseteq disturbed
      BY <1>4, <2>1 DEF SignOnInv, CookieInv
    <2> QED BY <1>1, <2>1, <2>2, CallEnds
  <1> QED BY <1>3, <1>4

\* The code is exchanged: one callback of the login gets past this.
LEMMA ExchangeCodeKeeps ==
  ASSUME SignOnInv, NEW c \in callbacks, ExchangeCode(c)
  PROVE  SignOnInv'
  <1> DEFINE n == c.login
  <1>1. /\ c.at = "exchange"
        /\ logins' = [logins EXCEPT ![n].spent = TRUE]
        /\ \/ ~logins[n].spent /\ Goes(c, [c EXCEPT !.at = "subject", !.email = mailOf[logins[n].subject]])
           \/ Ends(c)
        /\ UNCHANGED <<users, issued, relinked, mailOf, asked>>
        /\ UNCHANGED <<cookie, session, disturbed, refused>>
    BY DEF ExchangeCode, Exchanged, accounts, atProvider
  <1>2. c \in Callback /\ n \in DOMAIN logins /\ logins[n].subject \in Subject
    BY DEF SignOnInv, TypeInv, CallOK
  <1> HIDE DEF n
  <1>3. /\ DOMAIN logins' = DOMAIN logins
        /\ logins' \in Seq(LoginRow)
        /\ logins'[n].spent
        /\ \A m \in DOMAIN logins :
             logins'[m].browser = logins[m].browser /\ logins'[m].subject = logins[m].subject
        /\ \A m \in DOMAIN logins : logins[m].spent => logins'[m].spent
    <2> DEFINE r == [logins[n] EXCEPT !.spent = TRUE]
    <2>0. logins[n] \in LoginRow
      BY <1>2, Rows DEF SignOnInv
    <2>1. r \in LoginRow /\ r.spent = TRUE /\ r.browser = logins[n].browser /\ r.subject = logins[n].subject
      BY <2>0 DEF LoginRow
    <2>2. logins' = [logins EXCEPT ![n] = r]
      BY <1>1
    <2> HIDE DEF r
    <2>3. logins \in Seq(LoginRow) /\ n \in 1 .. Len(logins) /\ DOMAIN logins = 1 .. Len(logins)
      BY <1>2, LenProperties DEF SignOnInv, TypeInv
    <2>4. logins' \in Seq(LoginRow) /\ DOMAIN logins' = DOMAIN logins
      BY <2>1, <2>2, <2>3, ExceptSeq, LenProperties
    <2>5. logins'[n] = r /\ \A m \in DOMAIN logins : m # n => logins'[m] = logins[m]
      BY <1>2, <2>2
    <2> QED BY <2>1, <2>4, <2>5
  <1>4. PICK K : /\ callbacks' = K
                 /\ \/ K = callbacks \ {c}
                    \/ /\ ~logins[n].spent
                       /\ \E d \in Callback : /\ K = (callbacks \ {c}) \cup {d}
                                              /\ d.at = "subject" /\ d.email \in Email
                                              /\ Same(c, d)
    <2>1. CASE Ends(c)
      BY <2>1 DEF Ends
    <2>2. CASE ~logins[n].spent /\ Goes(c, [c EXCEPT !.at = "subject", !.email = mailOf[logins[n].subject]])
      <3>1. mailOf[logins[n].subject] \in Email
        BY <1>2 DEF SignOnInv, TypeInv
      <3>2. PICK d : d = [c EXCEPT !.at = "subject", !.email = mailOf[logins[n].subject]]
        OBVIOUS
      <3>3. d \in Callback /\ d.at = "subject" /\ Same(c, d) /\ d.email \in Email
        BY <1>2, <3>1, <3>2 DEF Callback, Stages, Same
      <3>4. callbacks' = (callbacks \ {c}) \cup {d}
        BY <2>2, <3>2 DEF Goes
      <3> QED BY <2>2, <3>3, <3>4 DEF n
    <2> QED BY <1>1, <2>1, <2>2
  <1>5. \A d \in K : \/ d \in callbacks
                     \/ /\ d \in Callback /\ ~logins[n].spent /\ d.at = "subject"
                        /\ d.email \in Email /\ d.login = n /\ Same(c, d)
    BY <1>4 DEF Same, n
  <1>6. \A d, e \in K : d \notin callbacks /\ e \notin callbacks => d = e
    BY <1>4
  <1>7. TypeInv'
    <2>1. \A d \in K : d \in Callback /\ CallOK(d)'
      BY <1>1, <1>2, <1>3, <1>5 DEF SignOnInv, TypeInv, CallOK, Same
    <2> QED BY <1>1, <1>3, <1>4, <2>1 DEF SignOnInv, TypeInv
  <1>8. UsersInv'
    BY <1>1 DEF SignOnInv, UsersInv
  <1>9. OnceInv'
    <2>1. \A d \in callbacks : d.login \in DOMAIN logins
      BY DEF SignOnInv, TypeInv, CallOK
    <2>2. \A i \in issued : i[1] \in DOMAIN logins /\ logins[i[1]].spent
      BY DEF SignOnInv, TypeInv, OnceInv
    <2>3. \A d \in K : Past(d) => logins'[d.login].spent /\ \A i \in issued : i[1] # d.login
      BY <1>3, <1>5, <2>1, <2>2 DEF SignOnInv, OnceInv
    <2>4. ASSUME NEW d \in K, NEW e \in K, Past(d), Past(e), d.login = e.login
          PROVE  d = e
      <3>1. \A f \in callbacks : Past(f) => logins[f.login].spent
        BY DEF SignOnInv, OnceInv
      <3>2. CASE d \in callbacks /\ e \in callbacks
        BY <2>4, <3>2 DEF SignOnInv, OnceInv
      <3>3. CASE d \notin callbacks /\ e \notin callbacks
        BY <1>6, <2>4, <3>3
      <3>4. CASE d \in callbacks /\ e \notin callbacks
        BY <1>5, <2>4, <3>1, <3>4
      <3>5. CASE d \notin callbacks /\ e \in callbacks
        BY <1>5, <2>4, <3>1, <3>5
      <3> QED BY <3>2, <3>3, <3>4, <3>5
    <2>5. \A i \in issued : logins'[i[1]].spent
      BY <1>3, <2>2
    <2> QED BY <1>1, <1>4, <2>3, <2>4, <2>5 DEF SignOnInv, OnceInv, Past
  <1>10. AccountInv'
    <2>1. \A d \in callbacks : logins'[d.login].subject = logins[d.login].subject
      BY <1>3 DEF SignOnInv, TypeInv, CallOK
    <2>2. \A d \in K : d.at = "issue" => d \in callbacks
      BY <1>5
    <2> QED BY <1>1, <1>4, <2>1, <2>2 DEF SignOnInv, AccountInv, SubjectOf
  <1>11. SessionInv'
    <2>1. \A i \in issued : logins'[i[1]].browser = logins[i[1]].browser
      BY <1>3 DEF SignOnInv, TypeInv
    <2>2. \A d \in K : d.at = "me" => d \in callbacks
      BY <1>5
    <2> QED BY <1>1, <1>4, <2>1, <2>2 DEF SignOnInv, SessionInv
  <1>12. CookieInv'
    <2>1. \A d \in K : \E e \in callbacks : Same(e, d)
      BY <1>5 DEF Same
    <2>2. \A e \in callbacks : e.state \in DOMAIN logins
      BY DEF SignOnInv, TypeInv, CallOK
    <2>3. \A d \in K : OwnReturn(d)' => d.cookie = d.state \/ d.state \in disturbed
      BY <1>3, <2>1, <2>2 DEF SignOnInv, CookieInv, OwnReturn, Same
    <2>4. \A m \in DOMAIN logins' : cookie'[logins'[m].browser] = m \/ m \in disturbed'
      BY <1>1, <1>3 DEF SignOnInv, CookieInv
    <2> QED BY <1>1, <1>4, <2>3, <2>4 DEF SignOnInv, CookieInv
  <1> QED BY <1>7, <1>8, <1>9, <1>10, <1>11, <1>12 DEF SignOnInv

\* A user with the subject is found, or it is looked for by address.
LEMMA FindBySubjectKeeps ==
  ASSUME SignOnInv, NEW c \in callbacks, FindBySubject(c)
  PROVE  SignOnInv'
  <1>1. /\ c.at = "subject"
        /\ UNCHANGED <<users, issued, relinked, mailOf, asked>>
        /\ UNCHANGED <<logins, cookie, session, disturbed, refused>>
    BY DEF FindBySubject, accounts, atProvider, inBrowser
  <1>2. c \in Callback /\ CallOK(c) /\ Past(c)
    BY <1>1 DEF SignOnInv, TypeInv, Past
  <1>3. CASE Known(c) = {}
    <2>1. PICK d : d = [c EXCEPT !.at = "email"]
      OBVIOUS
    <2>2. Goes(c, d)
      BY <1>3, <2>1 DEF FindBySubject
    <2>3. d \in Callback /\ d.at = "email" /\ Same(c, d) /\ d.email = c.email
      BY <1>2, <2>1, Moved, StageNames DEF Same
    <2>4. CallOK(d)
      BY <1>1, <1>2, <2>3 DEF CallOK, Same
    <2> QED BY <1>1, <1>2, <2>2, <2>3, <2>4, CallGoes
  <1>4. CASE Known(c) # {}
    <2>1. PICK u \in Known(c) : Goes(c, [c EXCEPT !.at = "issue", !.user = u])
      BY <1>4 DEF FindBySubject
    <2>2. u \in DOMAIN users /\ u \in Nat /\ users[u].subject = SubjectOf(c)
      BY <2>1, Rows DEF Known, WithSubject, SignOnInv
    <2>3. PICK d : d = [c EXCEPT !.at = "issue", !.user = u]
      OBVIOUS
    <2>4. d \in Callback /\ d.at = "issue" /\ Same(c, d) /\ d.user = u
      BY <1>2, <2>2, <2>3 DEF Callback, Stages, Same
    <2>5. CallOK(d) /\ users[d.user].subject = SubjectOf(d)
      BY <1>2, <2>2, <2>4 DEF CallOK, SubjectOf, Same
    <2> QED BY <1>1, <1>2, <2>1, <2>3, <2>4, <2>5, CallGoes
  <1> QED BY <1>3, <1>4

\* A user with the address is found, or there is to be a new one.
LEMMA FindByEmailKeeps ==
  ASSUME SignOnInv, NEW c \in callbacks, FindByEmail(c)
  PROVE  SignOnInv'
  <1>1. /\ c.at = "email"
        /\ UNCHANGED <<users, issued, relinked, mailOf, asked>>
        /\ UNCHANGED <<logins, cookie, session, disturbed, refused>>
    BY DEF FindByEmail, accounts, atProvider, inBrowser
  <1>2. c \in Callback /\ CallOK(c) /\ Past(c)
    BY <1>1 DEF SignOnInv, TypeInv, Past
  <1>3. CASE WithEmail(c.email) = {}
    <2>1. PICK d : d = [c EXCEPT !.at = "create"]
      OBVIOUS
    <2>2. Goes(c, d)
      BY <1>3, <2>1 DEF FindByEmail
    <2>3. d \in Callback /\ d.at = "create" /\ Same(c, d) /\ d.email = c.email
      BY <1>2, <2>1, Moved, StageNames DEF Same
    <2>4. CallOK(d)
      BY <1>1, <1>2, <2>3 DEF CallOK, Same
    <2> QED BY <1>1, <1>2, <2>2, <2>3, <2>4, CallGoes
  <1>4. CASE WithEmail(c.email) # {}
    <2>1. PICK u \in WithEmail(c.email) : Goes(c, [c EXCEPT !.at = "link", !.user = u])
      BY <1>4 DEF FindByEmail
    <2>2. u \in DOMAIN users /\ u \in Nat
      BY <2>1, Rows DEF WithEmail, SignOnInv
    <2>3. PICK d : d = [c EXCEPT !.at = "link", !.user = u]
      OBVIOUS
    <2>4. /\ d \in Callback /\ d.at = "link" /\ Same(c, d) /\ d.user = u
          /\ d.email = c.email
      BY <1>2, <2>2, <2>3 DEF Callback, Stages, Same
    <2>5. CallOK(d)
      BY <1>1, <1>2, <2>2, <2>4 DEF CallOK, Same
    <2> QED BY <1>1, <1>2, <2>1, <2>3, <2>4, <2>5, CallGoes
  <1> QED BY <1>3, <1>4

\* A user is linked: who had another subject had it before, and relinked says so.
LEMMA LinkKeeps ==
  ASSUME SignOnInv, NEW c \in callbacks, Link(c)
  PROVE  SignOnInv'
  <1> DEFINE s == SubjectOf(c)
             w == c.user
  <1>1. /\ c.at = "link"
        /\ UNCHANGED <<issued, mailOf, asked>>
        /\ UNCHANGED <<logins, cookie, session, disturbed, refused>>
    BY DEF Link, atProvider, inBrowser
  <1>2. c \in Callback /\ CallOK(c) /\ Past(c) /\ w \in DOMAIN users /\ s \in Subject
    BY <1>1 DEF SignOnInv, TypeInv, Past, CallOK, SubjectOf
  <1>3. CASE ~(WithSubject(s) \subseteq {w})
    BY <1>1, <1>3, CallEnds DEF Link, SignOnInv, CookieInv, OwnReturn, Same
  <1>4. CASE WithSubject(s) \subseteq {w}
    <2>1. PICK d : d = [c EXCEPT !.at = "issue"]
      OBVIOUS
    <2>2. /\ users' = [users EXCEPT ![w].subject = s]
          /\ relinked' = relinked \cup ({users[w].subject} \ {s, NoOne})
          /\ callbacks' = (callbacks \ {c}) \cup {d}
      BY <1>4, <2>1 DEF Link, Goes
    <2>3. /\ d \in Callback /\ d.at = "issue" /\ Same(c, d) /\ d.user = w
      BY <1>2, <2>1, Moved, StageNames DEF Same
    <2>4. \A u \in DOMAIN users : users[u].subject = s => u = w
      BY <1>4 DEF WithSubject
    <2> HIDE DEF s, w
    <2>5. /\ DOMAIN users' = DOMAIN users
          /\ users' \in Seq(UserRow)
          /\ users'[w].subject = s
          /\ \A u \in DOMAIN users : users'[u].email = users[u].email
          /\ \A u \in DOMAIN users : u # w => users'[u] = users[u]
      <3> DEFINE r == [users[w] EXCEPT !.subject = s]
      <3>0. users[w] \in UserRow
        BY <1>2, Rows DEF SignOnInv
      <3>1. r \in UserRow /\ r.subject = s /\ r.email = users[w].email
        BY <1>2, <3>0 DEF UserRow
      <3>2. users' = [users EXCEPT ![w] = r]
        BY <2>2
      <3> HIDE DEF r
      <3>3. users \in Seq(UserRow) /\ w \in 1 .. Len(users) /\ DOMAIN users = 1 .. Len(users)
        BY <1>2, LenProperties DEF SignOnInv, TypeInv
      <3>4. users' \in Seq(UserRow) /\ DOMAIN users' = DOMAIN users
        BY <3>1, <3>2, <3>3, ExceptSeq, LenProperties
      <3>5. users'[w] = r /\ \A u \in DOMAIN users : u # w => users'[u] = users[u]
        BY <1>2, <3>2
      <3> QED BY <3>1, <3>4, <3>5
    <2>6. TypeInv'
      <3>1. \A e \in callbacks' : e \in Callback /\ CallOK(e)'
        BY <1>1, <1>2, <2>2, <2>3, <2>5 DEF SignOnInv, TypeInv, CallOK, w, Same
      <3> QED BY <1>1, <2>5, <3>1 DEF SignOnInv, TypeInv
    <2>7. UsersInv'
      <3>1. ASSUME NEW u \in DOMAIN users', NEW v \in DOMAIN users', users'[u].email = users'[v].email
            PROVE  u = v
        BY <2>5, <3>1 DEF SignOnInv, UsersInv
      <3>2. ASSUME NEW u \in DOMAIN users', NEW v \in DOMAIN users',
                   users'[u].subject = users'[v].subject, users'[u].subject # NoOne
            PROVE  u = v
        BY <2>4, <2>5, <3>2 DEF SignOnInv, UsersInv
      <3> QED BY <3>1, <3>2 DEF UsersInv
    <2>8. OnceInv'
      <3>1. \A e \in callbacks' : Past(e) => /\ logins[e.login].spent
                                             /\ \A i \in issued : i[1] # e.login
        BY <1>2, <2>2, <2>3 DEF SignOnInv, OnceInv, Same
      <3>2. ASSUME NEW e \in callbacks', NEW f \in callbacks', Past(e), Past(f), e.login = f.login
            PROVE  e = f
        BY <1>2, <2>2, <2>3, <3>2 DEF SignOnInv, OnceInv, Same
      <3> QED BY <1>1, <3>1, <3>2 DEF SignOnInv, OnceInv, Past
    <2>9. ASSUME NEW t \in Subject, NEW u \in DOMAIN users, t \notin relinked => users[u].subject = t
          PROVE  t \notin relinked' => users'[u].subject = t
      BY <2>2, <2>5, <2>9, SignOnAssumption
    <2>10. AccountInv'
      <3>1. ASSUME NEW e \in callbacks', e.at = "issue"
            PROVE  logins[e.login].subject \notin relinked' => users'[e.user].subject = logins[e.login].subject
        <4>1. CASE e = d
          BY <2>3, <2>5, <4>1 DEF s, SubjectOf, Same
        <4>2. CASE e # d
          <5>1. e \in callbacks
            BY <2>2, <4>2
          <5>2. logins[e.login].subject \in Subject /\ e.user \in DOMAIN users
            BY <3>1, <5>1 DEF SignOnInv, TypeInv, CallOK, Same
          <5>3. logins[e.login].subject \notin relinked => users[e.user].subject = logins[e.login].subject
            BY <3>1, <5>1 DEF SignOnInv, AccountInv, SubjectOf
          <5> QED BY <2>9, <5>2, <5>3
        <4> QED BY <4>1, <4>2
      <3>2. ASSUME NEW i \in issued
            PROVE  i[2] \notin relinked' => users'[i[3]].subject = i[2]
        <4>1. i[2] \in Subject /\ i[3] \in DOMAIN users
          BY DEF SignOnInv, TypeInv
        <4>2. i[2] \notin relinked => users[i[3]].subject = i[2]
          BY DEF SignOnInv, AccountInv
        <4> QED BY <2>9, <4>1, <4>2
      <3> QED BY <1>1, <3>1, <3>2 DEF AccountInv, SubjectOf
    <2>11. SessionInv' /\ CookieInv'
      BY <1>1, <2>2, <2>3 DEF SignOnInv, SessionInv, CookieInv, OwnReturn, Same
    <2> QED BY <2>6, <2>7, <2>8, <2>10, <2>11 DEF SignOnInv
  <1> QED BY <1>3, <1>4

\* A user is created, unless someone has the address or the subject by now.
LEMMA CreateUserKeeps ==
  ASSUME SignOnInv, NEW c \in callbacks, CreateUser(c)
  PROVE  SignOnInv'
  <1> DEFINE s == SubjectOf(c)
             n == Len(users) + 1
             r == [email |-> c.email, subject |-> s]
  <1>1. /\ c.at = "create"
        /\ UNCHANGED <<issued, relinked, mailOf, asked>>
        /\ UNCHANGED <<logins, cookie, session, disturbed, refused>>
    BY DEF CreateUser, atProvider, inBrowser
  <1>2. c \in Callback /\ CallOK(c) /\ Past(c) /\ c.email \in Email /\ s \in Subject
    BY <1>1 DEF SignOnInv, TypeInv, Past, CallOK, SubjectOf
  <1>3. CASE ~(WithSubject(s) = {} /\ WithEmail(c.email) = {})
    BY <1>1, <1>3, CallEnds DEF CreateUser, SignOnInv, CookieInv, OwnReturn, Same
  <1>4. CASE WithSubject(s) = {} /\ WithEmail(c.email) = {}
    <2>1. /\ users' = Append(users, r)
          /\ Goes(c, [c EXCEPT !.at = "issue", !.user = n])
      BY <1>4 DEF CreateUser
    <2>2. r \in UserRow /\ r.email = c.email /\ r.subject = s
      BY <1>2 DEF UserRow
    <2>3. \A u \in DOMAIN users : users[u].subject # s /\ users[u].email # c.email
      BY <1>4 DEF WithSubject, WithEmail
    <2> HIDE DEF r
    <2>4. /\ users' \in Seq(UserRow)
          /\ DOMAIN users' = DOMAIN users \cup {n}
          /\ n \in Nat
          /\ n \notin DOMAIN users
          /\ \A u \in DOMAIN users : users'[u] = users[u]
          /\ users'[n] = r
      BY <2>1, <2>2, UserAppended DEF SignOnInv, TypeInv
    <2> HIDE DEF s, n
    <2>5. PICK d : d = [c EXCEPT !.at = "issue", !.user = n]
      OBVIOUS
    <2>6. /\ d \in Callback /\ d.at = "issue" /\ Same(c, d) /\ d.user = n
      BY <1>2, <2>4, <2>5 DEF Callback, Stages, Same
    <2>7. callbacks' = (callbacks \ {c}) \cup {d}
      BY <2>1, <2>5 DEF Goes
    <2>8. TypeInv'
      <3>1. \A e \in callbacks' : e \in Callback /\ CallOK(e)'
        BY <1>1, <1>2, <2>4, <2>6, <2>7 DEF SignOnInv, TypeInv, CallOK, Same
      <3> QED BY <1>1, <2>4, <3>1 DEF SignOnInv, TypeInv
    <2>9. UsersInv'
      BY <2>2, <2>3, <2>4 DEF SignOnInv, UsersInv
    <2>10. OnceInv'
      <3>1. \A e \in callbacks' : Past(e) => /\ logins[e.login].spent
                                             /\ \A i \in issued : i[1] # e.login
        BY <1>2, <2>6, <2>7 DEF SignOnInv, OnceInv, Same
      <3>2. ASSUME NEW e \in callbacks', NEW f \in callbacks', Past(e), Past(f), e.login = f.login
            PROVE  e = f
        BY <1>2, <2>6, <2>7, <3>2 DEF SignOnInv, OnceInv, Same
      <3> QED BY <1>1, <3>1, <3>2 DEF SignOnInv, OnceInv, Past
    <2>11. AccountInv'
      <3>1. ASSUME NEW e \in callbacks', e.at = "issue", logins[e.login].subject \notin relinked
            PROVE  users'[e.user].subject = logins[e.login].subject
        <4>1. CASE e = d
          BY <2>2, <2>4, <2>6, <4>1 DEF s, SubjectOf, Same
        <4>2. CASE e # d
          BY <2>4, <2>7, <3>1, <4>2 DEF SignOnInv, TypeInv, CallOK, AccountInv, SubjectOf
        <4> QED BY <4>1, <4>2
      <3>2. \A i \in issued : users'[i[3]] = users[i[3]]
        BY <2>4 DEF SignOnInv, TypeInv
      <3> QED BY <1>1, <3>1, <3>2 DEF SignOnInv, AccountInv, SubjectOf
    <2>12. SessionInv' /\ CookieInv'
      BY <1>1, <2>6, <2>7 DEF SignOnInv, SessionInv, CookieInv, OwnReturn, Same
    <2> QED BY <2>8, <2>9, <2>10, <2>11, <2>12 DEF SignOnInv
  <1> QED BY <1>3, <1>4

\* The session is issued: the first of the login, and its only callback past the exchange goes on.
LEMMA IssuePairKeeps ==
  ASSUME SignOnInv, NEW c \in callbacks, IssuePair(c)
  PROVE  SignOnInv'
  <1> DEFINE b == c.browser
             x == <<c.login, SubjectOf(c), c.user, c.id>>
  <1>1. /\ c.at = "issue"
        /\ issued' = issued \cup {x}
        /\ cookie' = [cookie EXCEPT ![b] = NoOne] /\ disturbed' = disturbed \cup LoginsOf(b)
        /\ UNCHANGED <<users, relinked, mailOf, logins, session, refused, asked>>
    BY DEF IssuePair, atProvider
  <1>2. /\ c \in Callback /\ Past(c) /\ c.login \in DOMAIN logins /\ c.user \in DOMAIN users
        /\ SubjectOf(c) \in Subject
    BY <1>1 DEF SignOnInv, TypeInv, Past, CallOK, SubjectOf
  <1>3. PICK d : d = [c EXCEPT !.at = "me"]
    OBVIOUS
  <1>4. d \in Callback /\ d.at = "me" /\ Same(c, d) /\ d.user = c.user
    BY <1>2, <1>3, Moved, StageNames DEF Same
  <1>5. callbacks' = (callbacks \ {c}) \cup {d}
    BY <1>3 DEF IssuePair, Goes
  <1>6. c.login \in Nat /\ c.user \in Nat /\ c.id \in Nat /\ b \in Browser
    BY <1>2, Rows DEF Callback, SignOnInv
  <1>7. /\ x \in Nat \X Subject \X Nat \X Nat
        /\ x[1] = c.login /\ x[2] = SubjectOf(c) /\ x[3] = c.user
    BY <1>2, <1>6
  <1> HIDE DEF x
  <1>8. TypeInv'
    <2>1. \A e \in callbacks' : e \in Callback /\ CallOK(e)'
      BY <1>1, <1>2, <1>4, <1>5 DEF SignOnInv, TypeInv, CallOK, SubjectOf, Same
    <2>2. cookie' \in [Browser -> Nat \cup {NoOne}]
      BY <1>1, <1>6 DEF SignOnInv, TypeInv
    <2>3. /\ issued' \subseteq Nat \X Subject \X Nat \X Nat
          /\ \A i \in issued' : i[1] \in DOMAIN logins /\ i[3] \in DOMAIN users
      BY <1>1, <1>2, <1>7 DEF SignOnInv, TypeInv
    <2> QED BY <1>1, <2>1, <2>2, <2>3 DEF SignOnInv, TypeInv
  <1>9. UsersInv'
    BY <1>1 DEF SignOnInv, UsersInv
  <1>10. OnceInv'
    <2>1. \A e \in callbacks' : Past(e) => e \in callbacks /\ e # c
      BY <1>4, <1>5 DEF Past
    <2>2. \A e \in callbacks' : Past(e) => e.login # c.login
      BY <1>2, <2>1 DEF SignOnInv, OnceInv
    <2>3. \A e \in callbacks' : Past(e) => /\ logins[e.login].spent
                                           /\ \A i \in issued' : i[1] # e.login
      BY <1>1, <1>7, <2>1, <2>2 DEF SignOnInv, OnceInv
    <2>4. \A e, f \in callbacks' : Past(e) /\ Past(f) /\ e.login = f.login => e = f
      BY <2>1 DEF SignOnInv, OnceInv
    <2>5. logins[c.login].spent /\ \A i \in issued : i[1] # c.login
      BY <1>2 DEF SignOnInv, OnceInv
    <2>6. \A i \in issued' : logins[i[1]].spent
      BY <1>1, <1>7, <2>5 DEF SignOnInv, OnceInv
    <2>7. \A i, j \in issued' : i[1] = j[1] => i = j
      BY <1>1, <1>7, <2>5 DEF SignOnInv, OnceInv
    <2> QED BY <1>1, <2>3, <2>4, <2>6, <2>7 DEF OnceInv, Past
  <1>11. AccountInv'
    <2>1. SubjectOf(c) \notin relinked => users[c.user].subject = SubjectOf(c)
      BY <1>1 DEF SignOnInv, AccountInv
    <2>2. \A i \in issued' : i[2] \notin relinked => users[i[3]].subject = i[2]
      BY <1>1, <1>7, <2>1 DEF SignOnInv, AccountInv
    <2>3. \A e \in callbacks' : e.at = "issue" => e \in callbacks
      BY <1>4, <1>5
    <2> QED BY <1>1, <2>2, <2>3 DEF SignOnInv, AccountInv, SubjectOf
  <1>12. SessionInv'
    <2>1. \A e \in callbacks' : e.at = "me" => \E i \in issued' : i[1] = e.login /\ i[3] = e.user
      BY <1>1, <1>4, <1>5, <1>7 DEF SignOnInv, SessionInv, Same
    <2>2. \A a \in Browser : session[a] # NoOne =>
            \E i \in issued' : logins[i[1]].browser = a /\ i[3] = session[a]
      BY <1>1 DEF SignOnInv, SessionInv
    <2> QED BY <1>1, <2>1, <2>2 DEF SessionInv
  <1>13. CookieInv'
    <2>1. \A e \in callbacks' : \E f \in callbacks : Same(f, e)
      BY <1>4, <1>5 DEF Same
    <2> QED BY <1>1, <1>6, <2>1, CookieGoes
  <1> QED BY <1>8, <1>9, <1>10, <1>11, <1>12, <1>13 DEF SignOnInv

\* The browser starts the session it was issued.
LEMMA SetSessionKeeps ==
  ASSUME SignOnInv, BoundInv, NEW c \in callbacks, SetSession(c)
  PROVE  SignOnInv'
  <1> DEFINE b == c.browser
  <1>1. /\ c.at = "me"
        /\ session' = [session EXCEPT ![b] = c.user]
        /\ callbacks' = callbacks \ {c}
        /\ UNCHANGED <<users, issued, relinked, mailOf, logins, cookie, disturbed, refused, asked>>
    BY DEF SetSession, Ends, accounts, atProvider
  <1>2. c.user \in DOMAIN users /\ c.user \in Nat /\ b \in Browser /\ logins[c.login].browser = b
    <2>1. c \in Callback /\ c.user \in DOMAIN users
      BY <1>1 DEF SignOnInv, TypeInv, CallOK
    <2>2. c.cookie = c.login /\ c.login \in Nat /\ b \in Browser
      BY <1>1, <2>1 DEF BoundInv, Callback
    <2> QED BY <2>1, <2>2, Rows, SignOnAssumption DEF BoundInv, SignOnInv
  <1>3. session' \in [Browser -> Nat \cup {NoOne}]
    BY <1>1, <1>2 DEF SignOnInv, TypeInv
  <1>4. TypeInv'
    <2>1. \A e \in callbacks' : e \in Callback /\ CallOK(e)'
      BY <1>1 DEF SignOnInv, TypeInv, CallOK
    <2> QED BY <1>1, <1>3, <2>1 DEF SignOnInv, TypeInv
  <1>5. UsersInv' /\ OnceInv'
    BY <1>1 DEF SignOnInv, UsersInv, OnceInv, Past
  <1>6. AccountInv' /\ CookieInv'
    BY <1>1 DEF SignOnInv, AccountInv, CookieInv, OwnReturn, SubjectOf
  <1>7. SessionInv'
    <2>1. PICK x \in issued : x[1] = c.login /\ x[3] = c.user
      BY <1>1 DEF SignOnInv, SessionInv
    <2>2. ASSUME NEW a \in Browser, session'[a] # NoOne
          PROVE  \E i \in issued : logins[i[1]].browser = a /\ i[3] = session'[a]
      <3>1. CASE a = b
        BY <1>1, <1>2, <2>1, <3>1 DEF SignOnInv, TypeInv
      <3>2. CASE a # b
        BY <1>1, <2>2, <3>2 DEF SignOnInv, TypeInv, SessionInv
      <3> QED BY <3>1, <3>2
    <2>3. \A e \in callbacks' : e.at = "me" => \E i \in issued : i[1] = e.login /\ i[3] = e.user
      BY <1>1 DEF SignOnInv, SessionInv
    <2> QED BY <1>1, <2>2, <2>3 DEF SessionInv
  <1> QED BY <1>4, <1>5, <1>6, <1>7 DEF SignOnInv

-----------------------------------------------------------------------------
(* The browser a login is of                                               *)

\* The browser of a login never changes.
LEMMA BrowserStays ==
  ASSUME SignOnInv, SignOnNext, NEW m \in DOMAIN logins
  PROVE  m \in DOMAIN logins' /\ logins'[m].browser = logins[m].browser
  <1>1. logins \in Seq(LoginRow) /\ logins[m] \in LoginRow
    BY Rows DEF SignOnInv, TypeInv
  <1>2. CASE logins' = logins
    BY <1>2
  <1>3. ASSUME NEW b \in Browser, BeginLogin(b) PROVE m \in DOMAIN logins' /\ logins'[m] = logins[m]
    <2>1. PICK r \in LoginRow : r = [browser |-> b, subject |-> NoOne, spent |-> FALSE]
      BY DEF LoginRow
    <2> QED BY <1>1, <1>3, <2>1, LoginAppended DEF BeginLogin
  <1>4. ASSUME NEW n \in DOMAIN logins, NEW s \in Subject, logins' = [logins EXCEPT ![n].subject = s]
        PROVE  m \in DOMAIN logins' /\ logins'[m].browser = logins[m].browser
    BY <1>1, <1>4 DEF LoginRow
  <1>5. ASSUME NEW n \in DOMAIN logins, logins' = [logins EXCEPT ![n].spent = TRUE]
        PROVE  m \in DOMAIN logins' /\ logins'[m].browser = logins[m].browser
    BY <1>1, <1>5 DEF LoginRow
  <1>6. \A c \in callbacks : c.login \in DOMAIN logins
    BY DEF SignOnInv, TypeInv, CallOK
  <1> QED BY <1>2, <1>3, <1>4, <1>5, <1>6
          DEF SignOnNext, Register, MoveMail, Expire, Return, ReadTransaction, ExchangeCode, FindBySubject,
              FindByEmail, Link, CreateUser, IssuePair, SetSession, inBrowser

\* A cookie is of a login begun in its browser.
LEMMA CookieBound ==
  ASSUME SignOnInv, BoundInv, SignOnNext, NEW b \in Browser, cookie'[b] # NoOne
  PROVE  cookie'[b] \in DOMAIN logins' /\ logins'[cookie'[b]].browser = b
  <1>1. CASE cookie'[b] = cookie[b]
    BY <1>1, BrowserStays DEF BoundInv
  <1>2. ASSUME NEW a \in Browser, BeginLogin(a), cookie'[b] # cookie[b]
        PROVE  cookie'[b] \in DOMAIN logins' /\ logins'[cookie'[b]].browser = b
    <2>1. PICK r \in LoginRow : r = [browser |-> a, subject |-> NoOne, spent |-> FALSE]
      BY DEF LoginRow
    <2>2. logins' = Append(logins, r) /\ cookie' = [cookie EXCEPT ![a] = Len(logins) + 1]
      BY <1>2, <2>1 DEF BeginLogin
    <2>3. a = b /\ cookie'[b] = Len(logins) + 1
      BY <1>2, <2>2 DEF SignOnInv, TypeInv
    <2> QED BY <2>1, <2>2, <2>3, LoginAppended DEF SignOnInv, TypeInv
  <1>3. ASSUME NEW a \in Browser, cookie' = [cookie EXCEPT ![a] = NoOne] PROVE cookie'[b] = cookie[b]
    BY <1>3 DEF SignOnInv, TypeInv
  <1>4. \A c \in callbacks : c.browser \in Browser
    BY DEF SignOnInv, TypeInv, Callback
  <1> QED BY <1>1, <1>2, <1>3, <1>4
          DEF SignOnNext, Register, MoveMail, Expire, Return, ReadTransaction, ExchangeCode, FindBySubject,
              FindByEmail, Link, CreateUser, IssuePair, SetSession, inBrowser

\* What a callback is after a step: it was there, or it went on with its browser,
\* its login and its cookie, past the nonce if it is past it; or it is new.
CameFrom(d) ==
  \/ \E c \in callbacks :
       /\ d.browser = c.browser /\ d.login = c.login /\ d.cookie = c.cookie
       /\ Past(d) \/ d.at = "me" => Past(c) \/ c.at = "me" \/ c.cookie = c.login
  \/ d.browser \in Browser /\ d.cookie = cookie[d.browser] /\ d.at = "check"

LEMMA CallsCome ==
  ASSUME SignOnInv, SignOnNext, NEW d \in callbacks'
  PROVE  CameFrom(d)
  <1>1. CASE d \in callbacks
    BY <1>1 DEF CameFrom
  <1>2. ASSUME NEW c \in callbacks, NEW e, Goes(c, e), e.browser = c.browser, e.login = c.login, e.cookie = c.cookie,
               Past(e) \/ e.at = "me" => Past(c) \/ c.at = "me" \/ c.cookie = c.login
        PROVE  CameFrom(d)
    BY <1>1, <1>2 DEF CameFrom, Goes
  <1>3. \A c \in callbacks : c \in Callback
    BY DEF SignOnInv, TypeInv
  <1>4. ASSUME NEW b \in Browser, NEW n \in DOMAIN logins, NEW m \in DOMAIN logins, NEW s \in Subject,
               Return(b, n, m, s)
        PROVE  CameFrom(d)
    BY <1>1, <1>4 DEF Return, CameFrom
  <1>5. ASSUME NEW c \in callbacks, ReadTransaction(c) PROVE CameFrom(d)
    <2>1. CASE Goes(c, [c EXCEPT !.at = "exchange"])
      <3>1. PICK e : e = [c EXCEPT !.at = "exchange"]
        OBVIOUS
      <3>2. e.browser = c.browser /\ e.login = c.login /\ e.cookie = c.cookie /\ e.at = "exchange"
        BY <1>3, <3>1 DEF Callback
      <3> QED BY <1>2, <2>1, <3>1, <3>2 DEF Past
    <2>2. CASE Ends(c)
      BY <1>1, <2>2 DEF Ends
    <2> QED BY <1>5, <2>1, <2>2 DEF ReadTransaction
  <1>6. ASSUME NEW c \in callbacks, ExchangeCode(c) PROVE CameFrom(d)
    <2>1. CASE c.login = c.cookie /\ Exchanged(c)
      <3>1. PICK e : e = [c EXCEPT !.at = "subject", !.email = mailOf[logins[c.login].subject]]
        OBVIOUS
      <3>2. e.browser = c.browser /\ e.login = c.login /\ e.cookie = c.cookie
        BY <1>3, <3>1 DEF Callback
      <3> QED BY <1>2, <2>1, <3>1, <3>2 DEF Exchanged
    <2>2. CASE Ends(c)
      BY <1>1, <2>2 DEF Ends
    <2> QED BY <1>6, <2>1, <2>2 DEF ExchangeCode
  <1>7. ASSUME NEW c \in callbacks,
               FindBySubject(c) \/ FindByEmail(c) \/ Link(c) \/ CreateUser(c) \/ IssuePair(c)
        PROVE  CameFrom(d)
    <2>1. Past(c)
      BY <1>7 DEF Past, FindBySubject, FindByEmail, Link, CreateUser, IssuePair
    <2>2. \/ Ends(c)
          \/ \E q \in Stages : Goes(c, [c EXCEPT !.at = q])
          \/ \E q \in Stages, v \in Nat : Goes(c, [c EXCEPT !.at = q, !.user = v])
      <3>1. \A u \in DOMAIN users : u \in Nat
        BY Rows DEF SignOnInv
      <3>2. Len(users) + 1 \in Nat
        BY LenProperties DEF SignOnInv, TypeInv
      <3>3. Known(c) \subseteq DOMAIN users /\ WithEmail(c.email) \subseteq DOMAIN users
        BY DEF Known, WithSubject, WithEmail
      <3>4. CASE FindBySubject(c)
        BY <3>1, <3>3, <3>4, StageNames DEF FindBySubject
      <3>5. CASE FindByEmail(c)
        BY <3>1, <3>3, <3>5, StageNames DEF FindByEmail
      <3>6. CASE Link(c)
        BY <3>6, StageNames DEF Link
      <3>7. CASE CreateUser(c)
        BY <3>2, <3>7, StageNames DEF CreateUser
      <3>8. CASE IssuePair(c)
        BY <3>8, StageNames DEF IssuePair
      <3> QED BY <1>7, <3>4, <3>5, <3>6, <3>7, <3>8
    <2>3. CASE Ends(c)
      BY <1>1, <2>3 DEF Ends
    <2>4. ASSUME NEW q \in Stages, Goes(c, [c EXCEPT !.at = q]) PROVE CameFrom(d)
      <3>1. PICK e : e = [c EXCEPT !.at = q]
        OBVIOUS
      <3>2. e.browser = c.browser /\ e.login = c.login /\ e.cookie = c.cookie
        BY <1>3, <3>1 DEF Callback
      <3> QED BY <1>2, <2>1, <2>4, <3>1, <3>2
    <2>5. ASSUME NEW q \in Stages, NEW v \in Nat, Goes(c, [c EXCEPT !.at = q, !.user = v]) PROVE CameFrom(d)
      <3>1. PICK e : e = [c EXCEPT !.at = q, !.user = v]
        OBVIOUS
      <3>2. e.browser = c.browser /\ e.login = c.login /\ e.cookie = c.cookie
        BY <1>3, <3>1 DEF Callback
      <3> QED BY <1>2, <2>1, <2>5, <3>1, <3>2
    <2> QED BY <2>2, <2>3, <2>4, <2>5
  <1>8. ASSUME NEW c \in callbacks, SetSession(c) PROVE CameFrom(d)
    BY <1>1, <1>8 DEF SetSession, Ends
  <1>9. CASE callbacks' = callbacks
    BY <1>1, <1>9
  <1> QED BY <1>4, <1>5, <1>6, <1>7, <1>8, <1>9 DEF SignOnNext, Register, MoveMail, BeginLogin, Expire

\* So what is bound to a browser stays so.
LEMMA BoundStays ==
  ASSUME SignOnInv, BoundInv, SignOnNext
  PROVE  BoundInv'
  <1>1. ASSUME NEW d \in callbacks'
        PROVE  /\ d.cookie # NoOne => d.cookie \in DOMAIN logins' /\ logins'[d.cookie].browser = d.browser
               /\ Past(d) \/ d.at = "me" => d.cookie = d.login
    <2>1. CASE \E c \in callbacks :
                 /\ d.browser = c.browser /\ d.login = c.login /\ d.cookie = c.cookie
                 /\ Past(d) \/ d.at = "me" => Past(c) \/ c.at = "me" \/ c.cookie = c.login
      BY <2>1, BrowserStays DEF BoundInv
    <2>2. CASE d.browser \in Browser /\ d.cookie = cookie[d.browser] /\ d.at = "check"
      BY <2>2, BrowserStays DEF BoundInv, Past
    <2>3. CameFrom(d)
      BY CallsCome
    <2> QED BY <2>1, <2>2, <2>3 DEF CameFrom
  <1>2. \A b \in Browser : cookie'[b] # NoOne => cookie'[b] \in DOMAIN logins' /\ logins'[cookie'[b]].browser = b
    BY CookieBound
  <1> QED BY <1>1, <1>2 DEF BoundInv, Past

-----------------------------------------------------------------------------
(* The theorems                                                            *)

\* There is nothing at first.
LEMMA SignOnStart == SignOnInit => SignOnInv /\ BoundInv
  <1> SUFFICES ASSUME SignOnInit PROVE SignOnInv /\ BoundInv
    OBVIOUS
  <1>1. /\ users = <<>> /\ logins = <<>> /\ callbacks = {} /\ issued = {} /\ refused = {} /\ asked = 0
        /\ DOMAIN users = {} /\ DOMAIN logins = {} /\ mailOf \in [Subject -> Email]
        /\ cookie = [b \in Browser |-> NoOne] /\ session = [b \in Browser |-> NoOne]
    BY DEF SignOnInit
  <1>2. TypeInv
    BY <1>1, EmptySeq DEF TypeInv
  <1>3. UsersInv /\ OnceInv /\ AccountInv
    BY <1>1 DEF UsersInv, OnceInv, AccountInv
  <1>4. SessionInv /\ CookieInv /\ BoundInv
    BY <1>1 DEF SessionInv, CookieInv, BoundInv
  <1> QED BY <1>2, <1>3, <1>4 DEF SignOnInv

\* Every step keeps the invariant.
LEMMA SignOnStep == SignOnInv /\ BoundInv /\ [SignOnNext]_signOnVars => SignOnInv' /\ BoundInv'
  <1> SUFFICES ASSUME SignOnInv, BoundInv, [SignOnNext]_signOnVars
               PROVE  SignOnInv' /\ BoundInv'
    OBVIOUS
  <1>1. CASE UNCHANGED signOnVars
    <2>1. UNCHANGED <<users, issued, relinked, mailOf, logins, cookie, session, disturbed, refused,
                      callbacks, asked>>
      BY <1>1 DEF signOnVars, accounts, atProvider, inBrowser
    <2>2. TypeInv'
      BY <2>1 DEF SignOnInv, TypeInv, CallOK
    <2>3. UsersInv' /\ OnceInv'
      BY <2>1 DEF SignOnInv, UsersInv, OnceInv, Past
    <2>4. AccountInv' /\ SessionInv' /\ CookieInv'
      BY <2>1 DEF SignOnInv, AccountInv, SessionInv, CookieInv, SubjectOf, OwnReturn
    <2>5. BoundInv'
      BY <2>1 DEF BoundInv, Past
    <2> QED BY <2>2, <2>3, <2>4, <2>5 DEF SignOnInv
  <1>2. ASSUME NEW e \in Email, Register(e) PROVE SignOnInv'
    BY <1>2, RegisterKeeps
  <1>3. ASSUME NEW e \in Email, NEW s \in Subject, MoveMail(s, e) PROVE SignOnInv'
    BY <1>3, MoveMailKeeps
  <1>4. ASSUME NEW b \in Browser, BeginLogin(b) PROVE SignOnInv'
    BY <1>4, BeginLoginKeeps
  <1>5. ASSUME NEW b \in Browser, Expire(b) PROVE SignOnInv'
    BY <1>5, ExpireKeeps
  <1>6. ASSUME NEW b \in Browser, NEW n \in DOMAIN logins, NEW m \in DOMAIN logins, NEW s \in Subject,
               Return(b, n, m, s)
        PROVE  SignOnInv'
    BY <1>6, ReturnKeeps
  <1>7. ASSUME NEW c \in callbacks,
               \/ ReadTransaction(c) \/ ExchangeCode(c) \/ FindBySubject(c) \/ FindByEmail(c)
               \/ Link(c) \/ CreateUser(c) \/ IssuePair(c) \/ SetSession(c)
        PROVE  SignOnInv'
    BY <1>7, ReadTransactionKeeps, ExchangeCodeKeeps, FindBySubjectKeeps, FindByEmailKeeps,
       LinkKeeps, CreateUserKeeps, IssuePairKeeps, SetSessionKeeps
  <1>8. SignOnNext => SignOnInv'
    BY <1>2, <1>3, <1>4, <1>5, <1>6, <1>7, Zenon DEF SignOnNext
  <1> QED BY <1>1, <1>8, BoundStays

\* The invariant of sign-on, in every reachable state (oidc.service upsertUser
\* and exchangeCode, oidc.controller, OidcCallback).
THEOREM SignOnInvariant == SignOnSpec => [](SignOnInv /\ BoundInv)
  <1>1. SignOnInit => SignOnInv /\ BoundInv
    BY SignOnStart
  <1>2. SignOnInv /\ BoundInv /\ [SignOnNext]_signOnVars => SignOnInv' /\ BoundInv'
    BY SignOnStep
  <1> QED BY <1>1, <1>2, PTL DEF SignOnSpec

\* The invariant says what sign-on promises.
LEMMA OneAccount == SignOnInv => OneAccountEach
  <1> SUFFICES ASSUME SignOnInv PROVE OneAccountEach
    OBVIOUS
  <1>1. ASSUME NEW i \in issued, NEW j \in issued, i[2] = j[2], i[2] \notin relinked
        PROVE  i[3] = j[3]
    <2>1. i[2] \in Subject /\ i[3] \in DOMAIN users /\ j[3] \in DOMAIN users
      BY DEF SignOnInv, TypeInv
    <2>2. users[i[3]].subject = i[2] /\ users[j[3]].subject = i[2]
      BY <1>1 DEF SignOnInv, AccountInv
    <2> QED BY <2>1, <2>2, SignOnAssumption DEF SignOnInv, UsersInv
  <1>2. \A i, j \in issued : i[1] = j[1] => i = j
    BY DEF SignOnInv, OnceInv
  <1> QED BY <1>1, <1>2 DEF OneAccountEach, SignOnInv, UsersInv, SessionInv, CookieInv

\* One person has one account: sessions of one subject are of one user until
\* another subject takes the account over, users share no address and no
\* subject, a login issues one session at most and to its own browser, and is
\* refused only if its cookie was touched since (oidc.service upsertUser,
\* oidc.controller callback).
THEOREM OnePersonOneAccount == SignOnSpec => []OneAccountEach
  BY SignOnInvariant, OneAccount, PTL

-----------------------------------------------------------------------------
(* Comments and notifications. *)

CommentRow == [page : Page, author : Reader, thread : Nat, mentioned : SUBSET Reader,
               reply : BOOLEAN, resolved : BOOLEAN]
Note == [to : Reader, type : {"mention", "comment_reply"}, about : Nat, read : BOOLEAN]
TalkStages == {"insert", "anchor", "gather", "notify"}
Working == [at : TalkStages, user : Reader, page : Page, parent : Nat \cup {NoRoot},
            mentioned : SUBSET Reader, thread : Nat, rootAuthor : Reader \cup {NoRoot},
            id : Nat, told : SUBSET Note]

TalkTypeInv ==
  /\ comments \in Seq(CommentRow \cup {NoRoot})
  /\ \A c \in Living : comments[c] \in CommentRow
  /\ notes \subseteq Note
  /\ level \in [Reader \X Page -> {0, Comments, Writes}]
  /\ work \in [Job -> Working \cup {Resting}]
  /\ told \subseteq DOMAIN comments

\* The threads that comments are in and that requests are about to put one in.
Strands == {<<comments[c].thread, comments[c].page>> : c \in Living}
             \cup {<<work[j].thread, work[j].page>> : j \in {k \in Job : work[k].at = "insert"}}

\* A thread is on one page and has the number of a comment that is anchored.
StrandsInv ==
  /\ \A s, t \in Strands : s[1] = t[1] /\ s[1] # Placeholder => s[2] = t[2]
  /\ \A s \in Strands : s[1] # Placeholder =>
       s[1] \in DOMAIN comments /\ \A j \in Job : work[j].at = "anchor" => work[j].id # s[1]

\* A request whose comment there is.
Placed(j) == work[j].at \in {"anchor", "gather", "notify"}
PlacedInv ==
  /\ \A j, k \in Job : Placed(j) /\ Placed(k) /\ work[j].id = work[k].id => j = k
  /\ \A j \in Job : Placed(j) =>
       LET w == work[j]
       IN  /\ w.id \in DOMAIN comments /\ w.id \notin told
           /\ \A m \in notes : m.about # w.id
           /\ w.id \in Living => /\ comments[w.id].author = w.user /\ comments[w.id].page = w.page
                                 /\ comments[w.id].mentioned = w.mentioned
                                 /\ comments[w.id].reply = (w.parent # NoRoot)
  /\ \A j \in Job : work[j].at = "anchor" =>
       /\ work[j].parent = NoRoot
       /\ work[j].id \in Living => comments[work[j].id].thread = Placeholder
  /\ \A j \in Job : work[j].at = "insert" /\ work[j].parent = NoRoot => work[j].thread = Placeholder

\* Who is to hear of comment c: who is mentioned in it or has an earlier comment in its thread.
Hears(c, u) ==
  /\ u # comments[c].author
  /\ \/ u \in comments[c].mentioned
     \/ \E d \in Living : d < c /\ comments[d].author = u /\ comments[c].reply
                            /\ comments[d].thread = comments[c].thread

GatheredInv ==
  \A j \in Job : work[j].at = "notify" =>
    /\ \A m \in work[j].told : m.about = work[j].id
    /\ \A m, n \in work[j].told : m.to = n.to => m = n
    /\ work[j].id \in Living => \A u \in Reader : Hears(work[j].id, u) => \E m \in work[j].told : m.to = u

\* Who may not read a page lost it.
LevelInv == \A u \in Reader, p \in Page : level[<<u, p>>] >= Reads \/ <<u, p>> \in lost

\* What was sent.
SentInv ==
  /\ \A m \in notes : m.about \in DOMAIN comments
  /\ \A m, n \in notes : m.to = n.to /\ m.about = n.about => m = n
  /\ \A c \in told \cap Living, u \in Reader :
       Hears(c, u) /\ <<u, comments[c].page>> \notin lost => \E m \in notes : m.to = u /\ m.about = c

\* A comment in no thread is about to get one.
RootsInv ==
  \A c \in Living \ split :
    comments[c].thread = Placeholder => \E j \in Job : work[j].at = "anchor" /\ work[j].id = c

\* What a reply's request holds of its thread is what the row says.
ThreadInv ==
  \A j \in Job : work[j].at = "gather" /\ work[j].parent # NoRoot /\ work[j].id \in Living =>
    comments[work[j].id].thread = work[j].thread

TalkInv ==
  TalkTypeInv /\ StrandsInv /\ PlacedInv /\ GatheredInv /\ LevelInv /\ SentInv /\ RootsInv /\ ThreadInv

-----------------------------------------------------------------------------
(* Comments and requests                                                   *)

\* What a comment that is there is.
LEMMA TalkRows ==
  ASSUME TalkTypeInv
  PROVE  \A c \in Living : /\ c \in DOMAIN comments /\ c \in Nat /\ comments[c] \in CommentRow
                           /\ comments[c].page \in Page /\ comments[c].author \in Reader
                           /\ comments[c].thread \in Nat /\ comments[c].mentioned \subseteq Reader
                           /\ comments[c].reply \in BOOLEAN
  <1>1. comments \in Seq(CommentRow \cup {NoRoot})
    BY DEF TalkTypeInv
  <1>2. \A c \in DOMAIN comments : c \in Nat
    BY <1>1, LenProperties
  <1> QED BY <1>2 DEF TalkTypeInv, Living, CommentRow

\* A new comment is after the others, which stay as they are.
LEMMA CommentAppended ==
  ASSUME TalkTypeInv, NEW r \in CommentRow, comments' = Append(comments, r)
  PROVE  LET n == Len(comments) + 1
         IN  /\ comments' \in Seq(CommentRow \cup {NoRoot})
             /\ DOMAIN comments' = DOMAIN comments \cup {n}
             /\ n \in Nat /\ n \notin DOMAIN comments
             /\ \A c \in DOMAIN comments : comments'[c] = comments[c] /\ c < n
             /\ comments'[n] = r
             /\ Living \subseteq Living' /\ Living' \subseteq Living \cup {n}
  <1>1. comments \in Seq(CommentRow \cup {NoRoot}) /\ r \in CommentRow \cup {NoRoot}
    BY DEF TalkTypeInv
  <1>2. Len(comments) \in Nat /\ DOMAIN comments = 1 .. Len(comments)
    BY <1>1, LenProperties
  <1>3. /\ comments' \in Seq(CommentRow \cup {NoRoot}) /\ Len(comments') = Len(comments) + 1
        /\ \A c \in 1 .. Len(comments) : comments'[c] = comments[c]
        /\ comments'[Len(comments) + 1] = r
    BY <1>1, AppendProperties
  <1>4. DOMAIN comments' = 1 .. Len(comments) + 1
    BY <1>3, LenProperties
  <1>5. /\ DOMAIN comments' = DOMAIN comments \cup {Len(comments) + 1}
        /\ Len(comments) + 1 \in Nat /\ Len(comments) + 1 \notin DOMAIN comments
        /\ \A c \in DOMAIN comments : comments'[c] = comments[c] /\ c < Len(comments) + 1
    BY <1>2, <1>3, <1>4
  <1>6. Living \subseteq Living' /\ Living' \subseteq Living \cup {Len(comments) + 1}
    BY <1>5 DEF Living
  <1> QED BY <1>3, <1>5, <1>6

\* A request's next step leaves the other requests alone.
LEMMA WorkPut ==
  ASSUME TalkTypeInv, NEW j \in Job, NEW r \in Working \cup {Resting}, work' = [work EXCEPT ![j] = r]
  PROVE  /\ work' \in [Job -> Working \cup {Resting}]
         /\ work'[j] = r
         /\ \A k \in Job : k # j => work'[k] = work[k]
  BY DEF TalkTypeInv

\* A request that is not at rest has all its fields.
LEMMA AtWork ==
  ASSUME TalkTypeInv, NEW j \in Job, work[j].at # "idle"
  PROVE  work[j] \in Working
  <1>1. work[j] \in Working \/ work[j] = Resting
    BY DEF TalkTypeInv
  <1>2. Resting.at = "idle"
    BY DEF Resting
  <1> QED BY <1>1, <1>2

\* A request at rest is at no step.
LEMMA AtRest == Resting.at = "idle" /\ Resting.at \notin {"insert", "anchor", "gather", "notify"}
  BY DEF Resting

\* The threads stay right if no thread comes up and no request begins to anchor
\* a comment that was there.
LEMMA StrandsKept ==
  ASSUME StrandsInv,
         \A s \in Strands' : s \in Strands \/ s[1] = Placeholder,
         DOMAIN comments \subseteq DOMAIN comments',
         \A j \in Job : work'[j].at = "anchor" =>
           (work[j].at = "anchor" /\ work'[j].id = work[j].id) \/ work'[j].id \notin DOMAIN comments
  PROVE  StrandsInv'
  <1>1. ASSUME NEW s \in Strands', NEW t \in Strands', s[1] = t[1], s[1] # Placeholder
        PROVE  s[2] = t[2]
    BY <1>1 DEF StrandsInv
  <1>2. ASSUME NEW s \in Strands', s[1] # Placeholder
        PROVE  s[1] \in DOMAIN comments' /\ \A j \in Job : work'[j].at = "anchor" => work'[j].id # s[1]
    BY <1>2 DEF StrandsInv
  <1>3. Placeholder' = Placeholder
    BY DEF Placeholder
  <1> QED BY <1>1, <1>2, <1>3 DEF StrandsInv

-----------------------------------------------------------------------------
(* Steps that take from the comments only what no thread is about          *)

Fades ==
  /\ DOMAIN comments' = DOMAIN comments
  /\ comments' \in Seq(CommentRow \cup {NoRoot})
  /\ Living' \subseteq Living
  /\ \A c \in Living' : /\ comments'[c] \in CommentRow
                        /\ comments'[c].page = comments[c].page /\ comments'[c].author = comments[c].author
                        /\ comments'[c].thread = comments[c].thread
                        /\ comments'[c].mentioned = comments[c].mentioned
                        /\ comments'[c].reply = comments[c].reply

LEMMA FadeKeeps ==
  ASSUME TalkInv, Fades, UNCHANGED <<notes, level, work, lost, split, told>>
  PROVE  TalkInv'
  <1>1. TalkTypeInv'
    BY DEF TalkInv, TalkTypeInv, Fades
  <1>2. StrandsInv'
    <2>1. Strands' \subseteq Strands
      BY DEF Strands, Fades
    <2> QED BY <2>1, StrandsKept DEF TalkInv, Fades
  <1>3. \A c \in Living', u \in Reader : Hears(c, u)' => Hears(c, u)
    BY DEF Hears, Fades
  <1>4. PlacedInv'
    <2>1. \A j, k \in Job : Placed(j)' /\ Placed(k)' /\ work'[j].id = work'[k].id => j = k
      BY DEF TalkInv, PlacedInv, Placed
    <2>2. ASSUME NEW j \in Job, Placed(j)
          PROVE  LET w == work[j]
                 IN  /\ w.id \in DOMAIN comments' /\ w.id \notin told
                     /\ \A m \in notes : m.about # w.id
                     /\ w.id \in Living' => /\ comments'[w.id].author = w.user /\ comments'[w.id].page = w.page
                                            /\ comments'[w.id].mentioned = w.mentioned
                                            /\ comments'[w.id].reply = (w.parent # NoRoot)
      BY <2>2 DEF TalkInv, PlacedInv, Fades
    <2>3. ASSUME NEW j \in Job, work[j].at = "anchor"
          PROVE  /\ work[j].parent = NoRoot
                 /\ work[j].id \in Living' => comments'[work[j].id].thread = Placeholder
      BY <2>3 DEF TalkInv, PlacedInv, Fades
    <2>4. \A j \in Job : work[j].at = "insert" /\ work[j].parent = NoRoot => work[j].thread = Placeholder
      BY DEF TalkInv, PlacedInv
    <2> QED BY <2>1, <2>2, <2>3, <2>4 DEF PlacedInv, Placed, Placeholder
  <1>5. GatheredInv'
    BY <1>3 DEF TalkInv, GatheredInv, Fades
  <1>6. LevelInv'
    BY DEF TalkInv, LevelInv, Reads
  <1>7. SentInv'
    BY <1>3 DEF TalkInv, SentInv, Fades
  <1>8. RootsInv'
    BY DEF TalkInv, RootsInv, Fades, Placeholder
  <1>9. ThreadInv'
    BY DEF TalkInv, ThreadInv, Fades
  <1> QED BY <1>1, <1>2, <1>4, <1>5, <1>6, <1>7, <1>8, <1>9 DEF TalkInv

\* A comment is taken away.
LEMMA RemoveCommentKeeps ==
  ASSUME TalkInv, RemoveComment
  PROVE  TalkInv'
  <1>1. PICK c \in Living : comments' = [comments EXCEPT ![c] = NoRoot]
    BY DEF RemoveComment
  <1>2. UNCHANGED <<notes, level, work, lost, split, told>>
    BY DEF RemoveComment
  <1>3. comments \in Seq(CommentRow \cup {NoRoot}) /\ c \in 1 .. Len(comments)
    BY LenProperties DEF TalkInv, TalkTypeInv, Living
  <1>4. comments' \in Seq(CommentRow \cup {NoRoot}) /\ DOMAIN comments' = DOMAIN comments
    BY <1>1, <1>3, ExceptSeq, LenProperties
  <1>5. Living' \subseteq Living /\ \A d \in Living' : comments'[d] = comments[d]
    BY <1>1, <1>4 DEF Living
  <1>6. Fades
    BY <1>4, <1>5 DEF Fades, TalkInv, TalkTypeInv
  <1> QED BY <1>2, <1>6, FadeKeeps

\* A thread is resolved: its comments stay in it.
LEMMA ResolveThreadKeeps ==
  ASSUME TalkInv, ResolveThread
  PROVE  TalkInv'
  <1>1. PICK c \in Living, done \in BOOLEAN :
          comments' = [d \in DOMAIN comments |->
            IF d \in Living /\ comments[d].thread = comments[c].thread
            THEN [comments[d] EXCEPT !.resolved = done] ELSE comments[d]]
    BY DEF ResolveThread
  <1>2. UNCHANGED <<notes, level, work, lost, split, told>>
    BY DEF ResolveThread
  <1>3. /\ comments \in Seq(CommentRow \cup {NoRoot})
        /\ DOMAIN comments = 1 .. Len(comments)
        /\ Len(comments) \in Nat
    BY LenProperties DEF TalkInv, TalkTypeInv
  <1>4. DOMAIN comments' = DOMAIN comments
    BY <1>1
  <1>5. ASSUME NEW d \in Living
        PROVE  LET r == [comments[d] EXCEPT !.resolved = done]
               IN  /\ r \in CommentRow /\ r.page = comments[d].page /\ r.author = comments[d].author
                   /\ r.thread = comments[d].thread /\ r.mentioned = comments[d].mentioned
                   /\ r.reply = comments[d].reply
    <2>1. comments[d] \in CommentRow
      BY TalkRows DEF TalkInv
    <2> QED BY <2>1 DEF CommentRow
  <1>6. \A d \in Living : /\ comments'[d] \in CommentRow
                          /\ comments'[d].page = comments[d].page /\ comments'[d].author = comments[d].author
                          /\ comments'[d].thread = comments[d].thread
                          /\ comments'[d].mentioned = comments[d].mentioned
                          /\ comments'[d].reply = comments[d].reply
    <2> TAKE d \in Living
    <2>1. d \in DOMAIN comments
      BY DEF Living
    <2>2. CASE comments[d].thread = comments[c].thread
      <3>1. comments'[d] = [comments[d] EXCEPT !.resolved = done]
        BY <1>1, <2>1, <2>2
      <3> QED BY <1>5, <3>1
    <2>3. CASE comments[d].thread # comments[c].thread
      <3>1. comments'[d] = comments[d]
        BY <1>1, <2>1, <2>3
      <3> QED BY <3>1, TalkRows DEF TalkInv
    <2> QED BY <2>2, <2>3
  <1>7. \A d \in DOMAIN comments : d \notin Living => comments'[d] = comments[d] /\ comments[d] = NoRoot
    BY <1>1 DEF Living
  <1>8. comments' \in Seq(CommentRow \cup {NoRoot})
    <2>1. comments' = [d \in 1 .. Len(comments) |-> comments'[d]]
      BY <1>1, <1>3
    <2>2. \A d \in 1 .. Len(comments) : comments'[d] \in CommentRow \cup {NoRoot}
      BY <1>3, <1>6, <1>7
    <2> QED BY <1>3, <2>1, <2>2, SeqDef
  <1>9. Living' \subseteq Living
    BY <1>4, <1>7 DEF Living
  <1>10. Fades
    BY <1>4, <1>6, <1>8, <1>9 DEF Fades
  <1> QED BY <1>2, <1>10, FadeKeeps

\* NoRoot happens.
LEMMA StutterKeeps ==
  ASSUME TalkInv, UNCHANGED talkVars
  PROVE  TalkInv'
  <1>1. UNCHANGED <<comments, notes, level, work, lost, split, told>>
    BY DEF talkVars, rowsOfTalk
  <1>2. Fades
    BY <1>1 DEF Fades, TalkInv, TalkTypeInv, Living
  <1> QED BY <1>1, <1>2, FadeKeeps

-----------------------------------------------------------------------------
(* Access and reading                                                      *)

\* What a user may do changes: who may not read a page lost it.
LEMMA RegradeKeeps ==
  ASSUME TalkInv, Regrade
  PROVE  TalkInv'
  <1>1. PICK u \in Reader, p \in Page, to \in {0, Writes} :
          /\ level' = [level EXCEPT ![<<u, p>>] = to]
          /\ lost' = IF to = 0 THEN lost \cup {<<u, p>>} ELSE lost
          /\ UNCHANGED <<rowsOfTalk, work, split, told>>
    BY DEF Regrade
  <1>2. UNCHANGED <<comments, notes, work, split, told>> /\ lost \subseteq lost'
    BY <1>1 DEF rowsOfTalk
  <1>3. TalkTypeInv'
    <2>1. level' \in [Reader \X Page -> {0, Comments, Writes}]
      BY <1>1 DEF TalkInv, TalkTypeInv
    <2> QED BY <1>2, <2>1 DEF TalkInv, TalkTypeInv, Living, Comments, Writes
  <1>4. StrandsInv' /\ PlacedInv'
    BY <1>2 DEF TalkInv, StrandsInv, Strands, PlacedInv, Placed, Living, Placeholder
  <1>5. GatheredInv' /\ RootsInv' /\ ThreadInv'
    BY <1>2 DEF TalkInv, GatheredInv, RootsInv, ThreadInv, Hears, Living, Placeholder
  <1>6. LevelInv'
    <2>1. ASSUME NEW v \in Reader, NEW q \in Page
          PROVE  level'[<<v, q>>] >= Reads \/ <<v, q>> \in lost'
      <3>1. CASE <<v, q>> = <<u, p>>
        <4>1. level'[<<u, p>>] = to
          BY <1>1 DEF TalkInv, TalkTypeInv
        <4>2. to = 0 => <<u, p>> \in lost'
          BY <1>1
        <4>3. v = u /\ q = p
          BY <3>1
        <4>4. to \in {0, Writes}
          OBVIOUS
        <4> QED BY <4>1, <4>2, <4>3, <4>4 DEF Reads, Writes
      <3>2. CASE <<v, q>> # <<u, p>>
        BY <1>1, <1>2, <3>2 DEF TalkInv, TalkTypeInv, LevelInv
      <3> QED BY <3>1, <3>2
    <2> QED BY <2>1 DEF LevelInv, Reads
  <1>7. SentInv'
    BY <1>2 DEF TalkInv, SentInv, Hears, Living
  <1> QED BY <1>3, <1>4, <1>5, <1>6, <1>7 DEF TalkInv

\* Notifications are marked as read.
LEMMA MarkReadKeeps ==
  ASSUME TalkInv, MarkRead
  PROVE  TalkInv'
  <1>1. PICK own \in SUBSET notes : notes' = (notes \ own) \cup {[m EXCEPT !.read = TRUE] : m \in own}
    BY DEF MarkRead
  <1>2. UNCHANGED <<comments, level, work, lost, split, told>>
    BY DEF MarkRead
  <1>3. \A m \in notes : LET r == [m EXCEPT !.read = TRUE]
                         IN  r \in Note /\ r.to = m.to /\ r.about = m.about
    BY DEF TalkInv, TalkTypeInv, Note
  <1>4. \A m \in notes : \E n \in notes' : n.to = m.to /\ n.about = m.about
    BY <1>1, <1>3
  <1>5. notes' \subseteq Note /\ \A n \in notes' : \E m \in notes : n.to = m.to /\ n.about = m.about
    BY <1>1, <1>3 DEF TalkInv, TalkTypeInv
  <1>6. \A m, n \in notes' : m.to = n.to /\ m.about = n.about => m = n
    <2>1. ASSUME NEW m \in notes', NEW n \in notes', m.to = n.to, m.about = n.about
          PROVE  m = n
      <3>1. PICK m0 \in notes : (m = m0 /\ m0 \notin own) \/ (m = [m0 EXCEPT !.read = TRUE] /\ m0 \in own)
        BY <1>1
      <3>2. PICK n0 \in notes : (n = n0 /\ n0 \notin own) \/ (n = [n0 EXCEPT !.read = TRUE] /\ n0 \in own)
        BY <1>1
      <3>3. m.to = m0.to /\ m.about = m0.about /\ n.to = n0.to /\ n.about = n0.about
        BY <1>3, <3>1, <3>2
      <3>4. m0.to = n0.to /\ m0.about = n0.about
        BY <2>1, <3>3
      <3>5. m0 = n0
        BY <3>4 DEF TalkInv, SentInv
      <3> QED BY <3>1, <3>2, <3>5
    <2> QED BY <2>1
  <1>7. TalkTypeInv'
    BY <1>2, <1>5 DEF TalkInv, TalkTypeInv, Living
  <1>8. StrandsInv'
    BY <1>2 DEF TalkInv, StrandsInv, Strands, Living, Placeholder
  <1>9. PlacedInv'
    <2>1. \A j \in Job : Placed(j) => \A n \in notes' : n.about # work[j].id
      BY <1>5 DEF TalkInv, PlacedInv
    <2> QED BY <1>2, <2>1 DEF TalkInv, PlacedInv, Placed, Living, Placeholder
  <1>10. GatheredInv' /\ LevelInv' /\ RootsInv' /\ ThreadInv'
    <2>4. ThreadInv'
      BY <1>2 DEF TalkInv, ThreadInv, Living
    <2>1. GatheredInv'
      BY <1>2 DEF TalkInv, GatheredInv, Hears, Living
    <2>2. LevelInv'
      BY <1>2 DEF TalkInv, LevelInv, Reads
    <2>3. RootsInv'
      BY <1>2 DEF TalkInv, RootsInv, Living, Placeholder
    <2> QED BY <2>1, <2>2, <2>3, <2>4
  <1>11. SentInv'
    <2>1. \A n \in notes' : n.about \in DOMAIN comments
      BY <1>5 DEF TalkInv, SentInv
    <2>2. ASSUME NEW c \in told \cap Living, NEW u \in Reader, Hears(c, u), <<u, comments[c].page>> \notin lost
          PROVE  \E n \in notes' : n.to = u /\ n.about = c
      <3>1. PICK m \in notes : m.to = u /\ m.about = c
        BY <2>2 DEF TalkInv, SentInv
      <3> QED BY <1>4, <3>1
    <2> QED BY <1>2, <1>6, <2>1, <2>2 DEF SentInv, Hears, Living
  <1> QED BY <1>7, <1>8, <1>9, <1>10, <1>11 DEF TalkInv

-----------------------------------------------------------------------------
(* The requests                                                            *)

\* A request is admitted: its parent's thread is on its page.
LEMMA PostKeeps ==
  ASSUME TalkInv, NEW j \in Job, Post(j)
  PROVE  TalkInv'
  <1>p. PICK u \in Reader, p \in Page, parent \in DOMAIN comments \cup {NoRoot}, mentioned \in MentionedIn :
          /\ work[j] = Resting
          /\ parent # NoRoot => Answers(parent, p)
          /\ work' = [work EXCEPT ![j] =
               [at |-> "insert", user |-> u, page |-> p, parent |-> parent, mentioned |-> mentioned,
                thread |-> IF parent = NoRoot THEN Placeholder ELSE comments[parent].thread,
                rootAuthor |-> IF parent = NoRoot THEN NoRoot ELSE comments[parent].author,
                id |-> 0, told |-> {}]]
          /\ UNCHANGED <<rowsOfTalk, level, lost, split, told>>
    BY ZenonT(30) DEF Post
  <1> DEFINE t == IF parent = NoRoot THEN Placeholder ELSE comments[parent].thread
             a == IF parent = NoRoot THEN NoRoot ELSE comments[parent].author
             r == [at |-> "insert", user |-> u, page |-> p, parent |-> parent, mentioned |-> mentioned,
                   thread |-> t, rootAuthor |-> a, id |-> 0, told |-> {}]
  <1>1. work' = [work EXCEPT ![j] = r]
    BY <1>p
  <1>2. UNCHANGED <<comments, notes, level, lost, split, told>>
    BY <1>p DEF rowsOfTalk
  <1>3. work[j].at = "idle"
    BY <1>p, AtRest
  <1>4. /\ t \in Nat /\ a \in Reader \cup {NoRoot}
        /\ t = Placeholder \/ <<t, p>> \in Strands
    <2>1. CASE parent = NoRoot
      BY <2>1 DEF Placeholder
    <2>2. CASE parent # NoRoot
      <3>1. parent \in Living /\ comments[parent].page = p
        BY <1>p, <2>2 DEF Answers
      <3>2. t = comments[parent].thread /\ a = comments[parent].author
        BY <2>2
      <3>3. <<t, p>> \in Strands
        BY <3>1, <3>2 DEF Strands
      <3>4. comments[parent].thread \in Nat /\ comments[parent].author \in Reader
        BY <3>1, TalkRows DEF TalkInv
      <3> QED BY <3>2, <3>3, <3>4
    <2> QED BY <2>1, <2>2
  <1>5. parent \in Nat \cup {NoRoot}
    BY LenProperties DEF TalkInv, TalkTypeInv
  <1> HIDE DEF t, a
  <1>6. /\ r \in Working /\ r.at = "insert" /\ r.thread = t /\ r.page = p
    BY <1>4, <1>5 DEF Working, TalkStages, MentionedIn
  <1> HIDE DEF r
  <1>7. /\ work' \in [Job -> Working \cup {Resting}] /\ work'[j] = r
        /\ \A k \in Job : k # j => work'[k] = work[k]
    BY <1>1, <1>6, WorkPut DEF TalkInv
  <1>8. /\ work'[j].at = "insert"
        /\ \A k \in Job : work'[k].at \in {"anchor", "gather", "notify"} => work'[k] = work[k]
        /\ \A k \in Job : work[k].at = "anchor" => work'[k] = work[k]
    BY <1>3, <1>6, <1>7
  <1>9. TalkTypeInv'
    BY <1>2, <1>7 DEF TalkInv, TalkTypeInv, Living, Comments, Writes
  <1>10. StrandsInv'
    <2>1. \A s \in Strands' : s \in Strands \/ s[1] = Placeholder
      <3> TAKE s \in Strands'
      <3>1. CASE \E c \in Living : s = <<comments[c].thread, comments[c].page>>
        BY <3>1 DEF Strands
      <3>2. CASE \E k \in Job : work'[k].at = "insert" /\ s = <<work'[k].thread, work'[k].page>>
        <4>1. PICK k \in Job : work'[k].at = "insert" /\ s = <<work'[k].thread, work'[k].page>>
          BY <3>2
        <4>2. CASE k = j
          BY <1>4, <1>6, <1>7, <4>1, <4>2
        <4>3. CASE k # j
          BY <1>7, <4>1, <4>3 DEF Strands
        <4> QED BY <4>2, <4>3
      <3> QED BY <1>2, <3>1, <3>2 DEF Strands, Living
    <2> QED BY <1>2, <1>8, <2>1, StrandsKept DEF TalkInv
  <1>11. PlacedInv'
    <2>1. parent = NoRoot => t = Placeholder
      BY DEF t
    <2>2. r.parent = parent
      BY DEF r
    <2>3. \A k \in Job : work'[k].at = "insert" /\ work'[k].parent = NoRoot => work'[k].thread = Placeholder
      BY <1>6, <1>7, <2>1, <2>2 DEF TalkInv, PlacedInv
    <2> QED BY <1>2, <1>8, <2>3 DEF TalkInv, PlacedInv, Placed, Living, Placeholder
  <1>12. GatheredInv'
    BY <1>2, <1>8 DEF TalkInv, GatheredInv, Hears, Living
  <1>16. ThreadInv'
    <2>1. \A k \in Job : work'[k].at = "gather" => work'[k] = work[k]
      BY <1>8
    <2> QED BY <1>2, <2>1 DEF TalkInv, ThreadInv, Living
  <1>13. LevelInv'
    BY <1>2 DEF TalkInv, LevelInv, Reads
  <1>14. SentInv'
    BY <1>2 DEF TalkInv, SentInv, Hears, Living
  <1>15. RootsInv'
    <2>1. ASSUME NEW c \in Living \ split, comments[c].thread = Placeholder
          PROVE  \E k \in Job : work'[k].at = "anchor" /\ work'[k].id = c
      <3>1. PICK k \in Job : work[k].at = "anchor" /\ work[k].id = c
        BY <2>1 DEF TalkInv, RootsInv
      <3> QED BY <1>8, <3>1
    <2> QED BY <1>2, <2>1 DEF RootsInv, Living, Placeholder
  <1> QED BY <1>9, <1>10, <1>11, <1>12, <1>13, <1>14, <1>15, <1>16 DEF TalkInv

\* The comment is created: it is in its parent's thread, or in none and about to be anchored.
LEMMA InsertKeeps ==
  ASSUME TalkInv, NEW j \in Job, Insert(j)
  PROVE  TalkInv'
  <1> DEFINE w == work[j]
             n == Len(comments) + 1
             x == [page |-> w.page, author |-> w.user, thread |-> w.thread, mentioned |-> w.mentioned,
                   reply |-> w.parent # NoRoot, resolved |-> FALSE]
             at == IF w.parent = NoRoot THEN "anchor" ELSE "gather"
             r == [w EXCEPT !.id = n, !.at = at]
  <1>1. /\ w.at = "insert"
        /\ comments' = Append(comments, x)
        /\ split' = IF w.parent # NoRoot /\ w.thread = Placeholder THEN split \cup {n} ELSE split
        /\ work' = [work EXCEPT ![j].id = n, ![j].at = at]
        /\ UNCHANGED <<notes, level, lost, told>>
    BY Zenon DEF Insert
  <1>2. w \in Working
    BY <1>1, AtWork DEF TalkInv
  <1>3. /\ w.page \in Page /\ w.user \in Reader /\ w.thread \in Nat /\ w.mentioned \subseteq Reader
        /\ w.parent \in Nat \cup {NoRoot}
    BY <1>2 DEF Working
  <1>4. /\ x \in CommentRow
        /\ x.page = w.page /\ x.author = w.user /\ x.thread = w.thread /\ x.mentioned = w.mentioned
        /\ x.reply = (w.parent # NoRoot)
    BY <1>3 DEF CommentRow
  <1>5. work' = [work EXCEPT ![j] = r]
    BY <1>1 DEF TalkInv, TalkTypeInv
  <1> HIDE DEF x
  <1>6. /\ comments' \in Seq(CommentRow \cup {NoRoot})
        /\ DOMAIN comments' = DOMAIN comments \cup {n}
        /\ n \in Nat /\ n \notin DOMAIN comments
        /\ \A c \in DOMAIN comments : comments'[c] = comments[c] /\ c < n
        /\ comments'[n] = x
        /\ Living \subseteq Living' /\ Living' \subseteq Living \cup {n}
    BY <1>1, <1>4, CommentAppended DEF TalkInv
  <1> HIDE DEF n
  <1>7. at \in TalkStages /\ at = (IF w.parent = NoRoot THEN "anchor" ELSE "gather")
    BY DEF TalkStages
  <1> HIDE DEF at
  <1>8. /\ r \in Working /\ r.at = at /\ r.id = n
        /\ r.page = w.page /\ r.user = w.user /\ r.mentioned = w.mentioned /\ r.parent = w.parent
        /\ r.thread = w.thread
    BY <1>2, <1>6, <1>7 DEF Working
  <1> HIDE DEF r
  <1>9. /\ work' \in [Job -> Working \cup {Resting}] /\ work'[j] = r
        /\ \A k \in Job : k # j => work'[k] = work[k]
    BY <1>5, <1>8, WorkPut DEF TalkInv
  <1>10. Living \subseteq DOMAIN comments /\ n \notin Living /\ \A c \in Living : comments'[c] = comments[c]
    BY <1>6 DEF Living
  <1> HIDE DEF w
  <1>11. TalkTypeInv'
    <2>1. \A c \in Living' : comments'[c] \in CommentRow
      BY <1>4, <1>6, <1>10 DEF TalkInv, TalkTypeInv
    <2> QED BY <1>1, <1>6, <1>9, <2>1 DEF TalkInv, TalkTypeInv, Comments, Writes
  <1>12. StrandsInv'
    <2>1. <<w.thread, w.page>> \in Strands
      BY <1>1 DEF Strands, w
    <2>2. ASSUME NEW c \in Living'
          PROVE  <<comments'[c].thread, comments'[c].page>> \in Strands
      <3>1. CASE c = n
        BY <1>4, <1>6, <2>1, <3>1
      <3>2. CASE c # n
        BY <1>6, <1>10, <3>2 DEF Strands
      <3> QED BY <3>1, <3>2
    <2>3. ASSUME NEW k \in Job, work'[k].at = "insert"
          PROVE  <<work'[k].thread, work'[k].page>> \in Strands
      <3>1. k # j
        BY <1>7, <1>8, <1>9, <2>3
      <3> QED BY <1>9, <2>3, <3>1 DEF Strands
    <2>4. Strands' \subseteq Strands
      BY <2>2, <2>3 DEF Strands
    <2>5. \A k \in Job : work'[k].at = "anchor" =>
            (work[k].at = "anchor" /\ work'[k].id = work[k].id) \/ work'[k].id \notin DOMAIN comments
      BY <1>6, <1>8, <1>9
    <2> QED BY <1>6, <2>4, <2>5, StrandsKept DEF TalkInv
  <1>13. PlacedInv'
    <2>0. n \notin told /\ \A m \in notes : m.about # n
      BY <1>6 DEF TalkInv, TalkTypeInv, SentInv
    <2>1. \A k \in Job : Placed(k) => work[k].id \in DOMAIN comments
      BY DEF TalkInv, PlacedInv
    <2>2. ASSUME NEW k \in Job, NEW l \in Job, Placed(k)', Placed(l)', work'[k].id = work'[l].id
          PROVE  k = l
      <3>1. CASE k = j /\ l # j
        BY <1>6, <1>8, <1>9, <2>1, <2>2, <3>1 DEF Placed
      <3>2. CASE k # j /\ l = j
        BY <1>6, <1>8, <1>9, <2>1, <2>2, <3>2 DEF Placed
      <3>3. CASE k # j /\ l # j
        BY <1>9, <2>2, <3>3 DEF TalkInv, PlacedInv, Placed
      <3> QED BY <3>1, <3>2, <3>3
    <2>3. ASSUME NEW k \in Job, Placed(k)'
          PROVE  LET v == work'[k]
                 IN  /\ v.id \in DOMAIN comments' /\ v.id \notin told'
                     /\ \A m \in notes' : m.about # v.id
                     /\ v.id \in Living' => /\ comments'[v.id].author = v.user /\ comments'[v.id].page = v.page
                                            /\ comments'[v.id].mentioned = v.mentioned
                                            /\ comments'[v.id].reply = (v.parent # NoRoot)
      <3>1. CASE k = j
        <4>1. /\ work'[k].id = n /\ work'[k].user = w.user /\ work'[k].page = w.page
              /\ work'[k].mentioned = w.mentioned /\ work'[k].parent = w.parent
          BY <1>8, <1>9, <3>1
        <4>2. n \in DOMAIN comments' /\ comments'[n] = x /\ told' = told /\ notes' = notes
          BY <1>1, <1>6
        <4> QED BY <1>4, <2>0, <4>1, <4>2, Zenon
      <3>2. CASE k # j
        <4>1. work'[k] = work[k] /\ Placed(k)
          BY <1>9, <2>3, <3>2 DEF Placed
        <4>2. work[k].id \in DOMAIN comments /\ work[k].id # n
          BY <1>6, <2>1, <4>1
        <4>3. /\ work[k].id \notin told /\ \A m \in notes : m.about # work[k].id
              /\ work[k].id \in Living => /\ comments[work[k].id].author = work[k].user
                                         /\ comments[work[k].id].page = work[k].page
                                         /\ comments[work[k].id].mentioned = work[k].mentioned
                                         /\ comments[work[k].id].reply = (work[k].parent # NoRoot)
          BY <4>1, Zenon DEF TalkInv, PlacedInv
        <4>4. /\ work[k].id \in DOMAIN comments' /\ told' = told /\ notes' = notes
              /\ work[k].id \in Living' => work[k].id \in Living
              /\ comments'[work[k].id] = comments[work[k].id]
          BY <1>1, <1>6, <4>2
        <4> QED BY <4>1, <4>3, <4>4, Zenon
      <3> QED BY <3>1, <3>2
    <2>4. ASSUME NEW k \in Job, work'[k].at = "anchor"
          PROVE  /\ work'[k].parent = NoRoot
                 /\ work'[k].id \in Living' => comments'[work'[k].id].thread = Placeholder
      <3>1. CASE k = j
        <4>1. w.parent = NoRoot
          BY <1>7, <1>8, <1>9, <2>4, <3>1
        <4>2. w.thread = Placeholder
          BY <1>1, <4>1 DEF TalkInv, PlacedInv, w
        <4> QED BY <1>4, <1>6, <1>8, <1>9, <3>1, <4>1, <4>2
      <3>2. CASE k # j
        <4>1. work'[k] = work[k] /\ Placed(k) /\ work[k].at = "anchor"
          BY <1>9, <2>4, <3>2 DEF Placed
        <4>2. /\ work[k].parent = NoRoot
              /\ work[k].id \in Living => comments[work[k].id].thread = Placeholder
          BY <4>1 DEF TalkInv, PlacedInv
        <4>3. /\ work[k].id \in Living' => work[k].id \in Living
              /\ comments'[work[k].id] = comments[work[k].id]
          BY <1>6, <2>1, <4>1
        <4> QED BY <4>1, <4>2, <4>3
      <3> QED BY <3>1, <3>2
    <2>5. \A k \in Job : work'[k].at = "insert" /\ work'[k].parent = NoRoot => work'[k].thread = Placeholder
      BY <1>7, <1>8, <1>9 DEF TalkInv, PlacedInv
    <2> QED BY <2>2, <2>3, <2>4, <2>5 DEF PlacedInv, Placeholder
  <1>14. \A c \in DOMAIN comments, u \in Reader : c \in Living' /\ Hears(c, u)' => c \in Living /\ Hears(c, u)
    <2>1. ASSUME NEW c \in DOMAIN comments, NEW u \in Reader, c \in Living', Hears(c, u)'
          PROVE  c \in Living /\ Hears(c, u)
      <3>1. c \in Living /\ comments'[c] = comments[c]
        BY <1>6, <2>1
      <3>2. \A d \in Living' : d < c => d \in Living /\ comments'[d] = comments[d]
        <4> TAKE d \in Living'
        <4> HAVE d < c
        <4>1. c < n /\ c \in Nat /\ n \in Nat
          BY <1>6, <3>1, TalkRows DEF TalkInv
        <4>2. d # n
          BY <4>1
        <4> QED BY <1>6, <1>10, <4>2
      <3> QED BY <2>1, <3>1, <3>2 DEF Hears
    <2> QED BY <2>1
  <1>15. GatheredInv'
    <2>1. ASSUME NEW k \in Job, work'[k].at = "notify", NEW c, c = work'[k].id
          PROVE  /\ \A m \in work'[k].told : m.about = c
                 /\ \A m, l \in work'[k].told : m.to = l.to => m = l
                 /\ c \in Living' => \A u \in Reader : Hears(c, u)' => \E m \in work'[k].told : m.to = u
      <3>1. k # j
        BY <1>7, <1>8, <1>9, <2>1
      <3>2. work'[k] = work[k] /\ work[k].at = "notify" /\ Placed(k) /\ c = work[k].id
        BY <1>9, <2>1, <3>1 DEF Placed
      <3>3. c \in DOMAIN comments
        BY <3>2 DEF TalkInv, PlacedInv
      <3>4. \A u \in Reader : c \in Living' /\ Hears(c, u)' => c \in Living /\ Hears(c, u)
        BY <1>14, <3>3
      <3>5. /\ \A m \in work[k].told : m.about = c
            /\ \A m, l \in work[k].told : m.to = l.to => m = l
            /\ c \in Living => \A u \in Reader : Hears(c, u) => \E m \in work[k].told : m.to = u
        BY <3>2, Zenon DEF TalkInv, GatheredInv
      <3> QED BY <3>2, <3>4, <3>5
    <2> QED BY <2>1, SMT DEF GatheredInv, Hears
  <1>16. LevelInv'
    BY <1>1 DEF TalkInv, LevelInv, Reads
  <1>19. ThreadInv'
    <2>1. ASSUME NEW k \in Job, work'[k].at = "gather", work'[k].parent # NoRoot, work'[k].id \in Living'
          PROVE  comments'[work'[k].id].thread = work'[k].thread
      <3>1. CASE k = j
        BY <1>4, <1>6, <1>8, <1>9, <3>1
      <3>2. CASE k # j
        <4>1. work'[k] = work[k] /\ Placed(k)
          BY <1>9, <2>1, <3>2 DEF Placed
        <4>2. work[k].id \in DOMAIN comments
          BY <4>1 DEF TalkInv, PlacedInv
        <4> QED BY <1>6, <1>10, <2>1, <4>1, <4>2 DEF TalkInv, ThreadInv
      <3> QED BY <3>1, <3>2
    <2> QED BY <2>1 DEF ThreadInv
  <1>17. SentInv'
    <2>1. ASSUME NEW c \in told \cap Living', NEW u \in Reader, Hears(c, u)', <<u,
                 comments'[c].page>> \notin lost
          PROVE  \E m \in notes : m.to = u /\ m.about = c
      <3>1. c \in DOMAIN comments
        BY DEF TalkInv, TalkTypeInv
      <3>2. c \in Living /\ Hears(c, u)
        BY <1>14, <2>1, <3>1
      <3>3. comments'[c] = comments[c]
        BY <1>6, <3>1
      <3> QED BY <2>1, <3>2, <3>3 DEF TalkInv, SentInv
    <2>2. \A m \in notes : m.about \in DOMAIN comments'
      BY <1>6 DEF TalkInv, SentInv
    <2>3. \A m, l \in notes : m.to = l.to /\ m.about = l.about => m = l
      BY DEF TalkInv, SentInv
    <2>4. notes' = notes /\ told' = told /\ lost' = lost
      BY <1>1
    <2> QED BY <2>1, <2>2, <2>3, <2>4 DEF SentInv
  <1>18. RootsInv'
    <2>1. ASSUME NEW c \in Living' \ split', comments'[c].thread = Placeholder
          PROVE  \E k \in Job : work'[k].at = "anchor" /\ work'[k].id = c
      <3>1. CASE c = n
        <4>1. w.thread = Placeholder
          BY <1>4, <1>6, <2>1, <3>1
        <4>2. w.parent = NoRoot
          BY <1>1, <2>1, <3>1, <4>1
        <4> QED BY <1>7, <1>8, <1>9, <3>1, <4>2
      <3>2. CASE c # n
        <4>1. c \in Living \ split /\ comments[c].thread = Placeholder
          BY <1>1, <1>6, <1>10, <2>1, <3>2
        <4>2. PICK k \in Job : work[k].at = "anchor" /\ work[k].id = c
          BY <4>1 DEF TalkInv, RootsInv
        <4>3. k # j
          BY <1>1, <4>2 DEF w
        <4> QED BY <1>9, <4>2, <4>3
      <3> QED BY <3>1, <3>2
    <2> QED BY <2>1 DEF RootsInv, Placeholder
  <1> QED BY <1>11, <1>12, <1>13, <1>15, <1>16, <1>17, <1>18, <1>19 DEF TalkInv

\* The root gives its thread its own number, which no thread has.
LEMMA AnchorKeeps ==
  ASSUME TalkInv, NEW j \in Job, Anchor(j)
  PROVE  TalkInv'
  <1> DEFINE w == work[j]
             c == w.id
             x == [comments[c] EXCEPT !.thread = c]
             r == [w EXCEPT !.at = "gather"]
  <1>1. /\ w.at = "anchor" /\ comments[c] # NoRoot
        /\ comments' = [comments EXCEPT ![c].thread = ResolveThreadId(c, NoRoot)]
        /\ work' = [work EXCEPT ![j].at = "gather"]
        /\ UNCHANGED <<notes, level, lost, split, told>>
    BY DEF Anchor, Step
  <1>2. w \in Working /\ Placed(j)
    BY <1>1, AtWork DEF TalkInv, Placed
  <1>3. c \in Living /\ c \in DOMAIN comments /\ c \in Nat
    BY <1>1, <1>2, TalkRows DEF TalkInv, PlacedInv, Living
  <1>4. comments[c] \in CommentRow
    BY <1>3, TalkRows DEF TalkInv
  <1>5. /\ x \in CommentRow /\ x.thread = c
        /\ x.page = comments[c].page /\ x.author = comments[c].author
        /\ x.mentioned = comments[c].mentioned /\ x.reply = comments[c].reply
    BY <1>3, <1>4 DEF CommentRow
  <1>6. comments' = [comments EXCEPT ![c] = x]
    BY <1>1 DEF ResolveThreadId
  <1> HIDE DEF x
  <1>7. work' = [work EXCEPT ![j] = r]
    BY <1>1
  <1>8. /\ r \in Working /\ r.at = "gather" /\ r.id = c
        /\ r.page = w.page /\ r.user = w.user /\ r.mentioned = w.mentioned /\ r.parent = w.parent
    BY <1>2 DEF Working, TalkStages
  <1> HIDE DEF r
  <1>9. /\ work' \in [Job -> Working \cup {Resting}] /\ work'[j] = r
        /\ \A k \in Job : k # j => work'[k] = work[k]
    BY <1>7, <1>8, WorkPut DEF TalkInv
  <1> HIDE DEF c
  <1>10. /\ comments' \in Seq(CommentRow \cup {NoRoot}) /\ DOMAIN comments' = DOMAIN comments
         /\ comments'[c] = x
         /\ \A d \in DOMAIN comments : d # c => comments'[d] = comments[d]
         /\ Living' \subseteq Living
    <2>1. comments \in Seq(CommentRow \cup {NoRoot}) /\ c \in 1 .. Len(comments)
      BY <1>3, LenProperties DEF TalkInv, TalkTypeInv
    <2>2. comments' \in Seq(CommentRow \cup {NoRoot}) /\ DOMAIN comments' = DOMAIN comments
      BY <1>5, <1>6, <2>1, ExceptSeq, LenProperties
    <2>3. comments'[c] = x /\ \A d \in DOMAIN comments : d # c => comments'[d] = comments[d]
      BY <1>3, <1>6
    <2> QED BY <1>3, <2>2, <2>3 DEF Living
  <1>11. Living \subseteq DOMAIN comments
    BY DEF Living
  <1>0. \A d \in DOMAIN comments : d # Placeholder
    BY LenProperties DEF TalkInv, TalkTypeInv, Placeholder
  <1>12. \A s \in Strands : s[1] # c
    BY <1>0, <1>1, <1>3 DEF TalkInv, StrandsInv, c
  <1>13. \A d \in Living : comments[d].thread # c
    <2> TAKE d \in Living
    <2>1. <<comments[d].thread, comments[d].page>> \in Strands
      BY DEF Strands
    <2> QED BY <1>12, <2>1
  <1>14. TalkTypeInv'
    <2>1. \A d \in Living' : comments'[d] \in CommentRow
      BY <1>5, <1>10, <1>11 DEF TalkInv, TalkTypeInv
    <2> QED BY <1>1, <1>9, <1>10, <2>1 DEF TalkInv, TalkTypeInv, Comments, Writes
  <1>15. StrandsInv'
    <2>1. \A s \in Strands' : s \in Strands \/ s = <<c, comments[c].page>>
      <3>1. ASSUME NEW d \in Living', NEW s, s = <<comments'[d].thread, comments'[d].page>>
            PROVE  s \in Strands \/ s = <<c, comments[c].page>>
        BY <1>5, <1>10, <1>11, <3>1 DEF Strands
      <3>2. ASSUME NEW k \in Job, work'[k].at = "insert", NEW s, s = <<work'[k].thread, work'[k].page>>
            PROVE  s \in Strands
        BY <1>8, <1>9, <3>2 DEF Strands
      <3> QED BY <3>1, <3>2 DEF Strands
    <2>2. ASSUME NEW s \in Strands', NEW t \in Strands', s[1] = t[1], s[1] # Placeholder
          PROVE  s[2] = t[2]
      <3>1. CASE s \in Strands /\ t \in Strands
        BY <2>2, <3>1 DEF TalkInv, StrandsInv
      <3>2. CASE s = <<c, comments[c].page>>
        BY <1>12, <2>1, <2>2, <3>2
      <3>3. CASE t = <<c, comments[c].page>>
        BY <1>12, <2>1, <2>2, <3>3
      <3> QED BY <2>1, <3>1, <3>2, <3>3
    <2>3. ASSUME NEW s \in Strands', s[1] # Placeholder
          PROVE  s[1] \in DOMAIN comments /\ \A k \in Job : work'[k].at = "anchor" => work'[k].id # s[1]
      <3>1. \A k \in Job : work'[k].at = "anchor" => k # j /\ work'[k] = work[k] /\ Placed(k)
        BY <1>8, <1>9 DEF Placed
      <3>2. \A k \in Job : work'[k].at = "anchor" => work[k].id # c
        BY <1>2, <3>1 DEF TalkInv, PlacedInv, c
      <3>3. CASE s \in Strands
        BY <2>3, <3>1, <3>3 DEF TalkInv, StrandsInv
      <3>4. CASE s = <<c, comments[c].page>>
        BY <1>3, <3>1, <3>2, <3>4
      <3> QED BY <2>1, <3>3, <3>4
    <2> QED BY <1>10, <2>2, <2>3 DEF StrandsInv, Placeholder
  <1>16. \A d \in Living' : /\ d \in Living /\ comments'[d].page = comments[d].page
                            /\ comments'[d].author = comments[d].author
                            /\ comments'[d].mentioned = comments[d].mentioned
                            /\ comments'[d].reply = comments[d].reply
    BY <1>5, <1>10, <1>11
  <1>17. PlacedInv'
    <2>1. \A k \in Job : /\ Placed(k)' => Placed(k)
                         /\ work'[k].id = work[k].id /\ work'[k].user = work[k].user
                         /\ work'[k].page = work[k].page /\ work'[k].mentioned = work[k].mentioned
                         /\ work'[k].parent = work[k].parent
      BY <1>2, <1>8, <1>9 DEF Placed, c
    <2>2. \A k, l \in Job : Placed(k)' /\ Placed(l)' /\ work'[k].id = work'[l].id => k = l
      BY <2>1 DEF TalkInv, PlacedInv
    <2>3. ASSUME NEW k \in Job, Placed(k)'
          PROVE  LET v == work'[k]
                 IN  /\ v.id \in DOMAIN comments' /\ v.id \notin told'
                     /\ \A m \in notes' : m.about # v.id
                     /\ v.id \in Living' => /\ comments'[v.id].author = v.user /\ comments'[v.id].page = v.page
                                            /\ comments'[v.id].mentioned = v.mentioned
                                            /\ comments'[v.id].reply = (v.parent # NoRoot)
      <3>1. /\ work[k].id \in DOMAIN comments /\ work[k].id \notin told
            /\ \A m \in notes : m.about # work[k].id
            /\ work[k].id \in Living => /\ comments[work[k].id].author = work[k].user
                                       /\ comments[work[k].id].page = work[k].page
                                       /\ comments[work[k].id].mentioned = work[k].mentioned
                                       /\ comments[work[k].id].reply = (work[k].parent # NoRoot)
        BY <2>1, <2>3, Zenon DEF TalkInv, PlacedInv
      <3>2. told' = told /\ notes' = notes
        BY <1>1
      <3>3. work[k].id \in Living' =>
              /\ work[k].id \in Living /\ comments'[work[k].id].page = comments[work[k].id].page
              /\ comments'[work[k].id].author = comments[work[k].id].author
              /\ comments'[work[k].id].mentioned = comments[work[k].id].mentioned
              /\ comments'[work[k].id].reply = comments[work[k].id].reply
        BY <1>16
      <3>4. /\ work'[k].id = work[k].id /\ work'[k].user = work[k].user
            /\ work'[k].page = work[k].page /\ work'[k].mentioned = work[k].mentioned
            /\ work'[k].parent = work[k].parent
        BY <2>1
      <3>5. work[k].id \in DOMAIN comments'
        BY <1>10, <3>1
      <3> QED BY <3>1, <3>2, <3>3, <3>4, <3>5, Zenon
    <2>4. ASSUME NEW k \in Job, work'[k].at = "anchor"
          PROVE  /\ work'[k].parent = NoRoot
                 /\ work'[k].id \in Living' => comments'[work'[k].id].thread = Placeholder
      <3>1. k # j /\ work'[k] = work[k] /\ Placed(k)
        BY <1>8, <1>9, <2>4 DEF Placed
      <3>2. work[k].id # c
        BY <1>2, <3>1 DEF TalkInv, PlacedInv, c
      <3> QED BY <1>10, <1>11, <2>4, <3>1, <3>2 DEF TalkInv, PlacedInv
    <2>5. \A k \in Job : work'[k].at = "insert" /\ work'[k].parent = NoRoot => work'[k].thread = Placeholder
      BY <1>8, <1>9 DEF TalkInv, PlacedInv
    <2> QED BY <2>2, <2>3, <2>4, <2>5 DEF PlacedInv, Placeholder
  <1>18. ASSUME NEW d \in DOMAIN comments, NEW u \in Reader, d \in Living', Hears(d, u)', d # c
         PROVE  d \in Living /\ Hears(d, u)
    <2>1. d \in Living /\ comments'[d] = comments[d]
      BY <1>10, <1>18
    <2>2. \A e \in Living' : comments'[e].thread = comments'[d].thread =>
            comments[e].thread = comments[d].thread
      <3> TAKE e \in Living'
      <3>1. CASE e = c
        BY <1>5, <1>10, <1>13, <2>1, <3>1
      <3>2. CASE e # c
        BY <1>10, <1>11, <2>1, <3>2
      <3> QED BY <3>1, <3>2
    <2> QED BY <1>16, <1>18, <2>1, <2>2 DEF Hears
  <1>19. GatheredInv'
    <2>1. ASSUME NEW k \in Job, work'[k].at = "notify", NEW d, d = work'[k].id
          PROVE  /\ \A m \in work'[k].told : m.about = d
                 /\ \A m, l \in work'[k].told : m.to = l.to => m = l
                 /\ d \in Living' => \A u \in Reader : Hears(d, u)' => \E m \in work'[k].told : m.to = u
      <3>1. k # j
        BY <1>8, <1>9, <2>1
      <3>2. work'[k] = work[k] /\ work[k].at = "notify" /\ Placed(k) /\ d = work[k].id
        BY <1>9, <2>1, <3>1 DEF Placed
      <3>3. d \in DOMAIN comments /\ d # c
        BY <1>2, <3>1, <3>2 DEF TalkInv, PlacedInv, c
      <3>4. \A u \in Reader : d \in Living' /\ Hears(d, u)' => d \in Living /\ Hears(d, u)
        BY <1>18, <3>3
      <3>5. /\ \A m \in work[k].told : m.about = d
            /\ \A m, l \in work[k].told : m.to = l.to => m = l
            /\ d \in Living => \A u \in Reader : Hears(d, u) => \E m \in work[k].told : m.to = u
        BY <3>2, Zenon DEF TalkInv, GatheredInv
      <3> QED BY <3>2, <3>4, <3>5
    <2> QED BY <2>1, SMT DEF GatheredInv, Hears
  <1>20. LevelInv'
    BY <1>1 DEF TalkInv, LevelInv, Reads
  <1>21. SentInv'
    <2>1. ASSUME NEW d \in told \cap Living', NEW u \in Reader, Hears(d, u)', <<u,
                 comments'[d].page>> \notin lost
          PROVE  \E m \in notes : m.to = u /\ m.about = d
      <3>1. d \in DOMAIN comments /\ d # c
        BY <1>2 DEF TalkInv, TalkTypeInv, PlacedInv, c
      <3>2. d \in Living /\ Hears(d, u)
        BY <1>18, <2>1, <3>1
      <3>3. comments'[d] = comments[d]
        BY <1>10, <3>1
      <3> QED BY <2>1, <3>2, <3>3 DEF TalkInv, SentInv
    <2>2. \A m \in notes : m.about \in DOMAIN comments'
      BY <1>10 DEF TalkInv, SentInv
    <2>3. \A m, l \in notes : m.to = l.to /\ m.about = l.about => m = l
      BY DEF TalkInv, SentInv
    <2>4. notes' = notes /\ told' = told /\ lost' = lost
      BY <1>1
    <2> QED BY <2>1, <2>2, <2>3, <2>4 DEF SentInv
  <1>22. RootsInv'
    <2>1. ASSUME NEW d \in Living' \ split', comments'[d].thread = Placeholder
          PROVE  \E k \in Job : work'[k].at = "anchor" /\ work'[k].id = d
      <3>1. d # c
        BY <1>0, <1>3, <1>5, <1>10, <2>1
      <3>2. d \in Living \ split /\ comments[d].thread = Placeholder
        BY <1>1, <1>10, <1>11, <2>1, <3>1
      <3>3. PICK k \in Job : work[k].at = "anchor" /\ work[k].id = d
        BY <3>2 DEF TalkInv, RootsInv
      <3>4. k # j
        BY <3>1, <3>3 DEF c
      <3> QED BY <1>9, <3>3, <3>4
    <2> QED BY <2>1 DEF RootsInv, Placeholder
  <1>23. ThreadInv'
    <2>1. ASSUME NEW k \in Job, work'[k].at = "gather", work'[k].parent # NoRoot, work'[k].id \in Living'
          PROVE  comments'[work'[k].id].thread = work'[k].thread
      <3>1. k # j
        BY <1>1, <1>2, <1>8, <1>9, <2>1 DEF TalkInv, PlacedInv
      <3>2. work'[k] = work[k] /\ Placed(k)
        BY <1>9, <2>1, <3>1 DEF Placed
      <3>3. work[k].id \in DOMAIN comments /\ work[k].id # c
        BY <1>2, <3>1, <3>2 DEF TalkInv, PlacedInv, c
      <3> QED BY <1>10, <1>11, <2>1, <3>2, <3>3 DEF TalkInv, ThreadInv
    <2> QED BY <2>1 DEF ThreadInv
  <1> QED BY <1>14, <1>15, <1>17, <1>19, <1>20, <1>21, <1>22, <1>23 DEF TalkInv

-----------------------------------------------------------------------------
(* The notifications                                                       *)

\* What is gathered is of the comment, one for each user, and for everyone who is to hear of it.
LEMMA CandidatesEnough ==
  ASSUME TalkInv, NEW j \in Job, work[j].at = "gather"
  PROVE  /\ Candidates(j) \subseteq Note
         /\ \A m \in Candidates(j) : m.about = work[j].id
         /\ \A m, n \in Candidates(j) : m.to = n.to => m = n
         /\ work[j].id \in Living =>
              \A u \in Reader : Hears(work[j].id, u) => \E m \in Candidates(j) : m.to = u
  <1> DEFINE w == work[j]
             M == w.mentioned \ {w.user}
             R == IF w.parent = NoRoot THEN {} ELSE ReplyRecipients(j) \ w.mentioned
  <1>1. w \in Working /\ Placed(j)
    BY AtWork DEF TalkInv, Placed
  <1>2. w.mentioned \subseteq Reader /\ w.id \in Nat /\ w.rootAuthor \in Reader \cup {NoRoot}
    BY <1>1 DEF Working
  <1>3. Candidates(j) = {Message(u, "mention", w.id) : u \in M}
                          \cup {Message(u, "comment_reply", w.id) : u \in R}
    BY DEF Candidates
  <1>4. ReplyRecipients(j) \subseteq Reader
    <2>1. {comments[c].author : c \in Thread(j)} \subseteq Reader
      BY TalkRows DEF TalkInv, Thread
    <2>2. RootAuthor(j) \in Reader \cup {NoRoot}
      BY <1>2, TalkRows DEF TalkInv, Thread, RootAuthor
    <2> QED BY <2>1, <2>2 DEF ReplyRecipients
  <1>5. M \subseteq Reader /\ R \subseteq Reader /\ M \cap R = {}
    BY <1>2, <1>4
  <1>6. ASSUME w.id \in Living, NEW u \in Reader, Hears(w.id, u)
        PROVE  u \in M \cup R
    <2>1. /\ comments[w.id].author = w.user /\ comments[w.id].mentioned = w.mentioned
          /\ comments[w.id].reply = (w.parent # NoRoot)
      BY <1>1, <1>6, Zenon DEF TalkInv, PlacedInv
    <2>2. u # w.user
      BY <1>6, <2>1 DEF Hears
    <2>3. CASE u \in w.mentioned
      BY <2>2, <2>3
    <2>4. CASE u \notin w.mentioned
      <3>1. comments[w.id].reply /\ \E d \in Living : /\ d < w.id /\ comments[d].author = u
                                                      /\ comments[d].thread = comments[w.id].thread
        BY <1>6, <2>1, <2>4 DEF Hears
      <3>2. PICK d \in Living : /\ d < w.id /\ comments[d].author = u
                                /\ comments[d].thread = comments[w.id].thread
        BY <3>1
      <3>3. w.parent # NoRoot
        BY <2>1, <3>1, Zenon
      <3>4. d # w.id
        BY <1>2, <3>2
      <3>5. d \in Thread(j)
        <4>1. comments[w.id].thread = w.thread
          BY <1>6, <3>3 DEF TalkInv, ThreadInv
        <4> QED BY <3>2, <3>4, <4>1 DEF Thread
      <3>6. u \in ReplyRecipients(j)
        BY <2>2, <3>2, <3>5, TalkAssumption DEF ReplyRecipients
      <3> QED BY <2>4, <3>3, <3>6
    <2> QED BY <2>3, <2>4
  <1> HIDE DEF M, R, w
  <1>7. ASSUME NEW u, NEW t \in {"mention", "comment_reply"}
        PROVE  LET m == Message(u, t, w.id)
               IN  m.to = u /\ m.type = t /\ m.about = w.id /\ (u \in Reader => m \in Note)
    BY <1>2 DEF Message, Note
  <1>8. Candidates(j) \subseteq Note /\ \A m \in Candidates(j) : m.about = w.id
    BY <1>3, <1>5, <1>7
  <1>9. ASSUME NEW m \in Candidates(j), NEW n \in Candidates(j), m.to = n.to
        PROVE  m = n
    <2>1. /\ m.to \in M => m = Message(m.to, "mention", w.id)
          /\ m.to \in R => m = Message(m.to, "comment_reply", w.id)
          /\ n.to \in M => n = Message(n.to, "mention", w.id)
          /\ n.to \in R => n = Message(n.to, "comment_reply", w.id)
          /\ m.to \in M \cup R
      BY <1>3, <1>5, <1>7
    <2> QED BY <1>9, <2>1
  <1>10. ASSUME w.id \in Living, NEW u \in Reader, Hears(w.id, u)
         PROVE  \E m \in Candidates(j) : m.to = u
    <2>1. CASE u \in M
      BY <1>3, <1>7, <2>1
    <2>2. CASE u \in R
      BY <1>3, <1>7, <2>2
    <2> QED BY <1>6, <1>10, <2>1, <2>2
  <1> QED BY <1>8, <1>9, <1>10 DEF w

\* A request's step that leaves the comments as they are, and that no longer
\* names a comment it did not name before, or lets go of it.
LEMMA QuietRest ==
  ASSUME TalkInv, NEW j \in Job, NEW r \in Working \cup {Resting}, work' = [work EXCEPT ![j] = r],
         r.at \in {"idle", "notify"},
         r.at = "notify" => /\ Placed(j) /\ r.id = work[j].id /\ r.user = work[j].user /\ r.page = work[j].page
                            /\ r.mentioned = work[j].mentioned /\ r.parent = work[j].parent,
         UNCHANGED <<comments, notes, level, lost, told>>
  PROVE  /\ TalkTypeInv' /\ StrandsInv' /\ PlacedInv' /\ LevelInv' /\ SentInv'
         /\ ThreadInv'
         /\ work'[j] = r /\ \A k \in Job : k # j => work'[k] = work[k]
  <1>1. /\ work' \in [Job -> Working \cup {Resting}] /\ work'[j] = r
        /\ \A k \in Job : k # j => work'[k] = work[k]
    BY WorkPut DEF TalkInv
  <1>2. TalkTypeInv'
    BY <1>1 DEF TalkInv, TalkTypeInv, Living, Comments, Writes
  <1>7. ThreadInv'
    BY <1>1 DEF TalkInv, ThreadInv, Living
  <1>3. StrandsInv'
    <2>1. Strands' \subseteq Strands
      BY <1>1 DEF Strands, Living
    <2>2. \A k \in Job : work'[k].at = "anchor" => work'[k] = work[k]
      BY <1>1
    <2> QED BY <2>1, <2>2, StrandsKept DEF TalkInv
  <1>4. PlacedInv'
    <2>1. \A k \in Job : Placed(k)' => /\ Placed(k)
                         /\ work'[k].id = work[k].id /\ work'[k].user = work[k].user
                         /\ work'[k].page = work[k].page /\ work'[k].mentioned = work[k].mentioned
                         /\ work'[k].parent = work[k].parent
      BY <1>1 DEF Placed
    <2>2. \A k, l \in Job : Placed(k)' /\ Placed(l)' /\ work'[k].id = work'[l].id => k = l
      BY <2>1 DEF TalkInv, PlacedInv
    <2>3. ASSUME NEW k \in Job, Placed(k)'
          PROVE  LET v == work'[k]
                 IN  /\ v.id \in DOMAIN comments' /\ v.id \notin told'
                     /\ \A m \in notes' : m.about # v.id
                     /\ v.id \in Living' => /\ comments'[v.id].author = v.user /\ comments'[v.id].page = v.page
                                            /\ comments'[v.id].mentioned = v.mentioned
                                            /\ comments'[v.id].reply = (v.parent # NoRoot)
      <3>1. /\ work[k].id \in DOMAIN comments /\ work[k].id \notin told
            /\ \A m \in notes : m.about # work[k].id
            /\ work[k].id \in Living => /\ comments[work[k].id].author = work[k].user
                                       /\ comments[work[k].id].page = work[k].page
                                       /\ comments[work[k].id].mentioned = work[k].mentioned
                                       /\ comments[work[k].id].reply = (work[k].parent # NoRoot)
        BY <2>1, <2>3, Zenon DEF TalkInv, PlacedInv
      <3>2. /\ work'[k].id = work[k].id /\ work'[k].user = work[k].user
            /\ work'[k].page = work[k].page /\ work'[k].mentioned = work[k].mentioned
            /\ work'[k].parent = work[k].parent
        BY <2>1, <2>3
      <3>3. /\ work[k].id \in DOMAIN comments' /\ work[k].id \notin told'
            /\ \A m \in notes' : m.about # work[k].id
        BY <3>1
      <3>4. work[k].id \in Living' => /\ comments'[work[k].id].author = work[k].user
                                      /\ comments'[work[k].id].page = work[k].page
                                      /\ comments'[work[k].id].mentioned = work[k].mentioned
                                      /\ comments'[work[k].id].reply = (work[k].parent # NoRoot)
        BY <3>1 DEF Living
      <3> QED BY <3>2, <3>3, <3>4, Zenon
    <2>4. ASSUME NEW k \in Job, work'[k].at = "anchor"
          PROVE  /\ work'[k].parent = NoRoot
                 /\ work'[k].id \in Living' => comments'[work'[k].id].thread = Placeholder
      <3>1. work'[k] = work[k]
        BY <1>1, <2>4
      <3> QED BY <2>4, <3>1 DEF TalkInv, PlacedInv, Living
    <2>5. \A k \in Job : work'[k].at = "insert" /\ work'[k].parent = NoRoot => work'[k].thread = Placeholder
      BY <1>1 DEF TalkInv, PlacedInv
    <2> QED BY <2>2, <2>3, <2>4, <2>5 DEF PlacedInv, Placeholder
  <1>5. LevelInv'
    BY DEF TalkInv, LevelInv, Reads
  <1>6. SentInv'
    BY DEF TalkInv, SentInv, Hears, Living
  <1> QED BY <1>1, <1>2, <1>3, <1>4, <1>5, <1>6, <1>7

\* Who is to be told is gathered.
LEMMA GatherKeeps ==
  ASSUME TalkInv, NEW j \in Job, Gather(j)
  PROVE  TalkInv'
  <1> DEFINE w == work[j]
             T == Candidates(j)
             r == [w EXCEPT !.at = "notify", !.told = T]
  <1>1. /\ w.at = "gather"
        /\ work' = [work EXCEPT ![j].at = "notify", ![j].told = T]
        /\ UNCHANGED <<comments, notes, level, lost, split, told>>
    BY DEF Gather, rowsOfTalk
  <1>2. w \in Working /\ Placed(j)
    BY <1>1, AtWork DEF TalkInv, Placed
  <1>4. /\ T \subseteq Note
        /\ \A m \in T : m.about = w.id
        /\ \A m, n \in T : m.to = n.to => m = n
        /\ w.id \in Living => \A u \in Reader : Hears(w.id, u) => \E m \in T : m.to = u
    BY <1>1, CandidatesEnough
  <1>5. work' = [work EXCEPT ![j] = r]
    BY <1>1 DEF TalkInv, TalkTypeInv
  <1> HIDE DEF T
  <1>6. /\ r \in Working /\ r.at = "notify" /\ r.told = T /\ r.id = w.id
        /\ r.page = w.page /\ r.user = w.user /\ r.mentioned = w.mentioned /\ r.parent = w.parent
    BY <1>2, <1>4 DEF Working, TalkStages
  <1> HIDE DEF r
  <1>7. /\ TalkTypeInv' /\ StrandsInv' /\ PlacedInv' /\ LevelInv' /\ SentInv'
        /\ work'[j] = r /\ \A k \in Job : k # j => work'[k] = work[k]
        /\ ThreadInv'
    BY <1>1, <1>2, <1>5, <1>6, QuietRest
  <1>8. GatheredInv'
    <2>1. ASSUME NEW k \in Job, work'[k].at = "notify", NEW c, c = work'[k].id
          PROVE  /\ \A m \in work'[k].told : m.about = c
                 /\ \A m, n \in work'[k].told : m.to = n.to => m = n
                 /\ c \in Living' => \A u \in Reader : Hears(c, u)' => \E m \in work'[k].told : m.to = u
      <3>1. CASE k = j
        <4>1. c = w.id /\ work'[k].told = T
          BY <1>6, <1>7, <2>1, <3>1
        <4>2. Living' = Living /\ \A u \in Reader : Hears(c, u)' => Hears(c, u)
          BY <1>1 DEF Hears, Living
        <4> QED BY <1>4, <4>1, <4>2
      <3>2. CASE k # j
        <4>1. work'[k] = work[k]
          BY <1>7, <3>2
        <4>2. /\ \A m \in work[k].told : m.about = c
              /\ \A m, n \in work[k].told : m.to = n.to => m = n
              /\ c \in Living => \A u \in Reader : Hears(c, u) => \E m \in work[k].told : m.to = u
          BY <2>1, <4>1 DEF TalkInv, GatheredInv
        <4>3. Living' = Living /\ \A u \in Reader : Hears(c, u)' => Hears(c, u)
          BY <1>1 DEF Hears, Living
        <4> QED BY <4>1, <4>2, <4>3
      <3> QED BY <3>1, <3>2
    <2> QED BY <2>1, SMT DEF GatheredInv, Hears
  <1>9. RootsInv'
    <2>1. ASSUME NEW c \in Living \ split, comments[c].thread = Placeholder
          PROVE  \E k \in Job : work'[k].at = "anchor" /\ work'[k].id = c
      <3>1. PICK k \in Job : work[k].at = "anchor" /\ work[k].id = c
        BY <2>1 DEF TalkInv, RootsInv
      <3>2. k # j
        BY <1>1, <3>1
      <3> QED BY <1>7, <3>1, <3>2
    <2> QED BY <1>1, <2>1 DEF RootsInv, Living, Placeholder
  <1> QED BY <1>7, <1>8, <1>9 DEF TalkInv

\* A request breaks off: a root that was not anchored yet is left in no thread.
LEMMA BreakOffKeeps ==
  ASSUME TalkInv, NEW j \in Job, BreakOff(j)
  PROVE  TalkInv'
  <1>1. /\ split' = IF work[j].at = "anchor" THEN split \cup {work[j].id} ELSE split
        /\ work' = [work EXCEPT ![j] = Resting]
        /\ UNCHANGED <<comments, notes, level, lost, told>>
    BY DEF BreakOff, rowsOfTalk
  <1>2. Resting \in Working \cup {Resting} /\ Resting.at = "idle"
    BY AtRest
  <1>3. /\ TalkTypeInv' /\ StrandsInv' /\ PlacedInv' /\ LevelInv' /\ SentInv'
        /\ work'[j] = Resting /\ \A k \in Job : k # j => work'[k] = work[k]
        /\ ThreadInv'
    BY <1>1, <1>2, QuietRest
  <1>4. GatheredInv'
    <2>1. ASSUME NEW k \in Job, work'[k].at = "notify", NEW c, c = work'[k].id
          PROVE  /\ \A m \in work'[k].told : m.about = c
                 /\ \A m, n \in work'[k].told : m.to = n.to => m = n
                 /\ c \in Living' => \A u \in Reader : Hears(c, u)' => \E m \in work'[k].told : m.to = u
      <3>1. work'[k] = work[k]
        BY <1>2, <1>3, <2>1
      <3>2. /\ \A m \in work[k].told : m.about = c
            /\ \A m, n \in work[k].told : m.to = n.to => m = n
            /\ c \in Living => \A u \in Reader : Hears(c, u) => \E m \in work[k].told : m.to = u
        BY <2>1, <3>1 DEF TalkInv, GatheredInv
      <3>3. Living' = Living /\ \A u \in Reader : Hears(c, u)' => Hears(c, u)
        BY <1>1 DEF Hears, Living
      <3> QED BY <3>1, <3>2, <3>3
    <2> QED BY <2>1, SMT DEF GatheredInv, Hears
  <1>5. RootsInv'
    <2>1. ASSUME NEW c \in Living \ split', comments[c].thread = Placeholder
          PROVE  \E k \in Job : work'[k].at = "anchor" /\ work'[k].id = c
      <3>1. c \notin split
        BY <1>1, <2>1
      <3>2. PICK k \in Job : work[k].at = "anchor" /\ work[k].id = c
        BY <2>1, <3>1 DEF TalkInv, RootsInv
      <3>3. k # j
        BY <1>1, <2>1, <3>2
      <3> QED BY <1>3, <3>2, <3>3
    <2> QED BY <1>1, <2>1 DEF RootsInv, Living, Placeholder
  <1> QED BY <1>3, <1>4, <1>5 DEF TalkInv

\* The notifications are sent to whoever may still read the page.
LEMMA NotifyKeeps ==
  ASSUME TalkInv, NEW j \in Job, Notify(j)
  PROVE  TalkInv'
  <1> DEFINE w == work[j]
             c == w.id
             S == {m \in w.told : m.to \in StillAllowed({m.to}, w.page)}
  <1>1. /\ w.at = "notify"
        /\ notes' = notes \cup S /\ told' = told \cup {c}
        /\ work' = [work EXCEPT ![j] = Resting]
        /\ UNCHANGED <<comments, level, lost, split>>
    BY DEF Notify
  <1>2. w \in Working /\ Placed(j)
    BY <1>1, AtWork DEF TalkInv, Placed
  <1>3. /\ w.told \subseteq Note /\ w.page \in Page /\ S \subseteq w.told
    BY <1>2 DEF Working
  <1>4. /\ c \in DOMAIN comments /\ \A m \in notes : m.about # c
        /\ c \in Living => comments[c].page = w.page
    BY <1>2 DEF TalkInv, PlacedInv
  <1>5. /\ \A m \in w.told : m.about = c
        /\ \A m, n \in w.told : m.to = n.to => m = n
        /\ c \in Living => \A u \in Reader : Hears(c, u) => \E m \in w.told : m.to = u
    BY <1>1 DEF TalkInv, GatheredInv
  <1>6. \A m \in w.told : <<m.to, w.page>> \notin lost => m \in S
    <2> TAKE m \in w.told
    <2>1. m.to \in Reader
      BY <1>3 DEF Note
    <2>2. <<m.to, w.page>> \notin lost => level[<<m.to, w.page>>] >= Reads
      BY <1>3, <2>1 DEF TalkInv, LevelInv
    <2> QED BY <2>2 DEF StillAllowed
  <1> HIDE DEF S
  <1>7. /\ work' \in [Job -> Working \cup {Resting}] /\ work'[j] = Resting
        /\ \A k \in Job : k # j => work'[k] = work[k]
    BY <1>1, WorkPut DEF TalkInv
  <1>8. \A k \in Job : work'[k].at \in {"insert", "anchor", "gather", "notify"} => k # j /\ work'[k] = work[k]
    BY <1>7, AtRest
  <1>9. Living' = Living /\ Strands' \subseteq Strands
    BY <1>1, <1>8 DEF Living, Strands
  <1> HIDE DEF c
  <1>10. TalkTypeInv'
    BY <1>1, <1>3, <1>4, <1>7, <1>9 DEF TalkInv, TalkTypeInv, Comments, Writes
  <1>11. StrandsInv'
    BY <1>1, <1>8, <1>9, StrandsKept DEF TalkInv
  <1>12. PlacedInv'
    <2>1. \A k \in Job : Placed(k)' => Placed(k) /\ k # j /\ work'[k] = work[k] /\ work[k].id # c
      BY <1>2, <1>8 DEF Placed, TalkInv, PlacedInv, c
    <2>2. \A k, l \in Job : Placed(k)' /\ Placed(l)' /\ work'[k].id = work'[l].id => k = l
      BY <2>1 DEF TalkInv, PlacedInv
    <2>3. ASSUME NEW k \in Job, Placed(k)'
          PROVE  LET v == work'[k]
                 IN  /\ v.id \in DOMAIN comments' /\ v.id \notin told'
                     /\ \A m \in notes' : m.about # v.id
                     /\ v.id \in Living' => /\ comments'[v.id].author = v.user /\ comments'[v.id].page = v.page
                                            /\ comments'[v.id].mentioned = v.mentioned
                                            /\ comments'[v.id].reply = (v.parent # NoRoot)
      <3>1. work'[k] = work[k] /\ work[k].id # c /\ Placed(k)
        BY <2>1, <2>3
      <3>2. /\ work[k].id \in DOMAIN comments /\ work[k].id \notin told
            /\ \A m \in notes : m.about # work[k].id
            /\ work[k].id \in Living => /\ comments[work[k].id].author = work[k].user
                                       /\ comments[work[k].id].page = work[k].page
                                       /\ comments[work[k].id].mentioned = work[k].mentioned
                                       /\ comments[work[k].id].reply = (work[k].parent # NoRoot)
        BY <3>1, Zenon DEF TalkInv, PlacedInv
      <3>3. work[k].id \notin told' /\ \A m \in notes' : m.about # work[k].id
        BY <1>1, <1>3, <1>5, <3>1, <3>2
      <3>4. comments' = comments
        BY <1>1
      <3> QED BY <1>9, <3>1, <3>2, <3>3, <3>4, Zenon
    <2>4. ASSUME NEW k \in Job, work'[k].at = "anchor"
          PROVE  /\ work'[k].parent = NoRoot
                 /\ work'[k].id \in Living' => comments'[work'[k].id].thread = Placeholder
      <3>1. work'[k] = work[k]
        BY <1>8, <2>4
      <3> QED BY <1>1, <1>9, <2>4, <3>1 DEF TalkInv, PlacedInv
    <2>5. \A k \in Job : work'[k].at = "insert" /\ work'[k].parent = NoRoot => work'[k].thread = Placeholder
      BY <1>8 DEF TalkInv, PlacedInv
    <2> QED BY <2>2, <2>3, <2>4, <2>5 DEF PlacedInv, Placeholder
  <1>13. \A d, u : Hears(d, u)' <=> Hears(d, u)
    BY <1>1, <1>9 DEF Hears
  <1>14. GatheredInv'
    <2>1. ASSUME NEW k \in Job, work'[k].at = "notify", NEW d, d = work'[k].id
          PROVE  /\ \A m \in work'[k].told : m.about = d
                 /\ \A m, n \in work'[k].told : m.to = n.to => m = n
                 /\ d \in Living' => \A u \in Reader : Hears(d, u)' => \E m \in work'[k].told : m.to = u
      <3>1. work'[k] = work[k]
        BY <1>8, <2>1
      <3>2. /\ \A m \in work[k].told : m.about = d
            /\ \A m, n \in work[k].told : m.to = n.to => m = n
            /\ d \in Living => \A u \in Reader : Hears(d, u) => \E m \in work[k].told : m.to = u
        BY <2>1, <3>1 DEF TalkInv, GatheredInv
      <3> QED BY <1>9, <1>13, <3>1, <3>2
    <2> QED BY <2>1, SMT DEF GatheredInv, Hears
  <1>15. LevelInv'
    BY <1>1 DEF TalkInv, LevelInv, Reads
  <1>16. SentInv'
    <2>1. \A m \in notes' : m.about \in DOMAIN comments'
      BY <1>1, <1>3, <1>4, <1>5 DEF TalkInv, SentInv
    <2>2. \A m, n \in notes' : m.to = n.to /\ m.about = n.about => m = n
      BY <1>1, <1>3, <1>4, <1>5 DEF TalkInv, SentInv
    <2>3. ASSUME NEW d \in told' \cap Living', NEW u \in Reader, Hears(d, u)', <<u,
                 comments'[d].page>> \notin lost'
          PROVE  \E m \in notes' : m.to = u /\ m.about = d
      <3>1. d \in Living /\ Hears(d, u) /\ <<u, comments[d].page>> \notin lost
        BY <1>1, <1>9, <1>13, <2>3
      <3>2. CASE d = c
        <4>1. PICK m \in w.told : m.to = u
          BY <1>5, <3>1, <3>2
        <4>2. m \in S /\ m.about = c
          BY <1>4, <1>5, <1>6, <3>1, <3>2, <4>1
        <4> QED BY <1>1, <3>2, <4>1, <4>2
      <3>3. CASE d # c
        BY <1>1, <2>3, <3>1, <3>3 DEF TalkInv, SentInv
      <3> QED BY <3>2, <3>3
    <2> QED BY <2>1, <2>2, <2>3 DEF SentInv
  <1>17. RootsInv'
    <2>1. ASSUME NEW d \in Living \ split, comments[d].thread = Placeholder
          PROVE  \E k \in Job : work'[k].at = "anchor" /\ work'[k].id = d
      <3>1. PICK k \in Job : work[k].at = "anchor" /\ work[k].id = d
        BY <2>1 DEF TalkInv, RootsInv
      <3>2. k # j
        BY <1>1, <3>1
      <3> QED BY <1>7, <3>1, <3>2
    <2> QED BY <1>1, <1>9, <2>1 DEF RootsInv, Placeholder
  <1>18. ThreadInv'
    <2>1. \A k \in Job : work'[k].at = "gather" => work'[k] = work[k]
      BY <1>7, AtRest
    <2> QED BY <1>1, <1>9, <2>1 DEF TalkInv, ThreadInv
  <1> QED BY <1>10, <1>11, <1>12, <1>14, <1>15, <1>16, <1>17, <1>18 DEF TalkInv

-----------------------------------------------------------------------------
(* The theorems                                                            *)

\* Nobody has said anything at first.
LEMMA TalkStart == TalkInit => TalkInv
  <1> SUFFICES ASSUME TalkInit PROVE TalkInv
    OBVIOUS
  <1>1. /\ comments = <<>> /\ DOMAIN comments = {} /\ notes = {} /\ told = {}
        /\ level \in [Reader \X Page -> {Comments}] /\ work = [j \in Job |-> Resting]
    BY DEF TalkInit
  <1>2. Living = {} /\ \A j \in Job : work[j].at = "idle"
    BY <1>1, AtRest DEF Living
  <1>3. Strands = {}
    BY <1>2 DEF Strands
  <1>4. TalkTypeInv
    BY <1>1, <1>2, EmptySeq DEF TalkTypeInv
  <1>5. StrandsInv /\ PlacedInv /\ GatheredInv
    BY <1>2, <1>3 DEF StrandsInv, PlacedInv, Placed, GatheredInv
  <1>6. LevelInv
    BY <1>1 DEF LevelInv, Reads, Comments
  <1>7. SentInv /\ RootsInv /\ ThreadInv
    BY <1>1, <1>2 DEF SentInv, RootsInv, ThreadInv
  <1> QED BY <1>4, <1>5, <1>6, <1>7 DEF TalkInv

\* Every step keeps the invariant.
LEMMA TalkStep == TalkInv /\ [TalkNext]_talkVars => TalkInv'
  <1> SUFFICES ASSUME TalkInv, [TalkNext]_talkVars
               PROVE  TalkInv'
    OBVIOUS
  <1>1. ASSUME NEW j \in Job, Post(j) \/ Insert(j) \/ Anchor(j) \/ Gather(j) \/ Notify(j) \/ BreakOff(j)
        PROVE  TalkInv'
    BY <1>1, PostKeeps, InsertKeeps, AnchorKeeps, GatherKeeps, NotifyKeeps, BreakOffKeeps
  <1>2. CASE ResolveThread \/ RemoveComment \/ MarkRead \/ Regrade
    BY <1>2, ResolveThreadKeeps, RemoveCommentKeeps, MarkReadKeeps, RegradeKeeps
  <1>3. CASE UNCHANGED talkVars
    BY <1>3, StutterKeeps
  <1> QED BY <1>1, <1>2, <1>3, Zenon DEF TalkNext

\* The invariant of comments and notifications, in every reachable state
\* (comments.service create and fanOutNotifications, notifications.service).
THEOREM TalkInvariant == TalkSpec => []TalkInv
  <1>1. TalkInit => TalkInv
    BY TalkStart
  <1>2. TalkInv /\ [TalkNext]_talkVars => TalkInv'
    BY TalkStep
  <1> QED BY <1>1, <1>2, PTL DEF TalkSpec

\* The invariant says what a thread promises.
LEMMA ThreadsTold == TalkInv => ThreadsTell
  <1> SUFFICES ASSUME TalkInv PROVE ThreadsTell
    OBVIOUS
  <1>1. ASSUME NEW c \in Living, NEW d \in Living,
               comments[c].thread = comments[d].thread, comments[c].thread # Placeholder
        PROVE  comments[c].page = comments[d].page
    <2> DEFINE s == <<comments[c].thread, comments[c].page>>
               t == <<comments[d].thread, comments[d].page>>
    <2>1. s \in Strands /\ t \in Strands
      BY DEF Strands
    <2>2. s[1] = t[1] /\ s[1] # Placeholder /\ s[2] = comments[c].page /\ t[2] = comments[d].page
      BY <1>1
    <2> HIDE DEF s, t
    <2> QED BY <2>1, <2>2 DEF TalkInv, StrandsInv
  <1>2. \A c \in Living \ split : comments[c].thread = Placeholder =>
          \E j \in Job : work[j].at = "anchor" /\ work[j].id = c
    BY DEF TalkInv, RootsInv
  <1>3. \A m, n \in notes : m.to = n.to /\ m.about = n.about => m = n
    BY DEF TalkInv, SentInv
  <1>4. ASSUME NEW c \in told \cap Living, NEW u \in Reader,
               u # comments[c].author, <<u, comments[c].page>> \notin lost,
               \/ u \in comments[c].mentioned
               \/ \E d \in Living : d < c /\ comments[d].author = u /\ comments[c].reply
                                      /\ comments[d].thread = comments[c].thread
        PROVE  \E m \in notes : m.to = u /\ m.about = c
    <2>1. Hears(c, u)
      BY <1>4 DEF Hears
    <2> QED BY <1>4, <2>1 DEF TalkInv, SentInv
  <1> QED BY <1>1, <1>2, <1>3, <1>4 DEF ThreadsTell

\* A thread holds together and tells its participants: it is on one page, only a
\* request that broke off leaves a comment in no thread, and when a comment's
\* request has ended everyone mentioned in it or with an earlier comment in its
\* thread has exactly one notification of it, the author and who lost access
\* aside (comments.service create, notifications.service fanOutNotifications).
THEOREM ThreadsAlwaysTell == TalkSpec => []ThreadsTell
  BY TalkInvariant, ThreadsTold, PTL

----------------------------------------------------------------------------
(* Published pages. *)

Publishing == [page : Pages, wanted : Slug \cup {None}, html : SUBSET Allowed, subpages : BOOLEAN,
               base : Slug, number : Nat, at : {"probe", "write"}, slug : Slug \cup {None}]
Visit == [at : {"walk", "list", "shown"}, page : Pages, html : SUBSET Allowed,
          level : SUBSET Pages, found : SUBSET Pages, listed : SUBSET Pages]

\* Shares and requests keep their types, each with what the allow-list keeps.
SharesOK == share \in [Pages -> Share \cup {None}]
PublishOK ==
  /\ publish \in [Publisher -> Publishing \cup {Asleep}]
  /\ \A r \in Publisher : publish[r].at = "write" => publish[r].slug \in Slug

\* No two pages have one address.
OneOwner == \A p, q \in Pages : Shared(p) /\ Shared(q) /\ share[p].slug = share[q].slug => p = q

\* One publish at a time of a page that no two ran for at once.
Publishes(r, p) == publish[r] # Asleep /\ publish[r].page = p
AloneInv ==
  \A p \in Pages \ overlapped : \A r, s \in Publisher : Publishes(r, p) /\ Publishes(s, p) => r = s

\* It keeps the page's address, or was asked for another, and what it has found
\* then begins with the word of it.
Renames(r, p) == publish[r].wanted # None /\ publish[r].wanted # share[p].slug
DoesAsAsked(r) ==
  /\ publish[r].at = "probe" /\ publish[r].wanted # None => publish[r].base = publish[r].wanted
  /\ \A p \in Pages \ overlapped : Publishes(r, p) /\ Shared(p) =>
       /\ publish[r].at = "probe" => Renames(r, p)
       /\ publish[r].at = "write" /\ publish[r].slug # share[p].slug =>
            Renames(r, p) /\ Head(publish[r].slug) = Head(publish[r].wanted)
AskedInv == \A r \in Publisher : publish[r] # Asleep => DoesAsAsked(r)

\* A visitor's walk finds the parents of what it finds.
VisitInv ==
  /\ visit \in Visit \cup {Asleep}
  /\ visit # Asleep =>
       /\ visit.level \subseteq visit.found \cup {visit.page}
       /\ \A q \in visit.found : ParentOf[q] \in visit.found \cup {visit.page}
       /\ visit.listed \subseteq visit.found

PublicInv == SharesOK /\ PublishOK /\ OneOwner /\ AloneInv /\ AskedInv /\ VisitInv

LEMMA FirstPublic == PublicInit => PublicInv
<1> SUFFICES ASSUME PublicInit PROVE PublicInv
  OBVIOUS
<1>1. /\ share = [p \in Pages |-> None] /\ publish = [r \in Publisher |-> Asleep] /\ visit = Asleep
      /\ overlapped = {}
  BY DEF PublicInit
<1>2. Asleep.at = "idle"
  BY DEF Asleep
<1>3. SharesOK /\ OneOwner
  BY <1>1 DEF SharesOK, OneOwner, Shared
<1>4. PublishOK /\ AloneInv /\ AskedInv
  BY <1>1, <1>2 DEF PublishOK, AloneInv, AskedInv, DoesAsAsked, Publishes
<1>5. VisitInv
  BY <1>1 DEF VisitInv
<1> QED
  BY <1>3, <1>4, <1>5 DEF PublicInv

LEMMA Awake == \A x \in Publishing \cup Visit : x # Asleep /\ x.at # "idle"
BY DEF Publishing, Visit, Asleep

\* A number at the end leaves the word at the front.
LEMMA WordStays == ASSUME NEW s \in Slug, NEW n \in Nat
                   PROVE  Append(s, n) \in Slug /\ Head(Append(s, n)) = Head(s)
BY DEF Slug

LEMMA PublishStep == ASSUME PublicInv, NEW r \in Publisher, Publish(r) PROVE PublicInv'
<1> PICK p \in Pages, wanted \in Wanted, subpages \in BOOLEAN, html \in {Elements} :
      LET base == IF wanted # None THEN wanted ELSE <<TitleWord>>
          fresh == NeedsNewSlug(wanted, share[p])
          rivals == {q \in Publisher \ {r} : publish[q] # Asleep /\ publish[q].page = p}
      IN  /\ publish[r] = Asleep /\ publishes < MaxPublishes
          /\ publishes' = publishes + 1
          /\ publish' = [publish EXCEPT ![r] =
               [page |-> p, wanted |-> wanted, html |-> Sanitize(html), subpages |-> subpages, base |-> base,
                number |-> 1, at |-> IF fresh THEN "probe" ELSE "write",
                slug |-> IF fresh THEN None ELSE share[p].slug]]
          /\ overlapped' = IF rivals # {} THEN overlapped \cup {p} ELSE overlapped
          /\ UNCHANGED <<share, archived, visit>>
  BY DEF Publish
<1> DEFINE base == IF wanted # None THEN wanted ELSE <<TitleWord>>
<1> DEFINE fresh == NeedsNewSlug(wanted, share[p])
<1> DEFINE new == [page |-> p, wanted |-> wanted, html |-> Sanitize(html), subpages |-> subpages,
                   base |-> base, number |-> 1, at |-> IF fresh THEN "probe" ELSE "write",
                   slug |-> IF fresh THEN None ELSE share[p].slug]
<1>1. publish' = [publish EXCEPT ![r] = new] /\ publish[r] = Asleep /\ UNCHANGED <<share, visit>>
  OBVIOUS
<1>2. /\ overlapped \subseteq overlapped'
      /\ \A q \in Publisher \ {r} : publish[q] # Asleep /\ publish[q].page = p => p \in overlapped'
  OBVIOUS
<1>3. ~fresh => Shared(p) /\ (wanted # None => wanted = share[p].slug)
  BY DEF NeedsNewSlug, Shared
<1>4. fresh /\ Shared(p) => wanted # None /\ wanted # share[p].slug
  BY DEF NeedsNewSlug, Shared
<1>5. \A q \in Pages : Shared(q) => share[q] \in Share
  BY DEF PublicInv, SharesOK, Shared
<1>6. wanted \in Slug \cup {None}
  <2>1. Slugs \subseteq Slug
    <3>1. ASSUME NEW w \in Words PROVE <<w>> \in Slug
      BY DEF Slug
    <3> QED
      BY <3>1 DEF Slugs
  <2>2. \A q \in Pages : Shared(q) => share[q].slug \in Slug
    BY <1>5 DEF Share
  <2> QED
    BY <2>1, <2>2 DEF Wanted
<1>7. base \in Slug
  <2>1. <<TitleWord>> \in Slug
    BY DEF Slug
  <2> QED
    BY <1>6, <2>1
<1>8. share[p].slug \in Slug \/ fresh
  BY <1>3, <1>5 DEF Share
<1>9. new \in Publishing /\ (new.at = "write" => new.slug \in Slug)
  <2>1. Sanitize(html) \in SUBSET Allowed
    BY DEF Sanitize
  <2> HIDE DEF base, fresh
  <2> QED
    BY <1>6, <1>7, <1>8, <2>1 DEF Publishing
<1>10. /\ new.page = p /\ new.wanted = wanted /\ new.base = base
       /\ new.at = (IF fresh THEN "probe" ELSE "write") /\ new.slug = (IF fresh THEN None ELSE share[p].slug)
  OBVIOUS
<1>11. wanted # None => base = wanted
  OBVIOUS
<1> HIDE DEF new, base, fresh
<1>12. /\ publish'[r] = new /\ \A q \in Publisher \ {r} : publish'[q] = publish[q]
       /\ publish' \in [Publisher -> Publishing \cup {Asleep}]
  BY <1>1, <1>9 DEF PublicInv, PublishOK
<1>13. PublishOK'
  BY <1>9, <1>12 DEF PublicInv, PublishOK
<1>14. SharesOK' /\ OneOwner'
  BY <1>1 DEF PublicInv, SharesOK, OneOwner, Shared
<1>15. VisitInv'
  BY <1>1 DEF PublicInv, VisitInv
<1>16. AloneInv'
  BY <1>2, <1>10, <1>12 DEF PublicInv, AloneInv, Publishes
<1>17. AskedInv'
  <2> SUFFICES ASSUME NEW q \in Publisher, publish'[q] # Asleep
               PROVE  DoesAsAsked(q)'
    BY DEF AskedInv
  <2>1. CASE q = r
    BY <1>1, <1>3, <1>4, <1>10, <1>11, <1>12, <2>1 DEF DoesAsAsked, Publishes, Renames, Shared
  <2>2. CASE q # r
    BY <1>1, <1>2, <1>12, <2>2 DEF PublicInv, AskedInv, DoesAsAsked, Publishes, Renames, Shared
  <2> QED
    BY <2>1, <2>2
<1> QED
  BY <1>13, <1>14, <1>15, <1>16, <1>17 DEF PublicInv

\* A step of a request that leaves the shares alone and the others where they are.
LEMMA OneMoves ==
  ASSUME PublicInv, NEW r \in Publisher, NEW j \in Publishing, publish[r] # Asleep,
         publish' = [publish EXCEPT ![r] = j], UNCHANGED <<share, visit, overlapped>>,
         j.page = publish[r].page, j.wanted = publish[r].wanted,
         j.at = "write" => j.slug \in Slug,
         j.at = "probe" => publish[r].at = "probe" /\ j.base = publish[r].base,
         j.at = "write" => publish[r].at = "probe" /\
                           (j.wanted # None => Head(j.slug) = Head(j.wanted))
  PROVE  PublicInv'
<1>1. /\ publish'[r] = j /\ \A q \in Publisher \ {r} : publish'[q] = publish[q]
      /\ publish' \in [Publisher -> Publishing \cup {Asleep}]
  BY DEF PublicInv, PublishOK
<1>2. PublishOK'
  BY <1>1 DEF PublicInv, PublishOK
<1>3. SharesOK' /\ OneOwner'
  BY DEF PublicInv, SharesOK, OneOwner, Shared
<1>4. VisitInv'
  BY DEF PublicInv, VisitInv
<1>5. AloneInv'
  BY <1>1 DEF PublicInv, AloneInv, Publishes
<1>6. AskedInv'
  <2> SUFFICES ASSUME NEW q \in Publisher, publish'[q] # Asleep
               PROVE  DoesAsAsked(q)'
    BY DEF AskedInv
  <2>1. CASE q = r
    BY <1>1, <2>1 DEF PublicInv, AskedInv, DoesAsAsked, Publishes, Renames, Shared
  <2>2. CASE q # r
    BY <1>1, <2>2 DEF PublicInv, AskedInv, DoesAsAsked, Publishes, Renames, Shared
  <2> QED
    BY <2>1, <2>2
<1> QED
  BY <1>2, <1>3, <1>4, <1>5, <1>6 DEF PublicInv

LEMMA ProbeStep == ASSUME PublicInv, NEW r \in Publisher, Probe(r) PROVE PublicInv'
<1>1. publish[r].at = "probe"
  BY DEF Probe
<1>2. publish[r] \in Publishing /\ publish[r] # Asleep
  BY <1>1 DEF PublicInv, PublishOK, Asleep
<1>3. PICK c : c = Candidate(r)
  OBVIOUS
<1>4. c \in Slug /\ Head(c) = Head(publish[r].base)
  BY <1>2, <1>3, WordStays DEF Candidate, Publishing
<1>5. publish[r].wanted # None => publish[r].base = publish[r].wanted
  BY <1>1, <1>2 DEF PublicInv, AskedInv, DoesAsAsked
<1>6. CASE OwnerOf(c) \subseteq {publish[r].page}
  <2> DEFINE j == [publish[r] EXCEPT !.slug = c, !.at = "write"]
  <2>1. publish' = [publish EXCEPT ![r] = j] /\ UNCHANGED <<share, visit, overlapped>>
    BY <1>3, <1>6 DEF Probe
  <2>2. /\ j \in Publishing /\ j.page = publish[r].page /\ j.wanted = publish[r].wanted
        /\ j.at = "write" /\ j.slug = c
    BY <1>2, <1>4 DEF Publishing
  <2> HIDE DEF j
  <2> QED
    BY <1>1, <1>2, <1>4, <1>5, <2>1, <2>2, OneMoves
<1>7. CASE ~(OwnerOf(c) \subseteq {publish[r].page})
  <2> DEFINE j == [publish[r] EXCEPT !.number = publish[r].number + 1]
  <2>1. publish' = [publish EXCEPT ![r] = j] /\ UNCHANGED <<share, visit, overlapped>>
    BY <1>3, <1>7 DEF Probe
  <2>2. /\ j \in Publishing /\ j.page = publish[r].page /\ j.wanted = publish[r].wanted
        /\ j.at = "probe" /\ j.base = publish[r].base
    BY <1>1, <1>2 DEF Publishing
  <2> HIDE DEF j
  <2> QED
    BY <1>1, <1>2, <2>1, <2>2, OneMoves
<1> QED
  BY <1>6, <1>7

\* What a write leaves: the page has the request's address if no other has it.
LEMMA Written ==
  ASSUME PublicInv, NEW r \in Publisher, WriteShare(r)
  PROVE  \E p \in Pages, x \in Share :
           /\ p = publish[r].page /\ x.slug = publish[r].slug
           /\ publish[r] \in Publishing /\ publish[r].at = "write"
           /\ publish' = [publish EXCEPT ![r] = Asleep] /\ UNCHANGED <<visit, overlapped>>
           /\ \/ share' = share
              \/ OwnerOf(x.slug) \subseteq {p} /\ share' = [share EXCEPT ![p] = x]
<1>1. publish[r] \in Publishing /\ publish[r].at = "write" /\ publish[r].slug \in Slug
  BY DEF WriteShare, PublicInv, PublishOK, Asleep
<1> DEFINE x == [slug |-> publish[r].slug, published |-> TRUE,
                 html |-> publish[r].html, subpages |-> publish[r].subpages]
<1>2. x \in Share /\ publish[r].page \in Pages
  BY <1>1 DEF Share, Publishing
<1>3. x.slug = publish[r].slug
  OBVIOUS
<1>4. share' = IF OwnerOf(publish[r].slug) \subseteq {publish[r].page}
                THEN [share EXCEPT ![publish[r].page] = x] ELSE share
  BY DEF WriteShare
<1>5. publish' = [publish EXCEPT ![r] = Asleep] /\ UNCHANGED <<visit, overlapped>>
  BY DEF WriteShare
<1> HIDE DEF x
<1> QED
  BY <1>1, <1>2, <1>3, <1>4, <1>5

LEMMA WriteStep == ASSUME PublicInv, NEW r \in Publisher, WriteShare(r) PROVE PublicInv'
<1>1. PICK p \in Pages, x \in Share :
           /\ p = publish[r].page /\ x.slug = publish[r].slug
           /\ publish[r] \in Publishing /\ publish[r].at = "write"
           /\ publish' = [publish EXCEPT ![r] = Asleep] /\ UNCHANGED <<visit, overlapped>>
           /\ \/ share' = share
              \/ OwnerOf(x.slug) \subseteq {p} /\ share' = [share EXCEPT ![p] = x]
  BY Written
<1>2. /\ publish'[r] = Asleep /\ \A q \in Publisher \ {r} : publish'[q] = publish[q]
      /\ publish' \in [Publisher -> Publishing \cup {Asleep}]
  BY <1>1 DEF PublicInv, PublishOK
<1>3. Asleep.at = "idle"
  BY DEF Asleep
<1>4. PublishOK'
  BY <1>2, <1>3 DEF PublicInv, PublishOK
<1>5. SharesOK' /\ \A q \in Pages \ {p} : share'[q] = share[q]
  BY <1>1 DEF PublicInv, SharesOK
<1>6. OneOwner'
  <2>1. CASE share' = share
    BY <2>1 DEF PublicInv, OneOwner, Shared
  <2>2. CASE OwnerOf(x.slug) \subseteq {p} /\ share' = [share EXCEPT ![p] = x]
    <3>1. share'[p] = x
      BY <2>2 DEF PublicInv, SharesOK
    <3>2. \A q \in Pages : Shared(q) /\ share[q].slug = x.slug => q = p
      BY <2>2 DEF OwnerOf
    <3> QED
      BY <1>5, <3>1, <3>2 DEF PublicInv, OneOwner, Shared
  <2> QED
    BY <1>1, <2>1, <2>2
<1>7. VisitInv'
  BY <1>1 DEF PublicInv, VisitInv
<1>8. AloneInv'
  BY <1>1, <1>2 DEF PublicInv, AloneInv, Publishes
<1>9. AskedInv'
  <2> SUFFICES ASSUME NEW q \in Publisher, publish'[q] # Asleep
               PROVE  DoesAsAsked(q)'
    BY DEF AskedInv
  <2>1. q # r /\ publish'[q] = publish[q]
    BY <1>2
  <2>2. \A u \in Pages \ overlapped : Publishes(q, u) => u # p
    <3>1. publish[r] # Asleep
      BY <1>1, Awake
    <3> QED
      BY <1>1, <2>1, <3>1 DEF PublicInv, AloneInv, Publishes
  <2> QED
    BY <1>1, <1>5, <2>1, <2>2 DEF PublicInv, AskedInv, DoesAsAsked, Publishes, Renames, Shared
<1> QED
  BY <1>4, <1>5, <1>6, <1>7, <1>8, <1>9 DEF PublicInv

\* Addresses are the same, if not what is shown there.
LEMMA SameAddresses ==
  ASSUME PublicInv, UNCHANGED <<publish, visit, overlapped>>, SharesOK',
         \A p \in Pages : (Shared(p)' <=> Shared(p)) /\ (Shared(p) => share'[p].slug = share[p].slug)
  PROVE  PublicInv'
<1>1. PublishOK' /\ AloneInv'
  BY DEF PublicInv, PublishOK, AloneInv, Publishes
<1>2. VisitInv'
  BY DEF PublicInv, VisitInv
<1>3. OneOwner'
  BY DEF PublicInv, OneOwner
<1>4. AskedInv'
  BY DEF PublicInv, AskedInv, DoesAsAsked, Publishes, Renames
<1> QED
  BY <1>1, <1>2, <1>3, <1>4 DEF PublicInv

LEMMA UnpublishStep == PublicInv /\ Unpublish => PublicInv'
<1> SUFFICES ASSUME PublicInv, Unpublish PROVE PublicInv'
  OBVIOUS
<1>1. PICK p \in Pages : /\ Shared(p) /\ share' = [share EXCEPT ![p].published = FALSE]
                         /\ UNCHANGED <<archived, publish, publishes, visit, overlapped>>
  BY DEF Unpublish
<1>2. share[p] \in Share /\ share \in [Pages -> Share \cup {None}]
  BY <1>1 DEF PublicInv, SharesOK, Shared
<1> DEFINE x == [share[p] EXCEPT !.published = FALSE]
<1>3. x \in Share /\ x.slug = share[p].slug
  BY <1>2 DEF Share
<1>4. share' = [share EXCEPT ![p] = x]
  BY <1>1
<1> HIDE DEF x
<1>5. x # None
  BY <1>3, PublicAssumption
<1>6. SharesOK' /\ \A q \in Pages : share'[q] = IF q = p THEN x ELSE share[q]
  BY <1>2, <1>3, <1>4 DEF SharesOK
<1> QED
  BY <1>1, <1>3, <1>5, <1>6, SameAddresses DEF Shared

\* Visits are the only ones that change.
LEMMA VisitKeeps ==
  ASSUME PublicInv, UNCHANGED <<share, publish, overlapped>>, VisitInv'
  PROVE  PublicInv'
BY DEF PublicInv, SharesOK, PublishOK, OneOwner, AloneInv, AskedInv, DoesAsAsked, Publishes,
   Renames, Shared

LEMMA VisitStep ==
  PublicInv /\ (ReadShare \/ WalkDown \/ ListShares \/ Leave) => PublicInv'
<1> SUFFICES ASSUME PublicInv, ReadShare \/ WalkDown \/ ListShares \/ Leave PROVE PublicInv'
  OBVIOUS
<1>0. UNCHANGED <<share, publish, overlapped>>
  BY DEF ReadShare, WalkDown, ListShares, Leave
<1> SUFFICES VisitInv'
  BY <1>0, VisitKeeps
<1>1. CASE ReadShare
  <2>1. PICK p \in Pages :
          /\ Shared(p)
          /\ visit' = [at |-> IF share[p].subpages THEN "walk" ELSE "shown", page |-> p,
                       html |-> share[p].html, level |-> {p}, found |-> {}, listed |-> {}]
    BY <1>1 DEF ReadShare
  <2>2. share[p].html \in SUBSET Allowed
    BY <2>1 DEF PublicInv, SharesOK, Shared, Share
  <2> QED
    BY <2>1, <2>2 DEF VisitInv, Visit
<1>2. CASE WalkDown
  <2>1. visit.at = "walk" /\ visit \in Visit /\ visit # Asleep
    BY <1>2, Awake DEF WalkDown, PublicInv, VisitInv, Asleep
  <2>2. PICK next \in SUBSET Pages :
          /\ next = ChildrenOf(visit.level)
          /\ visit' = [visit EXCEPT !.level = next, !.found = visit.found \cup next,
                                    !.at = IF next = {} THEN "list" ELSE "walk"]
    BY <1>2 DEF WalkDown, ChildrenOf
  <2>3. \A q \in next : ParentOf[q] \in visit.found \cup {visit.page}
    BY <2>1, <2>2 DEF ChildrenOf, PublicInv, VisitInv
  <2>4. /\ visit' \in Visit /\ visit'.level = next /\ visit'.found = visit.found \cup next
        /\ visit'.page = visit.page /\ visit'.listed = visit.listed
    BY <2>1, <2>2 DEF Visit
  <2> QED
    BY <2>1, <2>3, <2>4 DEF PublicInv, VisitInv
<1>3. CASE ListShares
  <2>1. visit.at = "list" /\ visit \in Visit /\ visit # Asleep
    BY <1>3, Awake DEF ListShares, PublicInv, VisitInv, Asleep
  <2>2. PICK some \in SUBSET visit.found : visit' = [visit EXCEPT !.at = "shown", !.listed = some]
    BY <1>3 DEF ListShares
  <2>3. /\ visit' \in Visit /\ visit'.level = visit.level /\ visit'.found = visit.found
        /\ visit'.page = visit.page /\ visit'.listed = some
    BY <2>1, <2>2 DEF Visit
  <2> QED
    BY <2>1, <2>3 DEF PublicInv, VisitInv
<1>4. CASE Leave
  BY <1>4 DEF Leave, VisitInv
<1> QED
  BY <1>1, <1>2, <1>3, <1>4

LEMMA PublicStep == PublicInv /\ [PublicNext]_publicVars => PublicInv'
<1> SUFFICES ASSUME PublicInv, [PublicNext]_publicVars PROVE PublicInv'
  OBVIOUS
<1>1. CASE Archive
  <2>1. UNCHANGED <<share, publish, visit, overlapped>>
    BY <1>1 DEF Archive
  <2> QED
    BY <2>1, VisitKeeps DEF PublicInv, VisitInv
<1>2. CASE UNCHANGED publicVars
  <2>1. UNCHANGED <<share, publish, visit, overlapped>>
    BY <1>2 DEF publicVars
  <2> QED
    BY <2>1, VisitKeeps DEF PublicInv, VisitInv
<1> QED
  BY <1>1, <1>2, PublishStep, ProbeStep, WriteStep, UnpublishStep, VisitStep DEF PublicNext

\* What publishes, unpublishes, archives and visits in any order keep.
THEOREM PublicInvariant == PublicSpec => []PublicInv
  BY FirstPublic, PublicStep, PTL DEF PublicSpec

----------------------------------------------------------------------------
\* The four things AddressStays says of a step.
StepKeepsAddress ==
  \A p \in Pages : Shared(p) /\ p \notin overlapped =>
    share'[p] # None /\ (share'[p].slug # share[p].slug => \E r \in Publisher : Asked(r, p))

LEMMA OnlyAskedMove == PublicInv /\ [PublicNext]_publicVars => StepKeepsAddress
<1> SUFFICES ASSUME PublicInv, [PublicNext]_publicVars PROVE StepKeepsAddress
  OBVIOUS
<1>1. CASE share' = share
  BY <1>1 DEF StepKeepsAddress, Shared
<1>2. ASSUME NEW r \in Publisher, WriteShare(r) PROVE StepKeepsAddress
  <2>1. PICK p \in Pages, x \in Share :
           /\ p = publish[r].page /\ x.slug = publish[r].slug
           /\ publish[r] \in Publishing /\ publish[r].at = "write"
           /\ publish' = [publish EXCEPT ![r] = Asleep] /\ UNCHANGED <<visit, overlapped>>
           /\ \/ share' = share
              \/ OwnerOf(x.slug) \subseteq {p} /\ share' = [share EXCEPT ![p] = x]
    BY <1>2, Written
  <2>2. CASE OwnerOf(x.slug) \subseteq {p} /\ share' = [share EXCEPT ![p] = x]
    <3>1. /\ share'[p] = x /\ x # None
          /\ \A q \in Pages \ {p} : share'[q] = share[q]
      BY <2>2, PublicAssumption DEF PublicInv, SharesOK
    <3>2. ASSUME Shared(p), p \notin overlapped, x.slug # share[p].slug PROVE Asked(r, p)
      <4>1. publish[r] # Asleep
        BY <2>1, Awake
      <4>2. Renames(r, p) /\ Head(publish[r].slug) = Head(publish[r].wanted)
        BY <2>1, <3>2, <4>1 DEF PublicInv, AskedInv, DoesAsAsked, Publishes
      <4> QED
        BY <2>1, <3>1, <4>2 DEF Asked, Renames
    <3> QED
      BY <3>1, <3>2 DEF StepKeepsAddress, Shared
  <2> QED
    BY <1>1, <2>1, <2>2
<1>3. CASE Unpublish
  <2>1. PICK p \in Pages : Shared(p) /\ share' = [share EXCEPT ![p].published = FALSE]
    BY <1>3 DEF Unpublish
  <2>2. share[p] \in Share /\ share \in [Pages -> Share \cup {None}]
    BY <2>1 DEF PublicInv, SharesOK, Shared
  <2> DEFINE x == [share[p] EXCEPT !.published = FALSE]
  <2>3. x \in Share /\ x.slug = share[p].slug
    BY <2>2 DEF Share
  <2>4. share' = [share EXCEPT ![p] = x]
    BY <2>1
  <2> HIDE DEF x
  <2>5. x # None
    BY <2>3, PublicAssumption
  <2> QED
    BY <2>2, <2>3, <2>4, <2>5 DEF StepKeepsAddress, Shared
<1>4. ASSUME NEW r \in Publisher, Publish(r) \/ Probe(r) PROVE share' = share
  BY <1>4 DEF Publish, Probe
<1>5. Archive \/ ReadShare \/ WalkDown \/ ListShares \/ Leave \/ UNCHANGED publicVars => share' = share
  BY DEF Archive, ReadShare, WalkDown, ListShares, Leave, publicVars
<1> QED
  BY <1>1, <1>2, <1>3, <1>4, <1>5 DEF PublicNext

\* A page is below none that are below it.
LEMMA FoundElsewhere == VisitInv /\ visit # Asleep => visit.page \notin visit.found
<1> SUFFICES ASSUME VisitInv, visit # Asleep, visit.page \in visit.found PROVE FALSE
  OBVIOUS
<1>1. visit.found \in SUBSET Pages /\ visit.found # {}
  BY DEF VisitInv, Visit
<1>2. \A q \in visit.found : ParentOf[q] \in visit.found
  BY DEF VisitInv
<1> QED
  BY <1>1, <1>2, PublicAssumption

CleanAndApart ==
  /\ \A p, q \in Pages : Shared(p) /\ Shared(q) /\ share[p].slug = share[q].slug => p = q
  /\ \A p \in Pages : Shared(p) => share[p].html \subseteq Allowed
  /\ visit.at = "shown" => visit.html \subseteq Allowed /\ visit.page \notin visit.listed

LEMMA InvIsClean == PublicInv => CleanAndApart
<1> SUFFICES ASSUME PublicInv PROVE CleanAndApart
  OBVIOUS
<1>1. \A p \in Pages : Shared(p) => share[p].html \subseteq Allowed
  BY DEF PublicInv, SharesOK, Shared, Share
<1>2. visit.at = "shown" => visit \in Visit /\ visit # Asleep
  BY DEF PublicInv, VisitInv, Asleep
<1>3. visit.at = "shown" => visit.html \subseteq Allowed /\ visit.page \notin visit.listed
  BY <1>2, FoundElsewhere DEF PublicInv, VisitInv, Visit
<1> QED
  BY <1>1, <1>3 DEF PublicInv, OneOwner, CleanAndApart

\* An address that was given out stays with its page until a request names
\* another, no two pages have one, and what visitors are shown is of the
\* allow-list (publishing.service publish, uniqueSlug, sanitize).
THEOREM AddressesStay == PublicSpec => AddressStays
<1> DEFINE Kept ==
      /\ \A p \in Pages : Shared(p) /\ p \notin overlapped =>
           /\ share'[p] # None
           /\ share'[p].slug # share[p].slug => \E r \in Publisher : Asked(r, p)
      /\ \A p, q \in Pages : share'[p] # None /\ share'[q] # None /\ share'[p].slug = share'[q].slug => p = q
      /\ \A p \in Pages : share'[p] # None => share'[p].html \subseteq Allowed
      /\ visit'.at = "shown" => visit'.html \subseteq Allowed /\ visit'.page \notin visit'.listed
<1>1. StepKeepsAddress /\ CleanAndApart' => Kept
  BY DEF StepKeepsAddress, CleanAndApart, Shared
<1>2. PublicInv /\ PublicInv' /\ [PublicNext]_publicVars => [Kept]_publicVars
  <2>1. PublicInv' => CleanAndApart'
    BY InvIsClean, PTL
  <2> QED
    BY <1>1, <2>1, OnlyAskedMove
<1>3. AddressStays <=> [][Kept]_publicVars
  BY DEF AddressStays
<1> HIDE DEF Kept
<1> QED
  BY <1>2, <1>3, PublicInvariant, PTL DEF PublicSpec
=============================================================================
