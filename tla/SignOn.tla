------------------------------- MODULE SignOn -------------------------------
(***************************************************************************)
(* Sign-on through an identity provider (oidc.service, oidc.controller,    *)
(* OidcCallback).                                                          *)
(*                                                                         *)
(* A login is numbered when it begins: the number is its state and its     *)
(* nonce.  A browser keeps one transaction cookie for all its tabs.  The   *)
(* provider knows subjects, each with one verified address that may be     *)
(* given to another subject later; the code of a login can be exchanged    *)
(* once, for an identity with the nonce of that login.  The address of a   *)
(* callback, a state and a code, may be loaded in any browser.  A callback *)
(* goes query by query, interleaved with others and with local             *)
(* registrations.  The table of users refuses a second user with an        *)
(* address or a subject.                                                   *)
(***************************************************************************)
EXTENDS Naturals, Sequences

CONSTANTS Browser, Subject, Email, MaxLogins, MaxCallbacks, MaxOutside, NoOne

ASSUME SignOnAssumption == NoOne \notin Subject \cup Nat

VARIABLES users,                 \* <<[email, subject]>>, by id
          mailOf, outside,       \* the provider's addresses, how often something happened around it
          logins,                \* <<[browser, subject, spent]>>
          cookie, session,       \* of a browser: a login, a user
          callbacks,             \* the requests under way
          asked,                 \* how many callbacks there were
          issued,                \* <<login, subject, user, callback>> of every session that was issued
          relinked,              \* subjects whose account another subject took over
          disturbed, refused     \* logins whose cookie was touched, that were refused for it
accounts == <<users, issued, relinked>>
atProvider == <<mailOf, outside>>
inBrowser == <<logins, cookie, session, disturbed, refused>>
signOnVars == <<accounts, atProvider, inBrowser, callbacks, asked>>

SignOnInit ==
  /\ users = <<>>
  /\ mailOf \in [Subject -> Email] /\ (\A s, t \in Subject : mailOf[s] = mailOf[t] => s = t)
  /\ outside = 0
  /\ logins = <<>> /\ cookie = [b \in Browser |-> NoOne] /\ session = [b \in Browser |-> NoOne]
  /\ callbacks = {} /\ asked = 0
  /\ issued = {} /\ relinked = {} /\ disturbed = {} /\ refused = {}

-----------------------------------------------------------------------------
(* Around it: registration, the provider, time                             *)
WithEmail(e) == {u \in DOMAIN users : users[u].email = e}
WithSubject(s) == {u \in DOMAIN users : users[u].subject = s}
Outside == outside < MaxOutside /\ outside' = outside + 1
Register(e) ==
  /\ WithEmail(e) = {} /\ Outside
  /\ users' = Append(users, [email |-> e, subject |-> NoOne])
  /\ UNCHANGED <<issued, relinked, mailOf, inBrowser, callbacks, asked>>
\* An address moves to a subject that gives its own up.
MoveMail(s, e) ==
  /\ Outside
  /\ \A t \in Subject : mailOf[t] # e
  /\ mailOf' = [mailOf EXCEPT ![s] = e]
  /\ UNCHANGED <<accounts, inBrowser, callbacks, asked>>

LoginsOf(b) == {n \in DOMAIN logins : logins[n].browser = b}
\* The cookie and the transaction in it live for ten minutes.
Expire(b) ==
  /\ cookie[b] # NoOne /\ Outside
  /\ cookie' = [cookie EXCEPT ![b] = NoOne]
  /\ disturbed' = disturbed \cup LoginsOf(b)
  /\ UNCHANGED <<accounts, mailOf, logins, session, refused, callbacks, asked>>

-----------------------------------------------------------------------------
(* login and callback                                                      *)
BeginLogin(b) ==
  LET n == Len(logins) + 1
  IN  /\ Len(logins) < MaxLogins
      /\ logins' = Append(logins, [browser |-> b, subject |-> NoOne, spent |-> FALSE])
      /\ cookie' = [cookie EXCEPT ![b] = n]
      /\ disturbed' = disturbed \cup LoginsOf(b)
      /\ UNCHANGED <<accounts, atProvider, session, refused, callbacks, asked>>
\* The address the provider sends a browser to, with the state n and the code of
\* the login m in it, is loaded in the browser b; it may be loaded again.  The
\* cookie is what that browser sends along.
Return(b, n, m, s) ==
  /\ logins[m].subject \in {NoOne, s}
  /\ asked < MaxCallbacks /\ asked' = asked + 1
  /\ logins' = [logins EXCEPT ![m].subject = s]
  /\ callbacks' = callbacks \cup
       {[id |-> asked, browser |-> b, state |-> n, login |-> m, cookie |-> cookie[b],
         at |-> "check", email |-> NoOne, user |-> NoOne]}
  /\ UNCHANGED <<accounts, atProvider, cookie, session, disturbed, refused>>

Goes(c, d) == callbacks' = (callbacks \ {c}) \cup {d}
Ends(c) == callbacks' = callbacks \ {c}
\* The browser is the one that began the login of the state.
OwnReturn(c) == c.browser = logins[c.state].browser
\* readTransaction: the transaction of the cookie is the one of the state.
ReadTransaction(c) ==
  /\ c.at = "check"
  /\ IF c.cookie = c.state
     THEN Goes(c, [c EXCEPT !.at = "exchange"]) /\ UNCHANGED refused
     ELSE Ends(c) /\ refused' = refused \cup (IF OwnReturn(c) THEN {c.state} ELSE {})
  /\ UNCHANGED <<accounts, atProvider, logins, cookie, session, disturbed, asked>>
Exchanged(c) == Goes(c, [c EXCEPT !.at = "subject", !.email = mailOf[logins[c.login].subject]])
\* [The nonce is not compared.]
ExchangeCodeAnyNonce(c) ==
  /\ c.at = "exchange"
  /\ logins' = [logins EXCEPT ![c.login].spent = TRUE]
  /\ \/ ~logins[c.login].spent /\ Exchanged(c)
     \/ Ends(c)
  /\ UNCHANGED <<accounts, atProvider, cookie, session, disturbed, refused, asked>>
\* exchangeCode and verifyIdToken: the nonce of the identity is the cookie's; an
\* address that is not verified ends it.
ExchangeCode(c) ==
  /\ c.at = "exchange"
  /\ logins' = [logins EXCEPT ![c.login].spent = TRUE]
  /\ \/ ~logins[c.login].spent /\ c.login = c.cookie /\ Exchanged(c)
     \/ Ends(c)
  /\ UNCHANGED <<accounts, atProvider, cookie, session, disturbed, refused, asked>>

-----------------------------------------------------------------------------
(* upsertUser                                                              *)
SubjectOf(c) == logins[c.login].subject
Known(c) == WithSubject(SubjectOf(c))
FindBySubject(c) ==
  /\ c.at = "subject"
  /\ IF Known(c) = {} THEN Goes(c, [c EXCEPT !.at = "email"])
     ELSE \E u \in Known(c) : Goes(c, [c EXCEPT !.at = "issue", !.user = u])
  /\ UNCHANGED <<accounts, atProvider, inBrowser, asked>>
FindByEmail(c) ==
  /\ c.at = "email"
  /\ IF WithEmail(c.email) = {} THEN Goes(c, [c EXCEPT !.at = "create"])
     ELSE \E u \in WithEmail(c.email) : Goes(c, [c EXCEPT !.at = "link", !.user = u])
  /\ UNCHANGED <<accounts, atProvider, inBrowser, asked>>
\* A subject that is another user's by now fails the request.
Link(c) ==
  LET s == SubjectOf(c)
  IN  /\ c.at = "link"
      /\ IF WithSubject(s) \subseteq {c.user}
         THEN /\ users' = [users EXCEPT ![c.user].subject = s]
              /\ relinked' = relinked \cup ({users[c.user].subject} \ {s, NoOne})
              /\ Goes(c, [c EXCEPT !.at = "issue"])
         ELSE Ends(c) /\ UNCHANGED <<users, relinked>>
      /\ UNCHANGED <<issued, atProvider, inBrowser, asked>>
CreateUser(c) ==
  LET s == SubjectOf(c)
  IN  /\ c.at = "create"
      /\ IF WithSubject(s) = {} /\ WithEmail(c.email) = {}
         THEN /\ users' = Append(users, [email |-> c.email, subject |-> s])
              /\ Goes(c, [c EXCEPT !.at = "issue", !.user = Len(users) + 1])
         ELSE Ends(c) /\ UNCHANGED users
      /\ UNCHANGED <<issued, relinked, atProvider, inBrowser, asked>>
\* issuePair; the answer clears the cookie, whatever login it is of by then.
IssuePair(c) ==
  /\ c.at = "issue"
  /\ issued' = issued \cup {<<c.login, SubjectOf(c), c.user, c.id>>}
  /\ cookie' = [cookie EXCEPT ![c.browser] = NoOne]
  /\ disturbed' = disturbed \cup LoginsOf(c.browser)
  /\ Goes(c, [c EXCEPT !.at = "me"])
  /\ UNCHANGED <<users, relinked, atProvider, logins, session, refused, asked>>
\* The page the browser is sent to asks who it is and starts the session.
SetSession(c) ==
  /\ c.at = "me"
  /\ session' = [session EXCEPT ![c.browser] = c.user]
  /\ Ends(c)
  /\ UNCHANGED <<accounts, atProvider, logins, cookie, disturbed, refused, asked>>

SignOnNext ==
  \/ \E e \in Email : Register(e) \/ \E s \in Subject : MoveMail(s, e)
  \/ \E b \in Browser : BeginLogin(b) \/ Expire(b)
  \/ \E b \in Browser, n, m \in DOMAIN logins, s \in Subject : Return(b, n, m, s)
  \/ \E c \in callbacks :
       \/ ReadTransaction(c) \/ ExchangeCode(c) \/ FindBySubject(c) \/ FindByEmail(c)
       \/ Link(c) \/ CreateUser(c) \/ IssuePair(c) \/ SetSession(c)

SignOnSpec == SignOnInit /\ [][SignOnNext]_signOnVars

-----------------------------------------------------------------------------
(* One person has one account.  Every session a subject signs on to is of  *)
(* the same user, whatever addresses the provider gave the subject between *)
(* them, whichever sign-ons and registrations ran at once, until another   *)
(* subject that was given the address of that user takes the account over; *)
(* no two users have an address or a subject in common; a login issues one *)
(* session at most, though its address is loaded twice; whichever state    *)
(* and code a browser is given, it starts sessions only of logins begun in *)
(* it; and a login whose browser comes back is refused for its cookie only *)
(* if another login of the browser began or ended since, or the cookie     *)
(* expired.                                                                *)
OneAccountEach ==
  /\ \A i, j \in issued : i[2] = j[2] /\ i[2] \notin relinked => i[3] = j[3]
  /\ \A i, j \in issued : i[1] = j[1] => i = j
  /\ \A u, v \in DOMAIN users : users[u].email = users[v].email \/ (users[u].subject = users[v].subject /\ users[u].subject # NoOne) => u = v
  /\ \A b \in Browser : session[b] # NoOne => \E i \in issued : logins[i[1]].browser = b /\ i[3] = session[b]
  /\ refused \subseteq disturbed
=============================================================================
