----------------------------- MODULE Discussion -----------------------------
(***************************************************************************)
(* Comments on pages, the threads they form and the notifications they     *)
(* send (comments.service, mentions, notifications.service, CommentsPanel, *)
(* NotificationsBell).                                                     *)
(*                                                                         *)
(* A request is a job that goes statement by statement and may die between *)
(* two of them; what it checked of its caller it checks once, at the start.*)
(* Comments are numbered in the order of creation.  A panel shows what it  *)
(* last read and a bell what it last polled, so the ids a client names are *)
(* any there ever were, in any state.  What a user may do on a page comes  *)
(* from the access resolver, here a level that can be lowered.             *)
(***************************************************************************)
EXTENDS Naturals, Sequences, FiniteSets

CONSTANTS Reader, Page, Job, MaxComments, MaxMentions, MaxDisturbed, NoRoot

ASSUME TalkAssumption == NoRoot \notin Reader

VARIABLES comments, notes,       \* the rows, none where a comment was deleted
          level, work,
          changes, breaks,       \* how often something else happened, together at most MaxDisturbed
          lost,                  \* <<user, page>> with no access at some time
          split,                 \* comments a half-created root left without a thread
          told                   \* comments whose fan-out has ended
rowsOfTalk == <<comments, notes>>
talkVars == <<rowsOfTalk, level, work, changes, breaks, lost, split, told>>

\* What the capabilities are of: canRead, canComment, canWrite.
Reads == 1
Comments == 2
Writes == 3
Placeholder == 0
Resting == [at |-> "idle"]
Living == {c \in DOMAIN comments : comments[c] # NoRoot}
Change == changes + breaks < MaxDisturbed /\ changes' = changes + 1

TalkInit ==
  /\ comments = <<>> /\ notes = {}
  /\ level \in [Reader \X Page -> {Comments}]
  /\ work = [j \in Job |-> Resting]
  /\ changes = 0 /\ breaks = 0
  /\ lost = {} /\ split = {} /\ told = {}

\* Sharing lowers or raises what a user may do on a page.
Regrade ==
  \E u \in Reader, p \in Page, to \in {0, Writes} :
    /\ level[<<u, p>>] # to /\ Change
    /\ level' = [level EXCEPT ![<<u, p>>] = to]
    /\ lost' = IF to = 0 THEN lost \cup {<<u, p>>} ELSE lost
    /\ UNCHANGED <<rowsOfTalk, work, breaks, split, told>>

-----------------------------------------------------------------------------
(* create                                                                  *)
\* extractMentionedUserIds: each user once, in a root and in a reply alike.
MentionedIn == SUBSET Reader
\* The parent must be there and on the same page.
Answers(parent, p) == parent \in Living /\ comments[parent].page = p
Post(j) ==
  \E u \in Reader, p \in Page, parent \in DOMAIN comments \cup {NoRoot}, mentioned \in MentionedIn :
    /\ work[j] = Resting
    /\ Len(comments) + Cardinality({k \in Job : work[k].at = "insert"}) < MaxComments
    /\ level[<<u, p>>] >= Comments
    /\ parent # NoRoot => Answers(parent, p)
    /\ Cardinality(mentioned) + Cardinality({c \in Living : comments[c].mentioned # {}})
         + Cardinality({k \in Job : work[k].at = "insert" /\ work[k].mentioned # {}}) <= MaxMentions
    /\ work' = [work EXCEPT ![j] =
         [at |-> "insert", user |-> u, page |-> p, parent |-> parent, mentioned |-> mentioned,
          thread |-> IF parent = NoRoot THEN Placeholder ELSE comments[parent].thread,
          rootAuthor |-> IF parent = NoRoot THEN NoRoot ELSE comments[parent].author, id |-> 0, told |-> {}]]
    /\ UNCHANGED <<rowsOfTalk, level, changes, breaks, lost, split, told>>

Step(j, at) == work' = [work EXCEPT ![j].at = at]
\* A reply is in its parent's thread; a root is in none until the next statement.
Insert(j) ==
  LET w == work[j]
      c == Len(comments) + 1
  IN  /\ w.at = "insert"
      /\ comments' = Append(comments, [page |-> w.page, author |-> w.user, thread |-> w.thread, mentioned |-> w.mentioned,
                                       reply |-> w.parent # NoRoot, resolved |-> FALSE])
      /\ split' = IF w.parent # NoRoot /\ w.thread = Placeholder THEN split \cup {c} ELSE split
      /\ work' = [work EXCEPT ![j].id = c, ![j].at = IF w.parent = NoRoot THEN "anchor" ELSE "gather"]
      /\ UNCHANGED <<notes, level, changes, breaks, lost, told>>
\* A root anchors its own thread.
ResolveThreadId(c, parentThread) == IF parentThread = NoRoot THEN c ELSE parentThread
Anchor(j) ==
  LET c == work[j].id
  IN  /\ work[j].at = "anchor"
      /\ comments[c] # NoRoot
      /\ comments' = [comments EXCEPT ![c].thread = ResolveThreadId(c, NoRoot)]
      /\ Step(j, "gather")
      /\ UNCHANGED <<notes, level, changes, breaks, lost, split, told>>

-----------------------------------------------------------------------------
(* fanOutNotifications                                                     *)
\* What follows goes by the comment as the insertion returned it: it may have
\* been deleted since.
\* The other comments of a reply's thread, and the author of its root, or of
\* the parent when the root is gone.
Thread(j) == {c \in Living \ {work[j].id} : comments[c].thread = work[j].thread}
RootAuthor(j) ==
  LET root == work[j].thread
  IN  IF root \in Thread(j) THEN comments[root].author ELSE work[j].rootAuthor
\* Everyone who takes part, without the replier.
ReplyRecipients(j) == ({comments[c].author : c \in Thread(j)} \cup {RootAuthor(j)}) \ {work[j].user, NoRoot}
Message(to, type, c) == [to |-> to, type |-> type, about |-> c, read |-> FALSE]
\* [A user who is mentioned in a reply is told of the reply as well.]
CandidatesTwice(j) ==
  LET w == work[j]
  IN  {Message(u, "mention", w.id) : u \in w.mentioned \ {w.user}}
        \cup {Message(u, "comment_reply", w.id) :
              u \in IF w.parent = NoRoot THEN {} ELSE ReplyRecipients(j)}
Candidates(j) ==
  LET w == work[j]
  IN  {Message(u, "mention", w.id) : u \in w.mentioned \ {w.user}}
        \cup {Message(u, "comment_reply", w.id) :
              u \in IF w.parent = NoRoot THEN {} ELSE ReplyRecipients(j) \ w.mentioned}
Gather(j) ==
  /\ work[j].at = "gather"
  /\ work' = [work EXCEPT ![j].at = "notify", ![j].told = Candidates(j)]
  /\ UNCHANGED <<rowsOfTalk, level, changes, breaks, lost, split, told>>
\* filterByPageAccess, then createMany.
StillAllowed(users, p) == {u \in users : level[<<u, p>>] >= Reads}
Notify(j) ==
  /\ work[j].at = "notify"
  /\ notes' = notes \cup {m \in work[j].told : m.to \in StillAllowed({m.to}, work[j].page)}
  /\ told' = told \cup {work[j].id}
  /\ work' = [work EXCEPT ![j] = Resting]
  /\ UNCHANGED <<comments, level, changes, breaks, lost, split>>
\* The process dies or a statement fails; the anchoring of a root does if the
\* root was deleted.
BreakOff(j) ==
  /\ work[j] # Resting
  /\ \/ changes + breaks < MaxDisturbed /\ breaks' = breaks + 1
     \/ work[j].at = "anchor" /\ comments[work[j].id] = NoRoot /\ UNCHANGED breaks
  /\ split' = IF work[j].at = "anchor" THEN split \cup {work[j].id} ELSE split
  /\ work' = [work EXCEPT ![j] = Resting]
  /\ UNCHANGED <<rowsOfTalk, level, changes, lost, told>>

-----------------------------------------------------------------------------
(* resolve, unresolve, remove                                              *)
\* The comment is loaded, then its thread is stamped: on every page.
ResolveThread ==
  \E u \in Reader, c \in Living, done \in BOOLEAN :
    /\ level[<<u, comments[c].page>>] >= Comments /\ Change
    /\ comments' = [d \in DOMAIN comments |->
         IF d \in Living /\ comments[d].thread = comments[c].thread THEN [comments[d] EXCEPT !.resolved = done] ELSE comments[d]]
    /\ UNCHANGED <<notes, level, work, breaks, lost, split, told>>
\* The author, or a user who may write; replies stay.
RemoveComment ==
  \E u \in Reader, c \in Living :
    /\ level[<<u, comments[c].page>>] >= (IF comments[c].author = u THEN Reads ELSE Writes)
    /\ Change
    /\ comments' = [comments EXCEPT ![c] = NoRoot]
    /\ UNCHANGED <<notes, level, work, breaks, lost, split, told>>
\* markRead, markAllRead: what the bell has not shown yet is marked as well.
MarkRead ==
  \E u \in Reader, marked \in {{m} : m \in notes} \cup {notes} :
    LET own == {m \in marked : m.to = u /\ ~m.read}
    IN  /\ own # {} /\ Change
        /\ notes' = (notes \ own) \cup {[m EXCEPT !.read = TRUE] : m \in own}
        /\ UNCHANGED <<comments, level, work, breaks, lost, split, told>>

TalkNext ==
  \/ \E j \in Job : Post(j) \/ Insert(j) \/ Anchor(j) \/ Gather(j) \/ Notify(j) \/ BreakOff(j)
  \/ ResolveThread \/ RemoveComment \/ MarkRead \/ Regrade

TalkSpec == TalkInit /\ [][TalkNext]_talkVars

-----------------------------------------------------------------------------
(* A thread holds together and tells its participants.  The comments of a  *)
(* thread are on one page, and only a request that broke off, or a reply   *)
(* to a root whose request had not ended, leaves a comment in no thread.   *)
(* Once a comment's request has ended, everyone mentioned in it and        *)
(* everyone with an earlier comment in its thread (deleted ones aside) has *)
(* exactly one notification of it, although replies race with one another, *)
(* except the author and users who lost access to the page; and nobody has *)
(* two.                                                                    *)
ThreadsTell ==
  /\ \A c, d \in Living : comments[c].thread = comments[d].thread /\ comments[c].thread # Placeholder
                            => comments[c].page = comments[d].page
  /\ \A c \in Living \ split : comments[c].thread = Placeholder => \E j \in Job : work[j].at = "anchor" /\ work[j].id = c
  /\ \A m, n \in notes : m.to = n.to /\ m.about = n.about => m = n
  /\ \A c \in told \cap Living, u \in Reader :
       /\ u # comments[c].author /\ <<u, comments[c].page>> \notin lost
       /\ \/ u \in comments[c].mentioned
          \/ \E d \in Living : d < c /\ comments[d].author = u /\ comments[c].reply
                                 /\ comments[d].thread = comments[c].thread
       => \E m \in notes : m.to = u /\ m.about = c
=============================================================================
