-------------------------- MODULE PageAccessProofs --------------------------
(***************************************************************************)
(* Proofs about access to pages, for any users, pages and requests, and    *)
(* without the bounds on requests and moves.                               *)
(*                                                                         *)
(* The argument.  A resolution reads the tree edge by edge, then a         *)
(* membership, then the grants.  If at most one write of these comes while *)
(* it reads, there is one moment whose tree and membership are what it     *)
(* read: the one before the write, or any after it.  Sound states this of  *)
(* a resolution under way: a tree par in which its chain is a walk up, and *)
(* with which it will end in an answer that the user had (held).  A page   *)
(* that moves below the cursor is out of the walk's way because trees have *)
(* no cycles; one still above it is seen where it is now.                  *)
(*                                                                         *)
(* Without any write the answer is the role of the moment (AnswerOK), so a *)
(* share by address that goes on to its grant has found the invitee's role *)
(* below the one asked.  The grant decides for a page below only where the *)
(* page shared is the nearest granting one, and there the old role was the *)
(* one on the page shared: nothing is lost (GrantRaises).                  *)
(***************************************************************************)
EXTENDS PageAccess, FiniteSetTheorems, SequenceTheorems, WellFoundedInduction, TLAPS

Walker == {"walk", "standing", "grants", "checked"}
Places == Walker \cup {"idle", "account", "enrol", "join", "invite", "subject", "existing",
                       "upsert", "notify", "find", "delete"}
Job == [pc : Places, ask : Ask \cup {NoAsk}, who : User \cup {Null}, goal : {"admit", "weigh"},
        chain : Seq(Page), cursor : Page \cup {Null}, standing : MemberRole \cup {Null},
        role : PageRole \cup {Null}, fresh : BOOLEAN, found : Nat]

Tree == [Page -> Page \cup {Null}]

\* What a handler's request is, by the place it has come to.
JobOK(j) ==
  /\ j.pc # "idle" => /\ j.ask \in Asks /\ j.ask.op # "inviteMember"
                      /\ j.who = (IF j.goal = "weigh" THEN j.ask.target ELSE j.ask.user)
                      /\ j.goal = "weigh" => j.ask.op = "shareInvite"
  /\ j.pc = "walk" => j.cursor \in Page
  /\ j.pc \in {"account", "enrol", "join", "invite"} => j.ask.op = "shareInvite"
  /\ j.pc \in {"find", "delete"} => j.ask.op = "remove"
  /\ j.pc = "subject" => j.ask.op = "upsert" /\ j.ask.target \in User
  /\ j.pc \in {"existing", "upsert"} => j.ask.op \in {"upsert", "shareInvite"}
  /\ j.pc = "notify" => j.ask.target \in User

StoreOK ==
  /\ parent \in Tree /\ Acyclic(Page, parent)
  /\ grant \in Grants
  /\ row \in [Page -> [Subject -> Nat]]
  /\ member \in [User -> MemberRole \cup {Null}]
  /\ account \subseteq User /\ invited \subseteq User \X MemberRole
  /\ aware \subseteq User \X Page
  /\ served \in Nat /\ moves \in Nat

JobsOK == req \in [Request -> Job] /\ \A r \in Request : JobOK(req[r])

GhostsOK ==
  /\ held \in [Request -> SUBSET (PageRole \cup {Null})]
  /\ changes \in [Request -> 0..2]

TypeInv == StoreOK /\ JobsOK /\ GhostsOK

\* u has been told of the grants on p, or is about to be.
Told(u, p) ==
  \/ <<u, p>> \in aware
  \/ \E r \in Request : req[r].pc = "notify" /\ req[r].ask.target = u /\ req[r].ask.page = p

\* A handler that found a grant and will tell nobody knows that somebody has.
TellInv ==
  /\ GrantedAreTold
  /\ \A r \in Request :
       /\ req[r].pc = "upsert" /\ req[r].ask.op = "upsert" /\ ~req[r].fresh /\ req[r].ask.target \in User
       => Told(req[r].ask.target, req[r].ask.page)

AccessInv == TypeInv /\ TellInv

\* No page is deeper than the walk goes.
ShallowIn(par) ==
  \A p \in Page : IsFiniteSet(Above(Page, par, p)) /\ Cardinality(Above(Page, par, p)) <= MaxDepth
Shallow == ShallowIn(parent)

\* The role of u, whose workspace role is m, on p in the tree par (see RoleOn).
RoleIn(par, m, u, p) ==
  LET granting == {q \in Above(Page, par, p) : Applicable(u, m, q) # {}}
      nearest == {q \in granting : granting \subseteq Above(Page, par, q)}
  IN IF granting = {} THEN DefaultRole(m)
     ELSE Strongest(UNION {Applicable(u, m, q) : q \in nearest})

\* chain is the walk from p up in par to below top.
Climbed(par, p, chain, top) ==
  /\ chain = <<>> => top = p
  /\ chain # <<>> => chain[1] = p /\ par[chain[Len(chain)]] = top
  /\ \A i \in 1..Len(chain) : i < Len(chain) => par[chain[i]] = chain[i + 1]

\* In the tree par and with the workspace role m of its user, job j goes on along
\* the walk that it has made; now and mem are the parents and the memberships.
OnCourse(j, par, m, now, mem) ==
  /\ Acyclic(Page, par) /\ ShallowIn(par)
  /\ Climbed(par, j.ask.page, j.chain, IF j.pc = "walk" THEN j.cursor ELSE Null)
  /\ j.pc = "walk" => \A q \in Above(Page, par, j.cursor) : now[q] = par[q]
  /\ m = IF j.pc = "grants" THEN j.standing ELSE mem[j.who]

\* It then ends in an answer that its user had.
Sound(r, par, m) ==
  LET j == req[r]
  IN  /\ OnCourse(j, par, m, parent, member)
      /\ \A u \in {j.who}, p \in {j.ask.page} : RoleIn(par, m, u, p) \in held[r]
      /\ changes[r] = 0 => par = parent /\ m = member[j.who]

AnswerOK(r) ==
  LET j == req[r]
  IN  /\ j.pc \in {"walk", "standing", "grants"} /\ changes[r] <= 1 =>
           \E par \in Tree, m \in MemberRole \cup {Null} : Sound(r, par, m)
      /\ j.pc = "checked" /\ changes[r] <= 1 => j.role \in held[r]
      /\ j.pc = "checked" /\ changes[r] = 0 =>
           \A u \in {j.who}, p \in {j.ask.page} : j.role = RoleOn(u, p)
      /\ j.pc = "upsert" /\ j.ask.op = "shareInvite" /\ j.fresh /\ changes[r] = 0 =>
           \A u \in {j.ask.target}, p \in {j.ask.page} : Rank(RoleOn(u, p)) < Rank(j.ask.role)
AnswersInv == \A r \in Request : AnswerOK(r)

-----------------------------------------------------------------------------
(* Trees.                                                                  *)

LEMMA NullApart == Null \notin Page
BY AccessAssumption DEF AccessAssumption

LEMMA SelfAbove ==
  ASSUME NEW par, NEW p \in Page
  PROVE  p \in Above(Page, par, p)
BY DEF Above

LEMMA AboveClosed ==
  ASSUME NEW par, NEW p \in Page, NEW q \in Above(Page, par, p), par[q] \in Page
  PROVE  par[q] \in Above(Page, par, p)
BY DEF Above

LEMMA AboveLeast ==
  ASSUME NEW par, NEW p, NEW S \in SUBSET Page, p \in S,
         \A c \in S : par[c] \in Page => par[c] \in S
  PROVE  Above(Page, par, p) \subseteq S
BY DEF Above

LEMMA AboveUp ==
  ASSUME NEW par, NEW p \in Page, NEW q \in Above(Page, par, p), q # p
  PROVE  par[p] \in Page /\ q \in Above(Page, par, par[p])
<1>1. CASE par[p] \in Page
  <2> PICK S \in SUBSET Page : S = {p} \cup Above(Page, par, par[p])
    BY DEF Above
  <2>1. par[p] \in Above(Page, par, par[p])
    BY <1>1, SelfAbove
  <2>2. \A c \in S : par[c] \in Page => par[c] \in S
    BY <1>1, <2>1, AboveClosed
  <2>3. Above(Page, par, p) \subseteq S
    BY <2>2, AboveLeast
  <2> QED BY <1>1, <2>3
<1>2. CASE par[p] \notin Page
  <2>1. {p} \in SUBSET Page /\ p \in {p} /\ \A c \in {p} : par[c] \in Page => par[c] \in {p}
    BY <1>2
  <2>2. Above(Page, par, p) \subseteq {p}
    BY <2>1, AboveLeast
  <2> QED BY <2>2
<1> QED BY <1>1, <1>2

LEMMA AboveTrans ==
  ASSUME NEW par, NEW p \in Page, NEW q \in Above(Page, par, p)
  PROVE  Above(Page, par, q) \subseteq Above(Page, par, p)
<1>1. Above(Page, par, p) \in SUBSET Page
  BY DEF Above
<1> QED BY <1>1, AboveLeast, AboveClosed

\* A page of a tree is not above its parent.
LEMMA NoLoop ==
  ASSUME NEW par, Acyclic(Page, par), NEW p \in Page, par[p] \in Page
  PROVE  p \notin Above(Page, par, par[p])
<1> SUFFICES ASSUME p \in Above(Page, par, par[p]) PROVE FALSE
  OBVIOUS
<1> PICK S \in SUBSET Page : S = {x \in Page : x \in Above(Page, par, p) /\ p \in Above(Page, par, x)}
  OBVIOUS
<1>1. p \in S
  BY SelfAbove
<1>2. ASSUME NEW x \in S PROVE par[x] \in S
  <2>1. par[x] \in Page /\ p \in Above(Page, par, par[x])
    <3>1. CASE x = p
      BY <3>1
    <3>2. CASE x # p
      BY <3>2, AboveUp
    <3> QED BY <3>1, <3>2
  <2> QED BY <2>1, AboveClosed
<1> QED BY <1>1, <1>2 DEF Acyclic

LEMMA AboveAntisym ==
  ASSUME NEW par, Acyclic(Page, par), NEW p \in Page, NEW q \in Page,
         q \in Above(Page, par, p), p \in Above(Page, par, q)
  PROVE  p = q
<1> SUFFICES ASSUME p # q PROVE FALSE
  OBVIOUS
<1>1. par[p] \in Page /\ q \in Above(Page, par, par[p])
  BY AboveUp
<1>2. p \in Above(Page, par, par[p])
  BY <1>1, AboveTrans
<1> QED BY <1>1, <1>2, NoLoop

\* Some of the pages above p are, if there are any, and one is below the others.
LEMMA NearestExists ==
  ASSUME NEW par, Acyclic(Page, par), NEW p \in Page,
         NEW G \in SUBSET Above(Page, par, p), G # {}
  PROVE  \E q \in G : G \subseteq Above(Page, par, q)
<1> SUFFICES ASSUME \A q \in G : ~(G \subseteq Above(Page, par, q)) PROVE FALSE
  OBVIOUS
<1> PICK S \in SUBSET Page : S = {x \in Page : G \subseteq Above(Page, par, x)}
  OBVIOUS
<1>1. p \in S
  OBVIOUS
<1>2. ASSUME NEW x \in S PROVE par[x] \in S
  <2>1. x \notin G
    OBVIOUS
  <2>2. par[x] \in Page /\ G \subseteq Above(Page, par, par[x])
    BY <2>1, AboveUp
  <2> QED BY <2>2
<1> QED BY <1>1, <1>2 DEF Acyclic

-----------------------------------------------------------------------------
(* Counting.                                                               *)

LEMMA LeastNumber ==
  ASSUME NEW S \in SUBSET Nat, S # {}
  PROVE  \E n \in S : \A k \in S : n <= k
<1> DEFINE R == {ss \in Nat \X Nat : ss[1] < ss[2]}
<1>1. IsWellFoundedOn(R, Nat)
  BY NatLessThanWellFounded DEF OpToRel
<1>2. PICK x \in S : \A y \in S : ~(<<y, x>> \in R)
  <2> HIDE DEF R
  <2> QED BY <1>1, WFMin
<1>3. ASSUME NEW y \in S PROVE x <= y
  <2>1. <<y, x>> \in Nat \X Nat /\ <<y, x>>[1] = y /\ <<y, x>>[2] = x
    OBVIOUS
  <2>2. ~(y < x)
    BY <1>2, <2>1
  <2> QED BY <2>2
<1> QED BY <1>3

\* What holds of i and of the successor of what it holds of holds from i on.
LEMMA Successors ==
  ASSUME NEW n \in Nat, NEW i \in 1..n, NEW I, i \in I,
         \A k \in i..n : k \in I /\ k < n => k + 1 \in I
  PROVE  i..n \subseteq I
<1> SUFFICES ASSUME (i..n) \ I # {} PROVE FALSE
  OBVIOUS
<1>1. PICK k \in (i..n) \ I : \A l \in (i..n) \ I : k <= l
  <2>1. (i..n) \ I \in SUBSET Nat
    OBVIOUS
  <2> QED BY <2>1, LeastNumber
<1>2. k - 1 \in i..n /\ k - 1 < n /\ (k - 1) + 1 = k
  OBVIOUS
<1>3. k - 1 \in I
  BY <1>1, <1>2
<1> QED BY <1>2, <1>3

-----------------------------------------------------------------------------
(* The walk.                                                               *)

AboveTop(par, top) == IF top = Null THEN {} ELSE Above(Page, par, top)

\* The walk from its i-th page on.
Rest(chain, i) == {chain[k] : k \in i..Len(chain)}

\* Above a page of the walk are the rest of the walk and what is above its end.
LEMMA WalkAbove ==
  ASSUME NEW par \in Tree, NEW p \in Page, NEW chain \in Seq(Page), NEW top \in Page \cup {Null},
         Climbed(par, p, chain, top), NEW i \in 1..Len(chain)
  PROVE  Above(Page, par, chain[i]) = Rest(chain, i) \cup AboveTop(par, top)
<1> PICK n \in Nat : n = Len(chain)
  OBVIOUS
<1>1. \A k \in 1..n : chain[k] \in Page
  OBVIOUS
<1>2. \A k \in 1..n : par[chain[k]] = IF k < n THEN chain[k + 1] ELSE top
  BY DEF Climbed
<1>3. AboveTop(par, top) \subseteq Page /\ (top # Null => top \in AboveTop(par, top))
  BY SelfAbove DEF AboveTop, Above
<1> PICK W : W = {chain[k] : k \in i..n} \cup AboveTop(par, top)
  OBVIOUS
<1>w. W \in SUBSET Page
  BY <1>1, <1>3
<1>4. Above(Page, par, chain[i]) \subseteq W
  <2>1. ASSUME NEW c \in W, par[c] \in Page PROVE par[c] \in W
    <3>1. CASE c \in AboveTop(par, top)
      BY <2>1, <3>1, AboveClosed DEF AboveTop
    <3>2. CASE c \notin AboveTop(par, top)
      <4>1. PICK k \in i..n : c = chain[k]
        BY <3>2
      <4>2. CASE k < n
        BY <1>2, <4>1, <4>2
      <4>3. CASE k = n
        BY <1>2, <1>3, <2>1, <4>1, <4>3, NullApart
      <4> QED BY <4>2, <4>3
    <3> QED BY <3>1, <3>2
  <2>2. chain[i] \in W /\ \A c \in W : par[c] \in Page => par[c] \in W
    BY <2>1
  <2> PICK x : x = chain[i]
    OBVIOUS
  <2>3. x \in W
    BY <2>2
  <2>4. Above(Page, par, x) \subseteq W
    BY <1>w, <2>2, <2>3 DEF Above
  <2> QED BY <2>4
<1>5. \A k \in i..n : chain[k] \in Above(Page, par, chain[i])
  <2> DEFINE I == {k \in i..n : chain[k] \in Above(Page, par, chain[i])}
  <2>1. i \in I
    BY <1>1, SelfAbove
  <2>2. ASSUME NEW k \in i..n, k \in I, k < n PROVE k + 1 \in I
    BY <1>1, <1>2, <2>2, AboveClosed
  <2>3. i..n \subseteq I
    <3> HIDE DEF I
    <3> QED BY <2>1, <2>2, Successors
  <2> QED BY <2>3
<1>6. AboveTop(par, top) \subseteq Above(Page, par, chain[i])
  <2>1. CASE top = Null
    BY <2>1 DEF AboveTop
  <2>2. CASE top # Null
    <3>1. n \in i..n /\ chain[n] \in Above(Page, par, chain[i]) /\ par[chain[n]] = top
      BY <1>2, <1>5
    <3>2. top \in Above(Page, par, chain[i])
      BY <1>1, <2>2, <3>1, AboveClosed
    <3> QED BY <1>1, <2>2, <3>2, AboveTrans DEF AboveTop
  <2> QED BY <2>1, <2>2
<1>7. Rest(chain, i) = {chain[k] : k \in i..n}
  BY DEF Rest
<1> QED BY <1>4, <1>5, <1>6, <1>7

\* In a tree the walk has left its pages behind.
LEMMA WalkBehind ==
  ASSUME NEW par \in Tree, Acyclic(Page, par), NEW p \in Page, NEW chain \in Seq(Page),
         NEW top \in Page \cup {Null}, Climbed(par, p, chain, top)
  PROVE  /\ \A i \in 1..Len(chain) : chain[i] \notin AboveTop(par, top)
         /\ \A i, k \in 1..Len(chain) : i < k => chain[i] # chain[k]
<1> PICK n \in Nat : n = Len(chain)
  OBVIOUS
<1>1. \A k \in 1..n : chain[k] \in Page
  OBVIOUS
<1>2. \A k \in 1..n : par[chain[k]] = IF k < n THEN chain[k + 1] ELSE top
  BY DEF Climbed
<1>a. ASSUME NEW i \in 1..n
      PROVE  Above(Page, par, chain[i]) = Rest(chain, i) \cup AboveTop(par, top)
  BY WalkAbove
<1>3. ASSUME NEW i \in 1..n PROVE chain[i] \notin AboveTop(par, top)
  <2> SUFFICES ASSUME chain[i] \in AboveTop(par, top) PROVE FALSE
    OBVIOUS
  <2>1. top \in Page /\ chain[i] \in Above(Page, par, top)
    BY DEF AboveTop
  <2>2. top \in Above(Page, par, chain[i])
    BY <2>1, WalkAbove, SelfAbove, NullApart DEF AboveTop
  <2>3. chain[i] = top
    BY <1>1, <2>1, <2>2, AboveAntisym
  <2>4. par[chain[n]] = top /\ chain[n] \in Page
    BY <1>1, <1>2
  <2>5. chain[n] \in Rest(chain, i)
    BY DEF Rest
  <2>6. chain[n] \in Above(Page, par, chain[i])
    BY <1>a, <2>5
  <2> QED BY <2>1, <2>3, <2>4, <2>6, NoLoop
<1>4. ASSUME NEW i \in 1..n, NEW k \in 1..n, i < k PROVE chain[i] # chain[k]
  <2>1. par[chain[i]] = chain[i + 1] /\ i + 1 \in 1..n /\ chain[i + 1] \in Page
    BY <1>1, <1>2, <1>4
  <2> PICK h \in 1..n : h = i + 1
    BY <2>1
  <2>2. chain[k] \in Rest(chain, h)
    BY <1>4 DEF Rest
  <2>3. chain[k] \in Above(Page, par, chain[i + 1])
    BY <1>a, <2>2
  <2> QED BY <1>1, <2>1, <2>3, NoLoop
<1> QED BY <1>3, <1>4

\* The walk reaches the root before MaxDepth, and nothing it has seen again.
LEMMA WalkEnds ==
  ASSUME NEW par \in Tree, Acyclic(Page, par), ShallowIn(par), NEW p \in Page,
         NEW chain \in Seq(Page), NEW top \in Page, Climbed(par, p, chain, top)
  PROVE  Len(chain) < MaxDepth /\ \A i \in 1..Len(chain) : chain[i] # top
<1> PICK n \in Nat : n = Len(chain)
  OBVIOUS
<1>1. top \in AboveTop(par, top)
  BY NullApart, SelfAbove DEF AboveTop
<1>2. \A i \in 1..n : chain[i] # top
  BY <1>1, WalkBehind
<1>3. \A i, k \in 1..n : i < k => chain[i] # chain[k]
  BY WalkBehind
<1> PICK T : T = Above(Page, par, p)
  OBVIOUS
<1>4. (\A i \in 1..n : chain[i] \in T) /\ top \in T
  <2>1. CASE n = 0
    <3>1. chain = <<>>
      BY <2>1, EmptySeq
    <3> QED BY <2>1, <3>1, SelfAbove DEF Climbed
  <2>2. CASE n # 0
    <3>1. 1 \in 1..n /\ chain[1] = p
      BY <2>2 DEF Climbed
    <3>2. Above(Page, par, chain[1]) = {chain[k] : k \in 1..n} \cup AboveTop(par, top)
      BY <3>1, WalkAbove DEF Rest
    <3> QED BY <1>1, <3>1, <3>2
  <2> QED BY <2>1, <2>2
<1> PICK f : f = [i \in 1..(n + 1) |-> IF i <= n THEN chain[i] ELSE top]
  OBVIOUS
<1>5. f \in [1..(n + 1) -> T]
  <2>1. \A i \in 1..(n + 1) : (IF i <= n THEN chain[i] ELSE top) \in T
    BY <1>4
  <2> QED BY <2>1
<1>6. \A i, k \in 1..(n + 1) : i # k => f[i] # f[k]
  BY <1>2, <1>3
<1>7. IsFiniteSet(T) /\ Cardinality(T) <= MaxDepth /\ Cardinality(T) \in Nat /\ MaxDepth \in Nat
  BY FS_CardinalityType, AccessAssumption DEF ShallowIn, AccessAssumption
<1>8. IsFiniteSet(1..(n + 1)) /\ Cardinality(1..(n + 1)) = n + 1
  BY FS_Interval
<1>9. ~(Cardinality(T) < n + 1)
  BY <1>5, <1>6, <1>7, <1>8, FS_PigeonHole
<1> QED BY <1>2, <1>7, <1>9

\* One turn of the walk.
LEMMA WalkOn ==
  ASSUME NEW par \in Tree, NEW p \in Page, NEW chain \in Seq(Page), NEW top \in Page,
         Climbed(par, p, chain, top)
  PROVE  Climbed(par, p, Append(chain, top), par[top])
<1> PICK n \in Nat : n = Len(chain)
  OBVIOUS
<1> PICK c : c = Append(chain, top)
  OBVIOUS
<1>1. /\ Len(c) = n + 1 /\ c[n + 1] = top /\ \A i \in 1..n : c[i] = chain[i]
      /\ c # <<>>
  BY AppendProperties
<1>2. c[1] = p
  <2>1. CASE n = 0
    <3>1. chain = <<>>
      BY <2>1, EmptySeq
    <3> QED BY <1>1, <2>1, <3>1 DEF Climbed
  <2>2. CASE n # 0
    <3>1. 1 \in 1..n
      BY <2>2
    <3> QED BY <1>1, <3>1 DEF Climbed
  <2> QED BY <2>1, <2>2
<1>3. ASSUME NEW i \in 1..n PROVE par[c[i]] = c[i + 1]
  <2>1. CASE i < n
    BY <1>1, <2>1 DEF Climbed
  <2>2. CASE i = n
    <3>1. chain # <<>>
      BY <2>2
    <3> QED BY <1>1, <2>2, <3>1 DEF Climbed
  <2> QED BY <2>1, <2>2
<1> QED BY <1>1, <1>2, <1>3 DEF Climbed

\* A page that is not on the walk may move.
LEMMA WalkMoved ==
  ASSUME NEW par \in Tree, NEW par2, NEW p \in Page, NEW chain \in Seq(Page),
         NEW top \in Page \cup {Null}, Climbed(par, p, chain, top),
         \A i \in 1..Len(chain) : par2[chain[i]] = par[chain[i]]
  PROVE  Climbed(par2, p, chain, top)
<1>1. chain # <<>> => Len(chain) \in 1..Len(chain)
  BY EmptySeq, LenProperties
<1> QED BY <1>1 DEF Climbed

\* A workspace of no more than MaxDepth pages is shallow whatever its tree.
LEMMA SmallIsShallow ==
  ASSUME IsFiniteSet(Page), Cardinality(Page) <= MaxDepth
  PROVE  Shallow
<1> SUFFICES ASSUME NEW p \in Page
             PROVE  /\ IsFiniteSet(Above(Page, parent, p))
                    /\ Cardinality(Above(Page, parent, p)) <= MaxDepth
  BY DEF Shallow, ShallowIn
<1> PICK A : A = Above(Page, parent, p)
  OBVIOUS
<1>1. A \subseteq Page
  BY DEF Above
<1>2. IsFiniteSet(A) /\ Cardinality(A) <= Cardinality(Page)
  BY <1>1, FS_Subset
<1>3. Cardinality(A) \in Nat /\ Cardinality(Page) \in Nat /\ MaxDepth \in Nat
  BY <1>2, FS_CardinalityType, AccessAssumption DEF AccessAssumption
<1> QED BY <1>2, <1>3

-----------------------------------------------------------------------------
(* Types.                                                                  *)

LEMMA IdleIs ==
  /\ Idle \in Job /\ JobOK(Idle)
  /\ Idle.pc = "idle"
<1>1. Idle.pc = "idle" /\ Idle.ask = NoAsk
  BY DEF Idle
<1>2. Idle \in Job
  <2>1. <<>> \in Seq(Page)
    BY EmptySeq
  <2> QED BY <2>1 DEF Idle, Job, Places, Walker
<1> QED BY <1>1, <1>2 DEF JobOK

\* What a request of Asks asks.
LEMMA AskIs ==
  ASSUME NEW a \in Asks
  PROVE  /\ a \in Ask /\ a.user \in User /\ a.page \in Page
         /\ a.op \in {"access", "upsert", "remove", "shareInvite", "inviteMember"}
         /\ a.op # "access" => a.target \in Subject
         /\ a.op \in {"upsert", "shareInvite"} => a.role \in PageRole
         /\ a.op \in {"shareInvite", "inviteMember"} => a.target \in User
         /\ a.target \in User => a.target # Everyone
<1>1. a \in Ask
  BY AccessAssumption DEF AccessAssumption
<1> QED BY <1>1, AccessAssumption DEF AccessAssumption, Ask

LEMMA JobIs ==
  ASSUME NEW j \in Job
  PROVE  /\ j.pc \in Places /\ j.ask \in Ask \cup {NoAsk} /\ j.who \in User \cup {Null}
         /\ j.goal \in {"admit", "weigh"} /\ j.chain \in Seq(Page) /\ j.cursor \in Page \cup {Null}
         /\ j.standing \in MemberRole \cup {Null} /\ j.role \in PageRole \cup {Null}
         /\ j.fresh \in BOOLEAN /\ j.found \in Nat
BY DEF Job

\* The job that starts a resolution.
LEMMA ResolutionIs ==
  ASSUME NEW a \in Asks, a.op # "inviteMember", NEW goal \in {"admit", "weigh"},
         goal = "weigh" => a.op = "shareInvite",
         NEW u \in User, u = (IF goal = "weigh" THEN a.target ELSE a.user), NEW f \in BOOLEAN,
         NEW j, j = Resolution(a, u, goal, f)
  PROVE  /\ j \in Job /\ JobOK(j)
         /\ j.pc = "walk" /\ j.ask = a /\ j.who = u /\ j.chain = <<>> /\ j.cursor = a.page
<1>1. a \in Ask /\ a.page \in Page
  BY AskIs
<1>2. Idle \in Job
  BY IdleIs
<1>3. j = [Idle EXCEPT !.pc = "walk", !.ask = a, !.who = u, !.goal = goal, !.cursor = a.page,
                       !.fresh = f]
  BY DEF Resolution
<1>4. j \in Job
  BY <1>1, <1>2, <1>3 DEF Job, Places, Walker
<1>5. /\ j.pc = "walk" /\ j.ask = a /\ j.who = u /\ j.goal = goal /\ j.chain = <<>>
      /\ j.cursor = a.page
  BY <1>3 DEF Idle
<1> QED BY <1>1, <1>4, <1>5 DEF JobOK

\* A job that goes to its next place.
LEMMA NextPlace ==
  ASSUME NEW j \in Job, NEW pc \in Places, NEW k, k = [j EXCEPT !.pc = pc]
  PROVE  /\ k \in Job
         /\ k.pc = pc /\ k.ask = j.ask /\ k.who = j.who /\ k.goal = j.goal /\ k.chain = j.chain
         /\ k.cursor = j.cursor /\ k.standing = j.standing /\ k.role = j.role
         /\ k.fresh = j.fresh /\ k.found = j.found
BY DEF Job

LEMMA GoesTo ==
  ASSUME JobsOK, NEW r \in Request, NEW j \in Job, JobOK(j), Goto(r, j)
  PROVE  JobsOK' /\ req'[r] = j /\ \A s \in Request \ {r} : req'[s] = req[s]
<1>1. req' \in [Request -> Job] /\ req'[r] = j /\ \A s \in Request \ {r} : req'[s] = req[s]
  BY DEF JobsOK, Goto
<1>2. \A s \in Request : JobOK(req'[s])
  BY <1>1 DEF JobsOK
<1> QED BY <1>1, <1>2 DEF JobsOK, JobOK

\* What is known of a slot.
LEMMA SlotIs ==
  ASSUME JobsOK, NEW r \in Request
  PROVE  /\ req[r] \in Job /\ JobOK(req[r])
         /\ req[r].pc # "idle" => req[r].who \in User /\ req[r].ask \in Asks
<1>1. req[r] \in Job /\ JobOK(req[r])
  BY DEF JobsOK
<1>2. req[r].pc # "idle" => req[r].ask \in Asks
  BY <1>1 DEF JobOK
<1>3. ASSUME req[r].pc # "idle" PROVE req[r].who \in User
  <2>1. req[r].ask \in Asks
    BY <1>2, <1>3
  <2>2. req[r].ask.user \in User /\ (req[r].ask.op = "shareInvite" => req[r].ask.target \in User)
    BY <2>1, AskIs
  <2> QED BY <1>1, <1>3, <2>2 DEF JobOK
<1> QED BY <1>1, <1>2, <1>3

-----------------------------------------------------------------------------
(* Roles.                                                                  *)

LEMMA Ranks ==
  /\ Rank(Null) = 0 /\ Rank("read") = 1 /\ Rank("comment") = 2 /\ Rank("edit") = 3 /\ Rank("full") = 4
  /\ \A a \in PageRole \cup {Null} : Rank(a) \in 0..4
<1>1. Null # "read" /\ Null # "comment" /\ Null # "edit" /\ Null # "full"
  BY AccessAssumption DEF AccessAssumption, PageRole
<1>2. Rank(Null) = 0 /\ Rank("read") = 1 /\ Rank("comment") = 2 /\ Rank("edit") = 3 /\ Rank("full") = 4
  BY <1>1 DEF Rank, RoleRank
<1> QED BY <1>2 DEF PageRole

LEMMA StrongestIs ==
  ASSUME NEW R \in SUBSET PageRole, R # {}
  PROVE  Strongest(R) \in R /\ \A b \in R : Rank(b) <= Rank(Strongest(R))
<1> SUFFICES \E a \in R : \A b \in R : Rank(b) <= Rank(a)
  BY Zenon DEF Strongest
<1>1. \A b \in R : b \in {"read", "comment", "edit", "full"}
  BY DEF PageRole
<1>2. CASE "full" \in R
  BY <1>1, <1>2, Ranks
<1>3. CASE "full" \notin R /\ "edit" \in R
  BY <1>1, <1>3, Ranks
<1>4. CASE "full" \notin R /\ "edit" \notin R /\ "comment" \in R
  BY <1>1, <1>4, Ranks
<1>5. CASE "full" \notin R /\ "edit" \notin R /\ "comment" \notin R
  BY <1>1, <1>5, Ranks
<1> QED BY <1>2, <1>3, <1>4, <1>5

LEMMA ApplicableTyped ==
  ASSUME grant \in Grants, NEW u \in User, NEW m, NEW p \in Page
  PROVE  Applicable(u, m, p) \in SUBSET PageRole
<1>1. \A s \in Subject : grant[p][s] \in PageRole \cup {Null}
  BY DEF Grants
<1>2. {u} \cup (IF m = Null THEN {} ELSE {Everyone}) \subseteq Subject
  BY DEF Subject
<1> QED BY <1>1, <1>2 DEF Applicable

LEMMA DefaultTyped ==
  ASSUME NEW m
  PROVE  DefaultRole(m) \in PageRole \cup {Null}
BY DEF DefaultRole, PageRole

\* Without a grant in the lineage the workspace role decides.
LEMMA RoleDefault ==
  ASSUME NEW par, NEW m, NEW u, NEW p \in Page,
         \A q \in Above(Page, par, p) : Applicable(u, m, q) = {}
  PROVE  RoleIn(par, m, u, p) = DefaultRole(m)
BY DEF RoleIn

\* The granting page below all the others decides.
LEMMA RoleNearest ==
  ASSUME NEW par, Acyclic(Page, par), NEW m, NEW u, NEW p \in Page,
         NEW n \in Above(Page, par, p), Applicable(u, m, n) # {},
         \A q \in Above(Page, par, p) : Applicable(u, m, q) # {} => q \in Above(Page, par, n)
  PROVE  RoleIn(par, m, u, p) = Strongest(Applicable(u, m, n))
<1> PICK G : G = {q \in Above(Page, par, p) : Applicable(u, m, q) # {}}
  OBVIOUS
<1>1. n \in G /\ G \subseteq Above(Page, par, n) /\ G \subseteq Page
  BY DEF Above
<1>2. {q \in G : G \subseteq Above(Page, par, q)} = {n}
  <2>1. ASSUME NEW q \in G, G \subseteq Above(Page, par, q) PROVE q = n
    BY <1>1, <2>1, AboveAntisym
  <2> QED BY <1>1, <2>1
<1>3. UNION {Applicable(u, m, q) : q \in {n}} = Applicable(u, m, n)
  OBVIOUS
<1>4. RoleIn(par, m, u, p)
        = Strongest(UNION {Applicable(u, m, q) : q \in {q \in G : G \subseteq Above(Page, par, q)}})
  BY <1>1 DEF RoleIn
<1> QED BY <1>2, <1>3, <1>4

\* There is such a page.
LEMMA NearestGrant ==
  ASSUME NEW par, Acyclic(Page, par), NEW m, NEW u, NEW p \in Page,
         NEW q0 \in Above(Page, par, p), Applicable(u, m, q0) # {}
  PROVE  \E n \in Above(Page, par, p) :
           /\ Applicable(u, m, n) # {}
           /\ \A q \in Above(Page, par, p) : Applicable(u, m, q) # {} => q \in Above(Page, par, n)
<1> PICK G : G = {q \in Above(Page, par, p) : Applicable(u, m, q) # {}}
  OBVIOUS
<1>1. G \in SUBSET Above(Page, par, p) /\ G # {}
  OBVIOUS
<1>2. PICK n \in G : G \subseteq Above(Page, par, n)
  BY <1>1, NearestExists
<1> QED BY <1>2

LEMMA RoleTyped ==
  ASSUME grant \in Grants, NEW par, Acyclic(Page, par), NEW m, NEW u \in User, NEW p \in Page
  PROVE  RoleIn(par, m, u, p) \in PageRole \cup {Null}
<1>1. CASE \A q \in Above(Page, par, p) : Applicable(u, m, q) = {}
  BY <1>1, RoleDefault, DefaultTyped
<1>2. CASE \E q \in Above(Page, par, p) : Applicable(u, m, q) # {}
  <2>1. PICK n \in Above(Page, par, p) :
          /\ Applicable(u, m, n) # {}
          /\ \A q \in Above(Page, par, p) : Applicable(u, m, q) # {} => q \in Above(Page, par, n)
    BY <1>2, NearestGrant
  <2>2. n \in Page
    BY DEF Above
  <2>3. RoleIn(par, m, u, p) = Strongest(Applicable(u, m, n))
    BY <2>1, RoleNearest
  <2> QED BY <2>1, <2>2, <2>3, ApplicableTyped, StrongestIs
<1> QED BY <1>1, <1>2

LEMMA RoleOnIs ==
  ASSUME NEW u, NEW p
  PROVE  RoleOn(u, p) = RoleIn(parent, member[u], u, p)
BY DEF RoleOn, RoleIn

\* The end of resolvePageAccess finds the role of the tree that was walked.
LEMMA ResolveIs ==
  ASSUME NEW par \in Tree, Acyclic(Page, par), NEW m, NEW u, NEW p \in Page, NEW chain \in Seq(Page),
         Climbed(par, p, chain, Null)
  PROVE  Resolve(u, m, chain) = RoleIn(par, m, u, p)
<1> PICK n \in Nat : n = Len(chain)
  OBVIOUS
<1>1. 1 \in 1..n /\ chain[1] = p
  <2>1. chain # <<>>
    BY NullApart DEF Climbed
  <2> QED BY <2>1, EmptySeq DEF Climbed
<1>2. \A k \in 1..n : chain[k] \in Page
  OBVIOUS
<1>3. ASSUME NEW i \in 1..n PROVE Above(Page, par, chain[i]) = {chain[k] : k \in i..n}
  <2>1. Above(Page, par, chain[i]) = Rest(chain, i) \cup AboveTop(par, Null)
    BY WalkAbove
  <2> QED BY <2>1 DEF AboveTop, Rest
<1>4. Above(Page, par, p) = {chain[k] : k \in 1..n}
  BY <1>1, <1>3
<1> DEFINE levels == {i \in DOMAIN chain : Applicable(u, m, chain[i]) # {}}
<1>5. levels \in SUBSET Nat /\ levels \subseteq 1..n
  OBVIOUS
<1>l. \A i \in 1..n : i \in levels <=> Applicable(u, m, chain[i]) # {}
  OBVIOUS
<1>6. CASE levels = {}
  <2>1. \A q \in Above(Page, par, p) : Applicable(u, m, q) = {}
    <3>1. \A i \in 1..n : Applicable(u, m, chain[i]) = {}
      <4> HIDE DEF levels
      <4> QED BY <1>6, <1>l
    <3> QED BY <1>4, <3>1
  <2> QED BY <1>6, <2>1, RoleDefault DEF Resolve
<1>7. CASE levels # {}
  <2> PICK near : near = CHOOSE i \in levels : \A k \in levels : i <= k
    OBVIOUS
  <2>1. near \in levels /\ \A k \in levels : near <= k
    <3> HIDE DEF levels
    <3>1. \E i \in levels : \A k \in levels : i <= k
      BY <1>5, <1>7, LeastNumber
    <3> QED BY <3>1
  <2>2. near \in 1..n /\ Applicable(u, m, chain[near]) # {}
    <3> HIDE DEF levels
    <3> QED BY <2>1, <1>5, <1>l
  <2>r. \A k \in 1..n : Applicable(u, m, chain[k]) # {} => near <= k
    <3> HIDE DEF levels
    <3> QED BY <2>1, <1>l
  <2> PICK q0 \in Page : q0 = chain[near]
    BY <1>2, <2>2
  <2>3. \A q \in Above(Page, par, p) : Applicable(u, m, q) # {} => q \in Above(Page, par, q0)
    <3>1. Above(Page, par, q0) = {chain[k] : k \in near..n}
      BY <1>3, <2>2
    <3>2. ASSUME NEW k \in 1..n, Applicable(u, m, chain[k]) # {}
          PROVE  chain[k] \in Above(Page, par, q0)
      <4>1. near <= k
        BY <2>r, <3>2
      <4>2. k \in near..n
        BY <2>2, <4>1
      <4> QED BY <3>1, <4>2
    <3> HIDE DEF levels
    <3> QED BY <1>4, <3>2
  <2>4. q0 \in Above(Page, par, p)
    BY <1>4, <2>2
  <2>5. RoleIn(par, m, u, p) = Strongest(Applicable(u, m, q0))
    <3> HIDE DEF levels
    <3> QED BY <2>2, <2>3, <2>4, RoleNearest
  <2>6. Resolve(u, m, chain) = Strongest(Applicable(u, m, chain[near]))
    BY <1>7 DEF Resolve
  <2> QED BY <2>5, <2>6
<1> QED BY <1>6, <1>7

-----------------------------------------------------------------------------
(* The steps: what each does to the slot that takes it.                    *)

Others(r) == \A s \in Request \ {r} : req'[s] = req[s]

\* The slot keeps what it has been asked and for whom.
Same(r) == req'[r].ask = req[r].ask /\ req'[r].who = req[r].who /\ req'[r].goal = req[r].goal

LEMMA ReadIs ==
  ASSUME StoreOK, JobsOK, NEW r \in Request, NEW j \in Job, JobOK(j), Read(r, j)
  PROVE  StoreOK' /\ JobsOK' /\ req'[r] = j /\ Others(r) /\ UNCHANGED <<store, served, moves>>
<1>1. Goto(r, j) /\ UNCHANGED <<store, served, moves>>
  BY DEF Read
<1>2. JobsOK' /\ req'[r] = j /\ Others(r)
  BY <1>1, GoesTo DEF Others
<1>3. StoreOK'
  BY <1>1 DEF StoreOK, store, Acyclic, Tree, Grants
<1> QED BY <1>1, <1>2, <1>3

LEMMA BeginIs ==
  ASSUME StoreOK, JobsOK, NEW r \in Request, NEW ask \in Asks, Begin(r, ask)
  PROVE  /\ StoreOK' /\ JobsOK' /\ Others(r) /\ UNCHANGED store
         /\ req[r].pc = "idle"
         /\ req'[r].pc = "walk" /\ req'[r].chain = <<>> /\ req'[r].cursor = req'[r].ask.page
<1> PICK u \in User : u = ask.user
  BY AskIs
<1> PICK goal \in {"admit", "weigh"} : goal = "admit"
  OBVIOUS
<1> PICK f \in BOOLEAN : f = FALSE
  OBVIOUS
<1> PICK j : j = Resolution(ask, u, goal, f)
  OBVIOUS
<1>1. ask.op # "inviteMember" /\ goal # "weigh"
  BY DEF Begin
<1>2. /\ j \in Job /\ JobOK(j)
      /\ j.pc = "walk" /\ j.ask = ask /\ j.who = u /\ j.chain = <<>> /\ j.cursor = ask.page
  BY <1>1, ResolutionIs
<1>3. Goto(r, j) /\ UNCHANGED <<store, moves>> /\ served' = served + 1 /\ req[r].pc = "idle"
  BY DEF Begin
<1>4. JobsOK' /\ req'[r] = j /\ Others(r)
  BY <1>2, <1>3, GoesTo DEF Others
<1>5. StoreOK'
  BY <1>3 DEF StoreOK, store, Acyclic, Tree, Grants
<1> QED BY <1>2, <1>3, <1>4, <1>5

\* When the walk ends.
Ends(r) ==
  LET chain == Append(req[r].chain, req[r].cursor)
      up == parent[req[r].cursor]
  IN up = Null \/ (\E i \in DOMAIN chain : chain[i] = up) \/ Len(chain) = MaxDepth

LEMMA WalkIs ==
  ASSUME StoreOK, JobsOK, NEW r \in Request, Walk(r)
  PROVE  /\ StoreOK' /\ JobsOK' /\ Others(r) /\ Same(r) /\ UNCHANGED store
         /\ req[r].pc = "walk" /\ req[r].cursor \in Page
         /\ req'[r].chain = Append(req[r].chain, req[r].cursor)
         /\ \/ ~Ends(r) /\ req'[r].pc = "walk" /\ req'[r].cursor = parent[req[r].cursor]
            \/ Ends(r) /\ req'[r].pc = "standing"
<1> PICK j \in Job : j = req[r]
  BY SlotIs
<1> PICK c : c = Append(j.chain, j.cursor)
  OBVIOUS
<1> PICK up : up = parent[j.cursor]
  OBVIOUS
<1>1. JobOK(j) /\ j.pc = "walk" /\ j.cursor \in Page /\ j.chain \in Seq(Page)
  BY SlotIs, JobIs DEF Walk, JobOK
<1>2. c \in Seq(Page) /\ up \in Page \cup {Null}
  BY <1>1 DEF StoreOK, Tree
<1>3. CASE ~Ends(r)
  <2>1. up # Null /\ up \in Page
    BY <1>2, <1>3 DEF Ends
  <2> PICK k : k = [j EXCEPT !.chain = c, !.cursor = up]
    OBVIOUS
  <2>2. /\ k \in Job /\ k.pc = "walk" /\ k.ask = j.ask /\ k.who = j.who /\ k.goal = j.goal
        /\ k.chain = c /\ k.cursor = up
    BY <1>1, <1>2 DEF Job
  <2>3. JobOK(k)
    BY <1>1, <2>1, <2>2 DEF JobOK
  <2>4. Read(r, k)
    BY <1>3 DEF Walk, Ends
  <2> QED BY <1>1, <1>3, <2>2, <2>3, <2>4, ReadIs DEF Same
<1>4. CASE Ends(r)
  <2> PICK k : k = [j EXCEPT !.chain = c, !.pc = "standing"]
    OBVIOUS
  <2>2. /\ k \in Job /\ k.pc = "standing" /\ k.ask = j.ask /\ k.who = j.who /\ k.goal = j.goal
        /\ k.chain = c
    BY <1>1, <1>2 DEF Job, Places, Walker
  <2>3. JobOK(k)
    BY <1>1, <2>2 DEF JobOK
  <2>4. Read(r, k)
    BY <1>4 DEF Walk, Ends
  <2> QED BY <1>1, <1>4, <2>2, <2>3, <2>4, ReadIs DEF Same
<1> QED BY <1>3, <1>4

LEMMA ReadStandingIs ==
  ASSUME StoreOK, JobsOK, NEW r \in Request, ReadStanding(r)
  PROVE  /\ StoreOK' /\ JobsOK' /\ Others(r) /\ Same(r) /\ UNCHANGED store
         /\ req[r].pc = "standing" /\ req'[r].pc = "grants"
         /\ req'[r].chain = req[r].chain /\ req'[r].standing = member[req[r].who]
<1> PICK j \in Job : j = req[r]
  BY SlotIs
<1>1. JobOK(j) /\ j.pc = "standing" /\ j.who \in User
  BY SlotIs DEF ReadStanding
<1>2. member[j.who] \in MemberRole \cup {Null}
  BY <1>1 DEF StoreOK
<1> PICK k : k = [j EXCEPT !.pc = "grants", !.standing = member[j.who]]
  OBVIOUS
<1>p. "grants" \in Places
  BY DEF Places, Walker
<1>3. /\ k \in Job /\ k.pc = "grants" /\ k.ask = j.ask /\ k.who = j.who /\ k.goal = j.goal
      /\ k.chain = j.chain /\ k.standing = member[j.who]
  BY <1>2, <1>p DEF Job
<1>4. JobOK(k)
  BY <1>1, <1>3 DEF JobOK
<1>5. Read(r, k)
  BY DEF ReadStanding
<1> QED BY <1>1, <1>3, <1>4, <1>5, ReadIs DEF Same

LEMMA ResolveTyped ==
  ASSUME grant \in Grants, NEW u \in User, NEW m, NEW chain \in Seq(Page)
  PROVE  Resolve(u, m, chain) \in PageRole \cup {Null}
<1> DEFINE levels == {i \in DOMAIN chain : Applicable(u, m, chain[i]) # {}}
<1>1. CASE levels = {}
  BY <1>1, DefaultTyped DEF Resolve
<1>2. CASE levels # {}
  <2> PICK near : near = CHOOSE i \in levels : \A k \in levels : i <= k
    OBVIOUS
  <2>1. near \in levels
    <3>1. levels \in SUBSET Nat
      OBVIOUS
    <3> HIDE DEF levels
    <3>2. \E i \in levels : \A k \in levels : i <= k
      BY <1>2, <3>1, LeastNumber
    <3> QED BY <3>2
  <2>2. chain[near] \in Page /\ Applicable(u, m, chain[near]) # {}
    <3>1. \A i \in levels : chain[i] \in Page /\ Applicable(u, m, chain[i]) # {}
      OBVIOUS
    <3> HIDE DEF levels
    <3> QED BY <2>1, <3>1
  <2>3. Strongest(Applicable(u, m, chain[near])) \in PageRole
    BY <2>2, ApplicableTyped, StrongestIs
  <2>4. Resolve(u, m, chain) = Strongest(Applicable(u, m, chain[near]))
    BY <1>2 DEF Resolve
  <2> QED BY <2>3, <2>4
<1> QED BY <1>1, <1>2

LEMMA ReadGrantsIs ==
  ASSUME StoreOK, JobsOK, NEW r \in Request, ReadGrants(r)
  PROVE  /\ StoreOK' /\ JobsOK' /\ Others(r) /\ Same(r) /\ UNCHANGED store
         /\ req[r].pc = "grants" /\ req'[r].pc = "checked"
         /\ req'[r].role = Resolve(req[r].who, req[r].standing, req[r].chain)
<1> PICK j \in Job : j = req[r]
  BY SlotIs
<1>1. JobOK(j) /\ j.pc = "grants" /\ j.who \in User /\ j.chain \in Seq(Page)
  BY SlotIs, JobIs DEF ReadGrants
<1> PICK role : role = Resolve(j.who, j.standing, j.chain)
  OBVIOUS
<1>2. role \in PageRole \cup {Null}
  BY <1>1, ResolveTyped DEF StoreOK
<1> PICK k : k = [j EXCEPT !.pc = "checked", !.role = role]
  OBVIOUS
<1>p. "checked" \in Places
  BY DEF Places, Walker
<1>3. /\ k \in Job /\ k.pc = "checked" /\ k.ask = j.ask /\ k.who = j.who /\ k.goal = j.goal
      /\ k.role = role
  BY <1>2, <1>p DEF Job
<1>4. JobOK(k)
  BY <1>1, <1>3 DEF JobOK
<1>5. Read(r, k)
  BY DEF ReadGrants
<1> QED BY <1>1, <1>3, <1>4, <1>5, ReadIs DEF Same

LEMMA AdmitIs ==
  ASSUME StoreOK, JobsOK, NEW r \in Request, Admit(r)
  PROVE  /\ StoreOK' /\ JobsOK' /\ Others(r) /\ UNCHANGED store
         /\ req[r].pc = "checked"
         /\ req'[r].pc \in {"idle", "account", "find", "subject", "existing"}
<1> PICK j \in Job : j = req[r]
  BY SlotIs
<1>1. JobOK(j) /\ j.pc = "checked" /\ j.goal = "admit" /\ j.ask \in Asks
  BY SlotIs DEF Admit
<1>2. CASE Read(r, Idle)
  BY <1>1, <1>2, IdleIs, ReadIs
<1>3. CASE ~Read(r, Idle)
  <2> PICK next : next = (IF j.ask.op = "shareInvite" THEN "account"
                          ELSE IF j.ask.op = "remove" THEN "find"
                          ELSE IF j.ask.target = Everyone THEN "existing" ELSE "subject")
    OBVIOUS
  <2> PICK k : k = [j EXCEPT !.pc = next]
    OBVIOUS
  <2>1. Read(r, k) /\ j.ask.op # "access"
    BY <1>3 DEF Admit
  <2>2. next \in {"account", "find", "subject", "existing"}
    OBVIOUS
  <2>3. next \in Places
    BY <2>2 DEF Places
  <2>4. k \in Job /\ k.pc = next /\ k.ask = j.ask /\ k.who = j.who /\ k.goal = j.goal
    BY <2>3, NextPlace
  <2>5. JobOK(k)
    <3>1. /\ j.ask.op \in {"upsert", "remove", "shareInvite"}
          /\ j.ask.target \in Subject
      BY <1>1, <2>1, AskIs DEF JobOK
    <3> QED BY <1>1, <2>4, <3>1 DEF JobOK, Subject
  <2> QED BY <1>1, <2>1, <2>2, <2>4, <2>5, ReadIs
<1> QED BY <1>2, <1>3

LEMMA WeighIs ==
  ASSUME StoreOK, JobsOK, NEW r \in Request, Weigh(r)
  PROVE  /\ StoreOK' /\ JobsOK' /\ Others(r) /\ UNCHANGED store
         /\ req[r].pc = "checked" /\ req[r].goal = "weigh"
         /\ \/ req'[r].pc = "idle"
            \/ /\ req'[r].pc = "upsert" /\ req'[r].ask = req[r].ask
               /\ req'[r].fresh = req[r].fresh
               /\ req[r].ask.op = "shareInvite"
               /\ ShouldWriteGrant(req[r].role, req[r].ask.role, ~req[r].fresh)
<1> PICK j \in Job : j = req[r]
  BY SlotIs
<1>1. JobOK(j) /\ j.pc = "checked" /\ j.goal = "weigh" /\ j.ask \in Asks
  BY SlotIs DEF Weigh
<1>2. CASE Read(r, Idle)
  BY <1>1, <1>2, IdleIs, ReadIs
<1>3. CASE ~Read(r, Idle)
  <2> PICK k : k = [j EXCEPT !.pc = "upsert"]
    OBVIOUS
  <2>1. Read(r, k) /\ ShouldWriteGrant(j.role, j.ask.role, ~j.fresh)
    BY <1>3 DEF Weigh
  <2>2. "upsert" \in Places
    BY DEF Places
  <2>3. k \in Job /\ k.pc = "upsert" /\ k.ask = j.ask /\ k.who = j.who /\ k.goal = j.goal /\ k.fresh = j.fresh
    BY <2>2, NextPlace
  <2>4. j.ask.op = "shareInvite"
    BY <1>1 DEF JobOK
  <2>5. JobOK(k)
    BY <1>1, <2>3, <2>4 DEF JobOK
  <2> QED BY <1>1, <2>1, <2>3, <2>4, <2>5, ReadIs
<1> QED BY <1>2, <1>3

LEMMA ReadSubjectIs ==
  ASSUME StoreOK, JobsOK, NEW r \in Request, ReadSubject(r)
  PROVE  /\ StoreOK' /\ JobsOK' /\ Others(r) /\ UNCHANGED store
         /\ req[r].pc = "subject" /\ req'[r].pc \in {"idle", "existing"}
<1> PICK j \in Job : j = req[r]
  BY SlotIs
<1>1. JobOK(j) /\ j.pc = "subject" /\ j.ask \in Asks
  BY SlotIs DEF ReadSubject
<1>2. CASE Read(r, Idle)
  BY <1>1, <1>2, IdleIs, ReadIs
<1>3. CASE ~Read(r, Idle)
  <2> PICK k : k = [j EXCEPT !.pc = "existing"]
    OBVIOUS
  <2>1. Read(r, k)
    BY <1>3 DEF ReadSubject
  <2>2. "existing" \in Places
    BY DEF Places
  <2>3. k \in Job /\ k.pc = "existing" /\ k.ask = j.ask /\ k.who = j.who /\ k.goal = j.goal
    BY <2>2, NextPlace
  <2>4. JobOK(k)
    BY <1>1, <2>3 DEF JobOK
  <2> QED BY <1>1, <2>1, <2>3, <2>4, ReadIs
<1> QED BY <1>2, <1>3

LEMMA ReadExistingIs ==
  ASSUME StoreOK, JobsOK, NEW r \in Request, ReadExisting(r)
  PROVE  /\ StoreOK' /\ JobsOK' /\ Others(r) /\ UNCHANGED store
         /\ req[r].pc = "existing" /\ req'[r].ask = req[r].ask
         /\ \/ /\ req'[r].pc = "upsert" /\ req[r].ask.op = "upsert"
               /\ req'[r].fresh = (grant[req[r].ask.page][req[r].ask.target] = Null)
            \/ /\ req'[r].pc = "walk" /\ req'[r].chain = <<>>
               /\ req'[r].cursor = req'[r].ask.page
<1> PICK j \in Job : j = req[r]
  BY SlotIs
<1>1. JobOK(j) /\ j.pc = "existing" /\ j.ask \in Asks
  BY SlotIs DEF ReadExisting
<1>2. j.ask.op \in {"upsert", "shareInvite"}
  BY <1>1 DEF JobOK
<1>f. PICK fresh \in BOOLEAN : fresh = (grant[j.ask.page][j.ask.target] = Null)
  OBVIOUS
<1>3. CASE j.ask.op = "upsert"
  <2> PICK k : k = [j EXCEPT !.pc = "upsert", !.fresh = fresh]
    OBVIOUS
  <2>1. Read(r, k)
    BY <1>3, <1>f DEF ReadExisting
  <2>2. k \in Job /\ k.pc = "upsert" /\ k.ask = j.ask /\ k.who = j.who /\ k.goal = j.goal /\ k.fresh = fresh
    BY DEF Job, Places
  <2>3. JobOK(k)
    BY <1>1, <1>3, <2>2 DEF JobOK
  <2> QED BY <1>1, <1>3, <1>f, <2>1, <2>2, <2>3, ReadIs
<1>4. CASE j.ask.op = "shareInvite"
  <2> PICK u \in User : u = j.ask.target
    BY <1>1, <1>4, AskIs
  <2> PICK goal \in {"admit", "weigh"} : goal = "weigh"
    OBVIOUS
  <2> PICK a \in Asks : a = j.ask
    BY <1>1
  <2> PICK k : k = Resolution(a, u, goal, fresh)
    OBVIOUS
  <2>1. Read(r, k)
    BY <1>4, <1>f DEF ReadExisting
  <2>2. a.op = "shareInvite" /\ a.op # "inviteMember"
    BY <1>4
  <2>3. /\ k \in Job /\ JobOK(k)
        /\ k.pc = "walk" /\ k.ask = a /\ k.who = u /\ k.chain = <<>> /\ k.cursor = a.page
    BY <2>2, ResolutionIs
  <2> QED BY <1>1, <2>1, <2>3, ReadIs
<1> QED BY <1>2, <1>3, <1>4

LEMMA UpsertIs ==
  ASSUME StoreOK, JobsOK, NEW r \in Request, Upsert(r)
  PROVE  /\ StoreOK' /\ JobsOK' /\ Others(r) /\ UNCHANGED <<parent, member>>
         /\ req[r].pc = "upsert" /\ req'[r].pc \in {"idle", "notify"}
         /\ req'[r].pc = "notify" => req'[r].ask = req[r].ask
         /\ req[r].ask \in Asks /\ req[r].ask.op \in {"upsert", "shareInvite"}
         /\ req[r].ask.page \in Page /\ req[r].ask.target \in Subject
         /\ req[r].ask.role \in PageRole
         /\ grant' = [grant EXCEPT ![req[r].ask.page][req[r].ask.target] = req[r].ask.role]
         /\ aware \subseteq aware'
         /\ req[r].ask.target = req[r].ask.user => <<req[r].ask.target, req[r].ask.page>> \in aware'
         /\ req[r].ask.target \in User \ {req[r].ask.user} =>
              \/ req'[r].pc = "notify"
              \/ req[r].ask.op = "upsert" /\ ~req[r].fresh
<1> PICK j \in Job : j = req[r]
  BY SlotIs
<1>1. JobOK(j) /\ j.pc = "upsert" /\ j.ask \in Asks /\ j.ask.op \in {"upsert", "shareInvite"}
  BY SlotIs DEF Upsert, JobOK
<1> PICK p \in Page, t \in Subject, role \in PageRole :
      p = j.ask.page /\ t = j.ask.target /\ role = j.ask.role
  BY <1>1, AskIs
<1>2. /\ grant' = [grant EXCEPT ![p][t] = role]
      /\ row' = (IF grant[p][t] = Null THEN [row EXCEPT ![p][t] = @ + 1] ELSE row)
      /\ aware' = (IF t = j.ask.user THEN aware \cup {<<t, p>>} ELSE aware)
      /\ UNCHANGED <<parent, member, account, invited, served, moves>>
  BY DEF Upsert
<1> PICK k : k = [j EXCEPT !.pc = "notify"]
  OBVIOUS
<1> PICK x : x = (IF t \in User \ {j.ask.user} /\ (j.ask.op = "upsert" => j.fresh) THEN k ELSE Idle)
  OBVIOUS
<1>3. Goto(r, x)
  BY DEF Upsert
<1>4. "notify" \in Places
  BY DEF Places
<1>5. k \in Job /\ k.pc = "notify" /\ k.ask = j.ask /\ k.who = j.who /\ k.goal = j.goal
  BY <1>4, NextPlace
<1>6. t \in User => JobOK(k)
  BY <1>1, <1>5 DEF JobOK
<1>7. x \in Job /\ JobOK(x) /\ x.pc \in {"idle", "notify"} /\ (x.pc = "notify" => x.ask = j.ask)
  BY <1>5, <1>6, IdleIs
<1>8. t \in User \ {j.ask.user} => x.pc = "notify" \/ (j.ask.op = "upsert" /\ ~j.fresh)
  BY <1>5
<1>9. JobsOK' /\ req'[r] = x /\ Others(r)
  BY <1>3, <1>7, GoesTo DEF Others
<1>10. j.ask.user \in User
  BY <1>1, AskIs
<1>11. StoreOK'
  <2>1. grant' \in Grants
    BY <1>2 DEF StoreOK, Grants
  <2>2. row' \in [Page -> [Subject -> Nat]]
    <3>1. CASE grant[p][t] = Null
      <4> PICK f : f = [row[p] EXCEPT ![t] = @ + 1]
        OBVIOUS
      <4>1. row[p] \in [Subject -> Nat]
        BY DEF StoreOK
      <4>2. f \in [Subject -> Nat]
        BY <4>1
      <4>3. row' = [row EXCEPT ![p] = f]
        BY <1>2, <3>1
      <4> QED BY <4>2, <4>3 DEF StoreOK
    <3>2. CASE grant[p][t] # Null
      BY <1>2, <3>2 DEF StoreOK
    <3> QED BY <3>1, <3>2
  <2>3. aware' \subseteq User \X Page
    BY <1>2, <1>10 DEF StoreOK
  <2> QED BY <1>2, <2>1, <2>2, <2>3 DEF StoreOK, Acyclic, Tree
<1>12. aware \subseteq aware' /\ (t = j.ask.user => <<t, p>> \in aware')
  BY <1>2
<1> QED BY <1>1, <1>2, <1>7, <1>8, <1>9, <1>11, <1>12

LEMMA NotifyIs ==
  ASSUME StoreOK, JobsOK, NEW r \in Request, Notify(r)
  PROVE  /\ StoreOK' /\ JobsOK' /\ Others(r) /\ UNCHANGED <<parent, grant, member>>
         /\ req[r].pc = "notify" /\ req'[r].pc = "idle"
         /\ aware' = aware \cup {<<req[r].ask.target, req[r].ask.page>>}
<1>1. /\ Goto(r, Idle) /\ req[r].pc = "notify"
      /\ aware' = aware \cup {<<req[r].ask.target, req[r].ask.page>>}
      /\ UNCHANGED <<parent, grant, row, member, account, invited, served, moves>>
  BY DEF Notify
<1>2. JobsOK' /\ req'[r] = Idle /\ Others(r)
  BY <1>1, IdleIs, GoesTo DEF Others
<1>3. req[r].ask.target \in User /\ req[r].ask.page \in Page
  BY <1>1, SlotIs, AskIs DEF JobOK
<1>4. StoreOK'
  BY <1>1, <1>3 DEF StoreOK, Acyclic, Tree, Grants
<1> QED BY <1>1, <1>2, <1>4, IdleIs

LEMMA FindIs ==
  ASSUME StoreOK, JobsOK, NEW r \in Request, Find(r)
  PROVE  /\ StoreOK' /\ JobsOK' /\ Others(r) /\ UNCHANGED store
         /\ req[r].pc = "find" /\ req'[r].pc \in {"idle", "delete"}
<1> PICK j \in Job : j = req[r]
  BY SlotIs
<1>1. JobOK(j) /\ j.pc = "find" /\ j.ask \in Asks
  BY SlotIs DEF Find
<1>2. CASE Read(r, Idle)
  BY <1>1, <1>2, IdleIs, ReadIs
<1>3. CASE ~Read(r, Idle)
  <2>1. PICK found \in Nat : found = row[j.ask.page][j.ask.target]
    <3>1. j.ask.page \in Page /\ j.ask.target \in Subject
      BY <1>1, AskIs DEF JobOK
    <3> QED BY <3>1 DEF StoreOK
  <2> PICK k : k = [j EXCEPT !.pc = "delete", !.found = found]
    OBVIOUS
  <2>2. Read(r, k)
    BY <1>3, <2>1 DEF Find
  <2>3. k \in Job /\ k.pc = "delete" /\ k.ask = j.ask /\ k.who = j.who /\ k.goal = j.goal
    BY DEF Job, Places
  <2>4. JobOK(k)
    BY <1>1, <2>3 DEF JobOK
  <2> QED BY <1>1, <2>2, <2>3, <2>4, ReadIs
<1> QED BY <1>2, <1>3

LEMMA DeleteIs ==
  ASSUME StoreOK, JobsOK, NEW r \in Request, Delete(r)
  PROVE  /\ StoreOK' /\ JobsOK' /\ Others(r) /\ UNCHANGED <<parent, member, aware>>
         /\ req[r].pc = "delete" /\ req'[r].pc = "idle"
         /\ \A p \in Page, s \in Subject : grant'[p][s] \in {grant[p][s], Null}
<1> PICK p, t : p = req[r].ask.page /\ t = req[r].ask.target
  OBVIOUS
<1>1. /\ Goto(r, Idle) /\ req[r].pc = "delete"
      /\ grant' = grant \/ grant' = [grant EXCEPT ![p][t] = Null]
      /\ UNCHANGED <<parent, row, member, account, invited, aware, served, moves>>
  BY DEF Delete
<1>2. JobsOK' /\ req'[r] = Idle /\ Others(r)
  BY <1>1, IdleIs, GoesTo DEF Others
<1>3. p \in Page /\ t \in Subject
  BY <1>1, SlotIs, AskIs DEF JobOK
<1>4. grant' \in Grants /\ \A q \in Page, s \in Subject : grant'[q][s] \in {grant[q][s], Null}
  <2>1. CASE grant' = grant
    BY <1>1, <2>1 DEF StoreOK
  <2>2. CASE grant' = [grant EXCEPT ![p][t] = Null]
    <3> PICK f : f = [grant[p] EXCEPT ![t] = Null]
      OBVIOUS
    <3>1. grant \in [Page -> [Subject -> PageRole \cup {Null}]] /\ grant' = [grant EXCEPT ![p] = f]
      BY <2>2 DEF StoreOK, Grants
    <3>2. f \in [Subject -> PageRole \cup {Null}] /\ \A s \in Subject : f[s] \in {grant[p][s], Null}
      BY <1>3, <3>1
    <3>3. grant' \in Grants
      BY <1>3, <3>1, <3>2 DEF Grants
    <3>4. \A q \in Page : grant'[q] = IF q = p THEN f ELSE grant[q]
      BY <1>3, <3>1
    <3> QED BY <3>2, <3>3, <3>4
  <2> QED BY <1>1, <2>1, <2>2
<1>5. StoreOK'
  BY <1>1, <1>4 DEF StoreOK, Acyclic, Tree
<1> QED BY <1>1, <1>2, <1>4, <1>5, IdleIs

LEMMA ReadAccountIs ==
  ASSUME StoreOK, JobsOK, NEW r \in Request, ReadAccount(r)
  PROVE  /\ StoreOK' /\ JobsOK' /\ Others(r) /\ UNCHANGED store
         /\ req[r].pc = "account" /\ req'[r].pc \in {"enrol", "invite"}
<1> PICK j \in Job : j = req[r]
  BY SlotIs
<1>1. JobOK(j) /\ j.pc = "account" /\ j.ask \in Asks
  BY SlotIs DEF ReadAccount
<1> PICK next \in {"enrol", "invite"} : next = (IF j.ask.target \in account THEN "enrol" ELSE "invite")
  OBVIOUS
<1> PICK k : k = [j EXCEPT !.pc = next]
  OBVIOUS
<1>2. Read(r, k)
  BY DEF ReadAccount
<1>3. next \in Places
  BY DEF Places
<1>4. k \in Job /\ k.pc = next /\ k.ask = j.ask /\ k.who = j.who /\ k.goal = j.goal
  BY <1>3, NextPlace
<1>5. JobOK(k)
  BY <1>1, <1>4 DEF JobOK
<1> QED BY <1>1, <1>2, <1>4, <1>5, ReadIs

LEMMA ReadMemberIs ==
  ASSUME StoreOK, JobsOK, NEW r \in Request, ReadMember(r)
  PROVE  /\ StoreOK' /\ JobsOK' /\ Others(r) /\ UNCHANGED store
         /\ req[r].pc = "enrol" /\ req'[r].pc \in {"join", "existing"}
<1> PICK j \in Job : j = req[r]
  BY SlotIs
<1>1. JobOK(j) /\ j.pc = "enrol" /\ j.ask \in Asks
  BY SlotIs DEF ReadMember
<1> PICK next \in {"join", "existing"} :
      next = (IF member[j.ask.target] = Null THEN "join" ELSE "existing")
  OBVIOUS
<1> PICK k : k = [j EXCEPT !.pc = next]
  OBVIOUS
<1>2. Read(r, k)
  BY DEF ReadMember
<1>3. next \in Places
  BY DEF Places
<1>4. k \in Job /\ k.pc = next /\ k.ask = j.ask /\ k.who = j.who /\ k.goal = j.goal
  BY <1>3, NextPlace
<1>5. JobOK(k)
  BY <1>1, <1>4 DEF JobOK
<1> QED BY <1>1, <1>2, <1>4, <1>5, ReadIs

LEMMA JoinIs ==
  ASSUME StoreOK, JobsOK, NEW r \in Request, Join(r)
  PROVE  /\ StoreOK' /\ JobsOK' /\ Others(r) /\ UNCHANGED <<parent, grant, aware>>
         /\ req[r].pc = "join" /\ req'[r].pc \in {"idle", "existing"}
         /\ \A u \in User : member[u] # Null => member'[u] = member[u]
<1> PICK j \in Job : j = req[r]
  BY SlotIs
<1>1. JobOK(j) /\ j.pc = "join" /\ j.ask \in Asks
  BY SlotIs DEF Join
<1>2. j.ask.target \in User
  BY <1>1, AskIs DEF JobOK
<1> PICK k : k = [j EXCEPT !.pc = "existing"]
  OBVIOUS
<1>3. "existing" \in Places
  BY DEF Places
<1>4. k \in Job /\ k.pc = "existing" /\ k.ask = j.ask /\ k.who = j.who /\ k.goal = j.goal
  BY <1>3, NextPlace
<1>5. JobOK(k)
  BY <1>1, <1>4 DEF JobOK
<1> PICK t \in User : t = j.ask.target
  BY <1>2
<1>6. /\ UNCHANGED <<parent, grant, row, account, invited, aware, served, moves>>
      /\ \/ member[t] = Null /\ member' = [member EXCEPT ![t] = "guest"] /\ Goto(r, k)
         \/ member' = member /\ Goto(r, Idle)
  BY DEF Join
<1>7. PICK x : (x = k \/ x = Idle) /\ Goto(r, x)
  BY <1>6
<1>8. x \in Job /\ JobOK(x) /\ x.pc \in {"idle", "existing"}
  BY <1>4, <1>5, <1>7, IdleIs
<1>9. JobsOK' /\ req'[r] = x /\ Others(r)
  BY <1>7, <1>8, GoesTo DEF Others
<1>10. /\ member' \in [User -> MemberRole \cup {Null}]
       /\ \A u \in User : member[u] # Null => member'[u] = member[u]
  BY <1>6 DEF StoreOK, MemberRole
<1>11. StoreOK'
  BY <1>6, <1>10 DEF StoreOK, Acyclic, Tree, Grants
<1> QED BY <1>1, <1>6, <1>8, <1>9, <1>10, <1>11

LEMMA InviteIs ==
  ASSUME StoreOK, JobsOK, NEW r \in Request, Invite(r)
  PROVE  /\ StoreOK' /\ JobsOK' /\ Others(r) /\ UNCHANGED <<parent, grant, member, aware>>
         /\ req[r].pc = "invite" /\ req'[r].pc = "idle"
<1> PICK t : t = req[r].ask.target
  OBVIOUS
<1>1. /\ Goto(r, Idle) /\ req[r].pc = "invite"
      /\ invited' = invited \/ invited' = invited \cup {<<t, "guest">>}
      /\ UNCHANGED <<parent, grant, row, member, account, aware, served, moves>>
  BY DEF Invite
<1>2. JobsOK' /\ req'[r] = Idle /\ Others(r)
  BY <1>1, IdleIs, GoesTo DEF Others
<1>3. t \in User /\ "guest" \in MemberRole
  BY <1>1, SlotIs, AskIs DEF JobOK, MemberRole
<1>4. StoreOK'
  BY <1>1, <1>3 DEF StoreOK, Acyclic, Tree, Grants
<1> QED BY <1>1, <1>2, <1>4, IdleIs

-----------------------------------------------------------------------------
(* The steps of no slot.                                                   *)

LEMMA InviteMemberIs ==
  ASSUME StoreOK, JobsOK, NEW ask \in Asks, InviteMember(ask)
  PROVE  StoreOK' /\ JobsOK' /\ UNCHANGED <<parent, grant, member, aware, req>>
<1>1. /\ ask.op = "inviteMember" /\ served' = served + 1
      /\ invited' = invited \cup {<<ask.target, ask.role>>}
      /\ UNCHANGED <<parent, grant, row, member, account, aware, req, moves>>
  BY DEF InviteMember
<1>2. ask.target \in User /\ ask.role \in MemberRole
  BY <1>1, AccessAssumption DEF AccessAssumption
<1>3. StoreOK'
  BY <1>1, <1>2 DEF StoreOK, Acyclic, Tree, Grants
<1> QED BY <1>1, <1>3 DEF JobsOK, JobOK

LEMMA AcceptIs ==
  ASSUME StoreOK, JobsOK, NEW v \in User, NEW role \in MemberRole, Accept(v, role)
  PROVE  /\ StoreOK' /\ JobsOK' /\ UNCHANGED <<parent, grant, aware, req>>
         /\ \A u \in User : member[u] # Null => member'[u] = member[u]
<1>1. /\ invited' = invited \ {<<v, role>>}
      /\ member' = [member EXCEPT ![v] = IF @ = Null THEN role ELSE @]
      /\ UNCHANGED <<parent, grant, row, account, aware, req, served, moves>>
  BY DEF Accept
<1>2. /\ member' \in [User -> MemberRole \cup {Null}]
      /\ \A u \in User : member[u] # Null => member'[u] = member[u]
  BY <1>1 DEF StoreOK
<1>3. StoreOK'
  BY <1>1, <1>2 DEF StoreOK, Acyclic, Tree, Grants
<1> QED BY <1>1, <1>2, <1>3 DEF JobsOK, JobOK

LEMMA RegisterIs ==
  ASSUME StoreOK, JobsOK, NEW u \in User, Register(u)
  PROVE  StoreOK' /\ JobsOK' /\ UNCHANGED <<parent, grant, member, aware, req>>
<1>1. /\ account' = account \cup {u}
      /\ UNCHANGED <<parent, grant, row, member, invited, aware, req, served, moves>>
  BY DEF Register
<1>2. StoreOK'
  BY <1>1 DEF StoreOK, Acyclic, Tree, Grants
<1> QED BY <1>1, <1>2 DEF JobsOK, JobOK

LEMMA MoveIs ==
  ASSUME StoreOK, JobsOK, NEW mv \in Moves, Move(mv[1], mv[2])
  PROVE  /\ StoreOK' /\ JobsOK' /\ UNCHANGED <<grant, member, aware, req>>
         /\ mv[1] \in Page /\ parent' = [parent EXCEPT ![mv[1]] = mv[2]]
<1> PICK p \in Page, q \in Page \cup {Null} : p = mv[1] /\ q = mv[2]
  BY AccessAssumption DEF AccessAssumption
<1>1. /\ parent' = [parent EXCEPT ![p] = q] /\ Acyclic(Page, parent') /\ moves' = moves + 1
      /\ UNCHANGED <<grant, row, member, account, invited, aware, req, served>>
  BY DEF Move
<1>2. parent' \in Tree /\ Acyclic(Page, parent)'
  BY <1>1 DEF StoreOK, Tree, Acyclic
<1>3. StoreOK'
  BY <1>1, <1>2 DEF StoreOK, Grants
<1> QED BY <1>1, <1>3 DEF JobsOK, JobOK

-----------------------------------------------------------------------------
(* Any step.                                                               *)

\* A step changes one of the things that access depends on.
OneWrite ==
  \/ UNCHANGED <<parent, member>>
  \/ /\ UNCHANGED <<parent, grant>>
     /\ \A u \in User : member[u] # Null => member'[u] = member[u]
  \/ /\ UNCHANGED <<grant, member>>
     /\ \E p \in Page, q \in Page \cup {Null} : parent' = [parent EXCEPT ![p] = q]

\* The slot has come to no place that the ghosts watch.
Unwatched(r) == req'[r].pc \notin {"walk", "standing", "grants", "checked", "upsert"}

\* The slot resolves on, and nothing is written.
Reads(r) ==
  /\ UNCHANGED store
  /\ \/ /\ req'[r].pc = "walk" /\ req'[r].chain = <<>> /\ req'[r].cursor = req'[r].ask.page
     \/ Walk(r) \/ ReadStanding(r) \/ ReadGrants(r) \/ Weigh(r)
     \/ req'[r].pc = "upsert" /\ req'[r].ask.op = "upsert"

LEMMA StepIs ==
  ASSUME StoreOK, JobsOK, NEW r \in Request, Step(r)
  PROVE  /\ StoreOK' /\ JobsOK' /\ Others(r) /\ OneWrite
         /\ Unwatched(r) \/ Reads(r)
<1>1. CASE Walk(r)
  BY <1>1, WalkIs DEF Reads, OneWrite, store
<1>2. CASE ReadStanding(r)
  BY <1>2, ReadStandingIs DEF Reads, OneWrite, store
<1>3. CASE ReadGrants(r)
  BY <1>3, ReadGrantsIs DEF Reads, OneWrite, store
<1>4. CASE Admit(r)
  BY <1>4, AdmitIs DEF Unwatched, OneWrite, store
<1>5. CASE Weigh(r)
  BY <1>5, WeighIs DEF Reads, OneWrite, store
<1>6. CASE ReadSubject(r)
  BY <1>6, ReadSubjectIs DEF Unwatched, OneWrite, store
<1>7. CASE ReadExisting(r)
  BY <1>7, ReadExistingIs DEF Reads, OneWrite, store
<1>8. CASE Upsert(r)
  BY <1>8, UpsertIs DEF Unwatched, OneWrite
<1>9. CASE Notify(r)
  BY <1>9, NotifyIs DEF Unwatched, OneWrite
<1>10. CASE Find(r)
  BY <1>10, FindIs DEF Unwatched, OneWrite, store
<1>11. CASE Delete(r)
  BY <1>11, DeleteIs DEF Unwatched, OneWrite
<1>12. CASE ReadAccount(r)
  BY <1>12, ReadAccountIs DEF Unwatched, OneWrite, store
<1>13. CASE ReadMember(r)
  BY <1>13, ReadMemberIs DEF Unwatched, OneWrite, store
<1>14. CASE Join(r)
  BY <1>14, JoinIs DEF Unwatched, OneWrite
<1>15. CASE Invite(r)
  BY <1>15, InviteIs DEF Unwatched, OneWrite
<1> QED
  BY <1>1, <1>2, <1>3, <1>4, <1>5, <1>6, <1>7, <1>8, <1>9, <1>10, <1>11, <1>12, <1>13, <1>14, <1>15
  DEF Step

LEMMA ActIs ==
  ASSUME StoreOK, JobsOK, Act
  PROVE  /\ StoreOK' /\ JobsOK' /\ OneWrite
         /\ \A r \in Request : req'[r] = req[r] \/ Unwatched(r) \/ Reads(r)
<1>1. ASSUME NEW r \in Request, NEW ask \in Asks, Begin(r, ask)
      PROVE  /\ StoreOK' /\ JobsOK' /\ OneWrite
             /\ \A s \in Request : req'[s] = req[s] \/ Unwatched(s) \/ Reads(s)
  <2>1. /\ StoreOK' /\ JobsOK' /\ Others(r) /\ UNCHANGED store
        /\ req'[r].pc = "walk" /\ req'[r].chain = <<>> /\ req'[r].cursor = req'[r].ask.page
    BY <1>1, BeginIs
  <2>2. OneWrite
    BY <2>1 DEF OneWrite, store
  <2>3. Reads(r)
    BY <2>1 DEF Reads
  <2> QED BY <2>1, <2>2, <2>3 DEF Others
<1>2. ASSUME NEW r \in Request, Step(r)
      PROVE  /\ StoreOK' /\ JobsOK' /\ OneWrite
             /\ \A s \in Request : req'[s] = req[s] \/ Unwatched(s) \/ Reads(s)
  BY <1>2, StepIs DEF Others
<1>3. ASSUME NEW ask \in Asks, InviteMember(ask)
      PROVE  StoreOK' /\ JobsOK' /\ OneWrite /\ req' = req
  BY <1>3, InviteMemberIs DEF OneWrite
<1>4. ASSUME NEW v \in User, NEW role \in MemberRole, Accept(v, role)
      PROVE  StoreOK' /\ JobsOK' /\ OneWrite /\ req' = req
  BY <1>4, AcceptIs DEF OneWrite
<1>5. ASSUME NEW u \in User, Register(u)
      PROVE  StoreOK' /\ JobsOK' /\ OneWrite /\ req' = req
  BY <1>5, RegisterIs DEF OneWrite
<1>6. ASSUME NEW mv \in Moves, Move(mv[1], mv[2])
      PROVE  StoreOK' /\ JobsOK' /\ OneWrite /\ req' = req
  <2>1. mv[2] \in Page \cup {Null}
    BY AccessAssumption DEF AccessAssumption
  <2> QED BY <1>6, <2>1, MoveIs DEF OneWrite
<1> QED BY <1>1, <1>2, <1>3, <1>4, <1>5, <1>6 DEF Act

\* What the ghosts of a slot become.
LEMMA WatchIs ==
  ASSUME Watch, NEW r \in Request, NEW u, NEW p, u = req'[r].who, p = req'[r].ask.page
  PROVE  /\ ~Watched(r) => held'[r] = {} /\ changes'[r] = 0
         /\ Watched(r) => /\ RoleOn(u, p)' \in held'[r]
                          /\ held'[r] \subseteq held[r] \cup {RoleOn(u, p)'}
         /\ Watched(r) /\ ~Starts(r) => held[r] \subseteq held'[r]
         /\ Watched(r) /\ ~Starts(r) /\ access' = access => changes'[r] = changes[r]
         /\ Watched(r) /\ ~Starts(r) /\ access' # access =>
              changes'[r] = (IF changes[r] < 2 THEN changes[r] + 1 ELSE changes[r])
         /\ Starts(r) => changes'[r] = 0
<1>1. {RoleOn(w[1], w[2])' : w \in {<<req'[r].who, req'[r].ask.page>>}} = {RoleOn(u, p)'}
  OBVIOUS
<1>2. held'[r] = (IF ~Watched(r) THEN {}
                  ELSE (IF Starts(r) THEN {} ELSE held[r]) \cup {RoleOn(u, p)'})
  <2>1. held'[r] = (IF ~Watched(r) THEN {}
                    ELSE (IF Starts(r) THEN {} ELSE held[r])
                           \cup {RoleOn(w[1], w[2])' : w \in {<<req'[r].who, req'[r].ask.page>>}})
    BY DEF Watch
  <2> QED BY <1>1, <2>1
<1>3. changes'[r] = (IF ~Watched(r) \/ Starts(r) THEN 0
                     ELSE IF access' # access /\ changes[r] < 2 THEN changes[r] + 1 ELSE changes[r])
  BY DEF Watch
<1> QED BY <1>2, <1>3

LEMMA RoleOnTyped ==
  ASSUME StoreOK, NEW u \in User, NEW p \in Page
  PROVE  RoleOn(u, p) \in PageRole \cup {Null}
<1>1. grant \in Grants /\ Acyclic(Page, parent)
  BY DEF StoreOK
<1> QED BY <1>1, RoleTyped, RoleOnIs

LEMMA RoleOnTypedNext ==
  StoreOK' => (\A u \in User, p \in Page : RoleOn(u, p) \in PageRole \cup {Null})'
<1>1. StoreOK => \A u \in User, p \in Page : RoleOn(u, p) \in PageRole \cup {Null}
  BY RoleOnTyped
<1> QED BY <1>1, PTL

LEMMA SlotNext ==
  ASSUME JobsOK', NEW r \in Request, req'[r].pc # "idle"
  PROVE  /\ req'[r] \in Job /\ req'[r].who \in User /\ req'[r].ask.page \in Page
         /\ req'[r].ask \in Asks
<1>1. JobOK(req[r])' /\ req'[r] \in Job
  BY DEF JobsOK
<1>2. req'[r].ask \in Asks
  BY <1>1 DEF JobOK
<1>3. /\ req'[r].ask.user \in User /\ req'[r].ask.page \in Page
      /\ req'[r].ask.op = "shareInvite" => req'[r].ask.target \in User
  BY <1>2, AskIs
<1> QED BY <1>1, <1>2, <1>3 DEF JobOK

LEMMA GhostsTyped ==
  ASSUME GhostsOK, StoreOK', JobsOK', Watch
  PROVE  GhostsOK'
<1>1. ASSUME NEW r \in Request
      PROVE  held'[r] \subseteq PageRole \cup {Null} /\ changes'[r] \in 0..2
  <2>1. held[r] \subseteq PageRole \cup {Null} /\ changes[r] \in 0..2
    BY DEF GhostsOK
  <2>2. CASE ~Watched(r)
    BY <2>2, WatchIs
  <2>3. CASE Watched(r)
    <3>1. PICK u \in User, p \in Page : u = req'[r].who /\ p = req'[r].ask.page
      BY <2>3, SlotNext DEF Watched
    <3>2. RoleOn(u, p)' \in PageRole \cup {Null}
      BY RoleOnTypedNext
    <3>3. /\ held'[r] \subseteq held[r] \cup {RoleOn(u, p)'}
          /\ Starts(r) => changes'[r] = 0
          /\ ~Starts(r) /\ access' = access => changes'[r] = changes[r]
          /\ ~Starts(r) /\ access' # access =>
               changes'[r] = (IF changes[r] < 2 THEN changes[r] + 1 ELSE changes[r])
      BY <2>3, <3>1, WatchIs
    <3> QED BY <2>1, <3>2, <3>3
  <2> QED BY <2>2, <2>3
<1>2. /\ held' \in [Request -> SUBSET (PageRole \cup {Null})]
      /\ changes' \in [Request -> 0..2]
  <2>1. /\ \E f : held' = [r \in Request |-> f[r]]
        /\ \E f : changes' = [r \in Request |-> f[r]]
    <3>1. held' = [r \in Request |-> held'[r]]
      BY DEF Watch
    <3>2. changes' = [r \in Request |-> changes'[r]]
      BY DEF Watch
    <3> QED BY <3>1, <3>2
  <2> QED BY <1>1, <2>1
<1> QED BY <1>2 DEF GhostsOK

\* Type correctness: among others, every request has come to its place with the
\* user, the page and the role that the place works on, and the tree has no cycle.
THEOREM AccessTypes == Spec => []TypeInv
<1>1. Init => TypeInv
  <2> SUFFICES ASSUME Init PROVE TypeInv
    OBVIOUS
  <2>1. StoreOK
    BY AccessAssumption DEF AccessAssumption, Init, StoreOK, Tree, Grants
  <2>2. JobsOK
    BY IdleIs DEF Init, JobsOK
  <2>3. GhostsOK
    BY DEF Init, GhostsOK
  <2> QED BY <2>1, <2>2, <2>3 DEF TypeInv
<1>2. TypeInv /\ [Next]_vars => TypeInv'
  <2> SUFFICES ASSUME TypeInv, [Next]_vars PROVE TypeInv'
    OBVIOUS
  <2>1. StoreOK /\ JobsOK /\ GhostsOK
    BY DEF TypeInv
  <2>2. CASE Act /\ Watch
    BY <2>1, <2>2, ActIs, GhostsTyped DEF TypeInv
  <2>3. CASE UNCHANGED vars
    <3>1. StoreOK'
      BY <2>1, <2>3 DEF StoreOK, vars, Tree, Acyclic, Grants
    <3>2. JobsOK' /\ GhostsOK'
      BY <2>1, <2>3 DEF JobsOK, GhostsOK, JobOK, vars
    <3> QED BY <3>1, <3>2 DEF TypeInv
  <2> QED BY <2>2, <2>3 DEF Next
<1> QED BY <1>1, <1>2, PTL DEF Spec

-----------------------------------------------------------------------------
(* Whoever is granted a page is told.                                      *)

LEMMA ToldIs ==
  ASSUME NEW u, NEW p
  PROVE  /\ Told(u, p) <=> \/ <<u, p>> \in aware
                           \/ \E r \in Request : /\ req[r].pc = "notify" /\ req[r].ask.target = u
                                                 /\ req[r].ask.page = p
         /\ Told(u, p)' <=> \/ <<u, p>> \in aware'
                            \/ \E r \in Request : /\ req'[r].pc = "notify" /\ req'[r].ask.target = u
                                                  /\ req'[r].ask.page = p
BY DEF Told

\* A step forgets no notice, and grants nothing that is not told.
Tells ==
  /\ aware \subseteq aware'
  /\ \A r \in Request :
       req[r].pc = "notify" =>
         req'[r] = req[r] \/ <<req[r].ask.target, req[r].ask.page>> \in aware'
  /\ \A u \in User, p \in Page :
       grant'[p][u] # Null => grant[p][u] # Null \/ Told(u, p) \/ Told(u, p)'
  /\ \A r \in Request, u \in User, p \in Page :
       /\ req'[r].pc = "upsert" /\ req'[r].ask.op = "upsert" /\ ~req'[r].fresh
       /\ u = req'[r].ask.target /\ p = req'[r].ask.page
       => req'[r] = req[r] \/ grant[p][u] # Null

LEMMA TellKept ==
  ASSUME TellInv, Tells, JobsOK'
  PROVE  TellInv'
<1>1. ASSUME NEW u, NEW p, Told(u, p) PROVE Told(u, p)'
  <2>1. CASE <<u, p>> \in aware
    BY <2>1, ToldIs DEF Tells
  <2>2. CASE <<u, p>> \notin aware
    <3>1. PICK r \in Request : req[r].pc = "notify" /\ req[r].ask.target = u /\ req[r].ask.page = p
      BY <1>1, <2>2, ToldIs
    <3>2. req'[r] = req[r] \/ <<u, p>> \in aware'
      BY <3>1 DEF Tells
    <3> QED BY <3>1, <3>2, ToldIs
  <2> QED BY <2>1, <2>2
<1>2. ASSUME NEW u \in User, NEW p \in Page, grant[p][u] # Null PROVE Told(u, p)
  BY <1>2 DEF TellInv, GrantedAreTold, Told
<1>3. ASSUME NEW u \in User, NEW p \in Page, grant'[p][u] # Null PROVE Told(u, p)'
  BY <1>1, <1>2, <1>3 DEF Tells
<1>4. ASSUME NEW r \in Request, NEW u \in User, NEW p \in Page,
             req'[r].pc = "upsert", req'[r].ask.op = "upsert", ~req'[r].fresh,
             u = req'[r].ask.target, p = req'[r].ask.page
      PROVE  Told(u, p)'
  <2>1. CASE req'[r] = req[r]
    <3>1. Told(u, p)
      BY <1>4, <2>1 DEF TellInv
    <3> QED BY <1>1, <3>1
  <2>2. CASE req'[r] # req[r]
    <3>1. grant[p][u] # Null
      BY <1>4, <2>2 DEF Tells
    <3> QED BY <1>1, <1>2, <3>1
  <2> QED BY <2>1, <2>2
<1>5. GrantedAreTold'
  <2>1. ASSUME NEW u \in User, NEW p \in Page, grant'[p][u] # Null
        PROVE  \/ <<u, p>> \in aware'
               \/ \E r \in Request : /\ req'[r].pc = "notify" /\ req'[r].ask.target = u
                                     /\ req'[r].ask.page = p
    BY <1>3, <2>1, ToldIs
  <2> QED BY <2>1 DEF GrantedAreTold
<1>6. ASSUME NEW r \in Request,
             req'[r].pc = "upsert", req'[r].ask.op = "upsert", ~req'[r].fresh, req'[r].ask.target \in User
      PROVE  \/ <<req'[r].ask.target, req'[r].ask.page>> \in aware'
             \/ \E s \in Request : /\ req'[s].pc = "notify" /\ req'[s].ask.target = req'[r].ask.target
                                   /\ req'[s].ask.page = req'[r].ask.page
  <2>1. PICK u \in User, p \in Page : u = req'[r].ask.target /\ p = req'[r].ask.page
    BY <1>6, SlotNext
  <2> QED BY <1>4, <1>6, <2>1, ToldIs
<1> QED BY <1>5, <1>6 DEF TellInv, Told

\* A step that writes no grant, tells nobody and does not come to an upsert.
LEMMA TellsNothing ==
  ASSUME NEW r \in Request, Others(r), grant' = grant, aware' = aware, req[r].pc # "notify",
         req'[r].pc # "upsert" \/ req'[r].ask.op # "upsert"
  PROVE  Tells
BY DEF Tells, Others

LEMMA StepTells ==
  ASSUME StoreOK, JobsOK, TellInv, NEW r \in Request, Step(r)
  PROVE  Tells
<1>1. CASE Walk(r)
  BY <1>1, WalkIs, TellsNothing DEF store
<1>2. CASE ReadStanding(r)
  BY <1>2, ReadStandingIs, TellsNothing DEF store
<1>3. CASE ReadGrants(r)
  BY <1>3, ReadGrantsIs, TellsNothing DEF store
<1>4. CASE Admit(r)
  BY <1>4, AdmitIs, TellsNothing DEF store
<1>5. CASE Weigh(r)
  BY <1>5, WeighIs, TellsNothing DEF store
<1>6. CASE ReadSubject(r)
  BY <1>6, ReadSubjectIs, TellsNothing DEF store
<1>7. CASE ReadExisting(r)
  <2>1. /\ Others(r) /\ grant' = grant /\ aware' = aware /\ req[r].pc # "notify"
        /\ req'[r].ask = req[r].ask
        /\ req'[r].pc = "upsert" => req'[r].fresh = (grant[req[r].ask.page][req[r].ask.target] = Null)
    BY <1>7, ReadExistingIs DEF store
  <2>2. \A s \in Request : s # r => req'[s] = req[s]
    BY <2>1 DEF Others
  <2>3. ASSUME NEW u, NEW p, req'[r].pc = "upsert", ~req'[r].fresh,
               u = req'[r].ask.target, p = req'[r].ask.page
        PROVE  grant[p][u] # Null
    BY <2>1, <2>3
  <2> QED BY <2>1, <2>2, <2>3 DEF Tells
<1>8. CASE Upsert(r)
  <2> PICK p \in Page, t \in Subject : p = req[r].ask.page /\ t = req[r].ask.target
    BY <1>8, UpsertIs
  <2>1. /\ Others(r) /\ req[r].pc = "upsert" /\ req'[r].pc \in {"idle", "notify"}
        /\ req'[r].pc = "notify" => req'[r].ask = req[r].ask
        /\ aware \subseteq aware'
        /\ t = req[r].ask.user => <<t, p>> \in aware'
        /\ t \in User \ {req[r].ask.user} =>
             req'[r].pc = "notify" \/ (req[r].ask.op = "upsert" /\ ~req[r].fresh)
    BY <1>8, UpsertIs
  <2>2. grant' = [grant EXCEPT ![p][t] = req[r].ask.role]
    BY <1>8, UpsertIs
  <2>3. \A q \in Page, s \in Subject : grant'[q][s] = grant[q][s] \/ (q = p /\ s = t)
    BY <2>2 DEF StoreOK, Grants
  <2>4. \A s \in Request : s # r => req'[s] = req[s]
    BY <2>1 DEF Others
  <2>5. t \in User => Told(t, p) \/ Told(t, p)'
    <3>1. CASE t = req[r].ask.user
      BY <2>1, <3>1, ToldIs
    <3>2. CASE t # req[r].ask.user /\ req'[r].pc = "notify"
      BY <2>1, <3>2, ToldIs
    <3>3. CASE t # req[r].ask.user /\ req'[r].pc # "notify"
      BY <2>1, <3>3 DEF TellInv
    <3> QED BY <3>1, <3>2, <3>3
  <2>6. ASSUME NEW u \in User, NEW q \in Page, grant'[q][u] # Null
        PROVE  grant[q][u] # Null \/ Told(u, q) \/ Told(u, q)'
    <3>1. u \in Subject
      BY DEF Subject
    <3>2. CASE q = p /\ u = t
      BY <2>5, <3>2
    <3>3. CASE ~(q = p /\ u = t)
      BY <2>3, <2>6, <3>1, <3>3
    <3> QED BY <3>2, <3>3
  <2> QED BY <2>1, <2>4, <2>6 DEF Tells
<1>9. CASE Notify(r)
  <2>1. /\ Others(r) /\ grant' = grant /\ req'[r].pc = "idle"
        /\ aware' = aware \cup {<<req[r].ask.target, req[r].ask.page>>}
    BY <1>9, NotifyIs
  <2>2. \A s \in Request : s # r => req'[s] = req[s]
    BY <2>1 DEF Others
  <2> QED BY <2>1, <2>2 DEF Tells
<1>10. CASE Find(r)
  BY <1>10, FindIs, TellsNothing DEF store
<1>11. CASE Delete(r)
  <2>1. /\ Others(r) /\ aware' = aware /\ req[r].pc = "delete" /\ req'[r].pc = "idle"
        /\ \A p \in Page, s \in Subject : grant'[p][s] \in {grant[p][s], Null}
    BY <1>11, DeleteIs
  <2>2. \A s \in Request : s # r => req'[s] = req[s]
    BY <2>1 DEF Others
  <2>3. \A p \in Page, u \in User : grant'[p][u] # Null => grant[p][u] # Null
    BY <2>1 DEF Subject
  <2> QED BY <2>1, <2>2, <2>3 DEF Tells
<1>12. CASE ReadAccount(r)
  BY <1>12, ReadAccountIs, TellsNothing DEF store
<1>13. CASE ReadMember(r)
  BY <1>13, ReadMemberIs, TellsNothing DEF store
<1>14. CASE Join(r)
  BY <1>14, JoinIs, TellsNothing
<1>15. CASE Invite(r)
  BY <1>15, InviteIs, TellsNothing
<1> QED
  BY <1>1, <1>2, <1>3, <1>4, <1>5, <1>6, <1>7, <1>8, <1>9, <1>10, <1>11, <1>12, <1>13, <1>14, <1>15
  DEF Step

LEMMA ActTells ==
  ASSUME StoreOK, JobsOK, TellInv, Act
  PROVE  Tells
<1>1. ASSUME NEW r \in Request, NEW ask \in Asks, Begin(r, ask) PROVE Tells
  BY <1>1, BeginIs, TellsNothing DEF store
<1>2. ASSUME NEW r \in Request, Step(r) PROVE Tells
  BY <1>2, StepTells
<1>3. ASSUME req' = req, grant' = grant, aware' = aware PROVE Tells
  BY <1>3 DEF Tells
<1>4. ASSUME NEW ask \in Asks, InviteMember(ask) PROVE Tells
  BY <1>3, <1>4, InviteMemberIs
<1>5. ASSUME NEW v \in User, NEW role \in MemberRole, Accept(v, role) PROVE Tells
  BY <1>3, <1>5, AcceptIs
<1>6. ASSUME NEW u \in User, Register(u) PROVE Tells
  BY <1>3, <1>6, RegisterIs
<1>7. ASSUME NEW mv \in Moves, Move(mv[1], mv[2]) PROVE Tells
  BY <1>3, <1>7, MoveIs
<1> QED BY <1>1, <1>2, <1>4, <1>5, <1>6, <1>7 DEF Act

LEMMA TellInitially == Init => TellInv
<1> SUFFICES ASSUME Init PROVE TellInv
  OBVIOUS
<1>1. \A r \in Request : req[r].pc = "idle"
  BY IdleIs DEF Init
<1>2. GrantedAreTold
  BY DEF Init, GrantedAreTold
<1> QED BY <1>1, <1>2 DEF TellInv

\* The inductive invariant of the notices: an upsert that found a grant, and will
\* tell nobody, leaves it to a notice that was sent or is about to be.
THEOREM AccessInvariant == Spec => []AccessInv
<1>1. Init => TellInv
  BY TellInitially
<1>2. TypeInv /\ TypeInv' /\ TellInv /\ [Next]_vars => TellInv'
  <2> SUFFICES ASSUME TypeInv, TypeInv', TellInv, [Next]_vars PROVE TellInv'
    OBVIOUS
  <2>1. CASE Next
    BY <2>1, ActTells, TellKept DEF Next, TypeInv
  <2>2. CASE UNCHANGED vars
    BY <2>2, TellKept DEF Tells, vars, TypeInv
  <2> QED BY <2>1, <2>2
<1>3. TypeInv /\ TellInv <=> AccessInv
  BY DEF AccessInv
<1> QED BY <1>1, <1>2, <1>3, AccessTypes, PTL DEF Spec

\* "Notify a user the first time they are granted access": who holds a grant
\* on a page made it, has been notified of one there, or is about to be.
THEOREM GranteesAreTold == Spec => []GrantedAreTold
<1>1. AccessInv => GrantedAreTold
  BY DEF AccessInv, TellInv
<1> QED BY <1>1, AccessInvariant, PTL

-----------------------------------------------------------------------------
(* Answers.                                                                *)

LEMMA RoleInSame ==
  ASSUME grant' = grant, NEW par, NEW m, NEW u, NEW p
  PROVE  RoleIn(par, m, u, p)' = RoleIn(par, m, u, p)
BY DEF RoleIn, Applicable

LEMMA RoleOnNow ==
  ASSUME NEW u, NEW p, NEW par, NEW m, par = parent', m = member'[u]
  PROVE  RoleOn(u, p)' = RoleIn(par, m, u, p)'
BY DEF RoleOn, RoleIn, Applicable

LEMMA RoleOnSame ==
  ASSUME access' = access, NEW u, NEW p
  PROVE  RoleOn(u, p)' = RoleOn(u, p)
<1>1. parent' = parent /\ grant' = grant /\ member' = member
  BY DEF access
<1> QED BY <1>1 DEF RoleOn, Applicable


LEMMA SoundNow ==
  ASSUME NEW r \in Request, NEW par, NEW m, NEW u, NEW p
  PROVE  /\ Sound(r, par, m) /\ u = req[r].who /\ p = req[r].ask.page =>
              /\ OnCourse(req[r], par, m, parent, member)
              /\ RoleIn(par, m, u, p) \in held[r]
              /\ changes[r] = 0 => par = parent /\ m = member[u]
BY DEF Sound

LEMMA SoundNext ==
  ASSUME NEW r \in Request, NEW par, NEW m, NEW u, NEW p, u = req'[r].who, p = req'[r].ask.page,
         OnCourse(req'[r], par, m, parent', member'),
         RoleIn(par, m, u, p)' \in held'[r],
         changes'[r] = 0 => par = parent' /\ m = member'[u]
  PROVE  Sound(r, par, m)'
BY DEF Sound, OnCourse, Climbed, ShallowIn, Acyclic

LEMMA AnswerNow ==
  ASSUME NEW r \in Request, AnswerOK(r), NEW u, NEW p, NEW t,
         u = req[r].who, p = req[r].ask.page, t = req[r].ask.target
  PROVE  /\ req[r].pc \in {"walk", "standing", "grants"} /\ changes[r] <= 1 =>
              \E par \in Tree, m \in MemberRole \cup {Null} : Sound(r, par, m)
         /\ req[r].pc = "checked" /\ changes[r] <= 1 => req[r].role \in held[r]
         /\ req[r].pc = "checked" /\ changes[r] = 0 => req[r].role = RoleOn(u, p)
         /\ req[r].pc = "upsert" /\ req[r].ask.op = "shareInvite" /\ req[r].fresh /\ changes[r] = 0 =>
              Rank(RoleOn(t, p)) < Rank(req[r].ask.role)
BY DEF AnswerOK

LEMMA AnswerNext ==
  ASSUME NEW r \in Request, NEW u, NEW p, NEW t,
         u = req'[r].who, p = req'[r].ask.page, t = req'[r].ask.target,
         req'[r].pc \in {"walk", "standing", "grants"} /\ changes'[r] <= 1 =>
           \E par \in Tree, m \in MemberRole \cup {Null} : Sound(r, par, m)',
         req'[r].pc = "checked" /\ changes'[r] <= 1 => req'[r].role \in held'[r],
         req'[r].pc = "checked" /\ changes'[r] = 0 => req'[r].role = RoleOn(u, p)',
         req'[r].pc = "upsert" /\ req'[r].ask.op = "shareInvite" /\ req'[r].fresh /\ changes'[r] = 0 =>
           Rank(RoleOn(t, p)') < Rank(req'[r].ask.role)
  PROVE  AnswerOK(r)'
BY DEF AnswerOK, Rank

\* Only a slot that the ghosts watch has anything to answer for.
LEMMA AnswerUnwatched ==
  ASSUME NEW r \in Request, Unwatched(r)
  PROVE  AnswerOK(r)'
<1>1. req'[r].pc \notin {"walk", "standing", "grants", "checked", "upsert"}
  BY DEF Unwatched
<1> QED BY <1>1, AnswerNext

\* One write while r walks: before or after it, the walk is that of a tree.
LEMMA OneChange ==
  ASSUME StoreOK, StoreOK', OneWrite, Shallow', NEW r \in Request, req'[r] = req[r],
         req[r] \in Job, JobOK(req[r]), req[r].pc \in {"walk", "standing", "grants"},
         NEW u \in User, NEW p \in Page, u = req[r].who, p = req[r].ask.page,
         Sound(r, parent, member[u]),
         changes'[r] # 0, held[r] \subseteq held'[r], RoleOn(u, p)' \in held'[r]
  PROVE  \E par \in Tree, m \in MemberRole \cup {Null} : Sound(r, par, m)'
<1> PICK j \in Job : j = req[r]
  OBVIOUS
<1> PICK par0 \in Tree, m0 \in MemberRole \cup {Null} : par0 = parent /\ m0 = member[u]
  BY DEF StoreOK
<1> PICK par1 \in Tree, m1 \in MemberRole \cup {Null} : par1 = parent' /\ m1 = member'[u]
  BY DEF StoreOK, Tree
<1> PICK top \in Page \cup {Null} : top = (IF j.pc = "walk" THEN j.cursor ELSE Null)
  BY JobIs
<1>1. /\ OnCourse(j, par0, m0, parent, member)
      /\ RoleIn(par0, m0, u, p) \in held'[r]
  BY SoundNow
<1>2. RoleIn(par1, m1, u, p)' \in held'[r]
  BY RoleOnNow
<1>3. /\ Acyclic(Page, par0) /\ ShallowIn(par0) /\ Climbed(par0, p, j.chain, top)
      /\ j.pc = "grants" => m0 = j.standing
  BY <1>1 DEF OnCourse
<1>4. Acyclic(Page, par1) /\ ShallowIn(par1)
  BY DEF StoreOK, Shallow, Acyclic, ShallowIn
<1>5. CASE UNCHANGED <<parent, member>>
  <2>1. OnCourse(j, par1, m1, par1, member')
    BY <1>1, <1>5
  <2> QED BY <1>2, <2>1, SoundNext
<1>6. CASE UNCHANGED <<parent, grant>>
  <2>1. CASE j.pc = "grants"
    <3>1. OnCourse(j, par0, m0, par0, member')
      BY <1>3, <2>1 DEF OnCourse
    <3>2. RoleIn(par0, m0, u, p)' \in held'[r]
      BY <1>1, <1>6, RoleInSame
    <3> QED BY <1>6, <3>1, <3>2, SoundNext
  <2>2. CASE j.pc # "grants"
    <3>1. OnCourse(j, par1, m1, par1, member')
      BY <1>1, <1>6, <2>2 DEF OnCourse
    <3> QED BY <1>2, <3>1, SoundNext
  <2> QED BY <2>1, <2>2
<1>7. CASE UNCHANGED <<grant, member>> /\ (\E x \in Page, q \in Page \cup {Null} :
                                              parent' = [parent EXCEPT ![x] = q])
  <2>1. PICK x \in Page, q \in Page \cup {Null} : par1 = [par0 EXCEPT ![x] = q]
    BY <1>7
  <2>2. \A y \in Page : y # x => par1[y] = par0[y]
    BY <2>1 DEF Tree
  <2>3. j.chain \in Seq(Page)
    BY JobIs
  <2>4. CASE \E i \in 1..Len(j.chain) : j.chain[i] = x
    <3>1. x \notin AboveTop(par0, top)
      BY <1>3, <2>3, <2>4, WalkBehind
    <3>2. j.pc = "walk" => \A y \in Above(Page, par0, j.cursor) : par1[y] = par0[y]
      <4> SUFFICES ASSUME j.pc = "walk", NEW y \in Above(Page, par0, j.cursor)
                   PROVE  par1[y] = par0[y]
        OBVIOUS
      <4>1. j.cursor # Null
        BY NullApart DEF JobOK
      <4>2. y # x /\ y \in Page
        BY <3>1, <4>1 DEF AboveTop, Above
      <4> QED BY <2>2, <4>2
    <3>3. OnCourse(j, par0, m0, par1, member')
      BY <1>1, <1>7, <3>2 DEF OnCourse
    <3>4. RoleIn(par0, m0, u, p)' \in held'[r]
      BY <1>1, <1>7, RoleInSame
    <3> QED BY <3>3, <3>4, SoundNext
  <2>5. CASE \A i \in 1..Len(j.chain) : j.chain[i] # x
    <3>1. \A i \in 1..Len(j.chain) : j.chain[i] \in Page
      BY <2>3
    <3>2. Climbed(par1, p, j.chain, top)
      BY <1>3, <2>2, <2>3, <2>5, <3>1, WalkMoved
    <3>3. OnCourse(j, par1, m1, par1, member')
      BY <1>1, <1>4, <1>7, <3>2 DEF OnCourse
    <3> QED BY <1>2, <3>3, SoundNext
  <2> QED BY <2>4, <2>5
<1> QED BY <1>5, <1>6, <1>7 DEF OneWrite

\* A slot whose handler waits.
LEMMA AnswerWaits ==
  ASSUME StoreOK, StoreOK', JobsOK, GhostsOK, OneWrite, Watch, Shallow',
         NEW r \in Request, req'[r] = req[r], AnswerOK(r)
  PROVE  AnswerOK(r)'
<1> PICK j \in Job : j = req[r]
  BY SlotIs
<1>1. CASE j.pc \notin {"walk", "standing", "grants", "checked", "upsert"}
  BY <1>1, AnswerUnwatched DEF Unwatched
<1>2. CASE j.pc \in {"walk", "standing", "grants", "checked", "upsert"}
  <2> PICK a \in Asks : a = j.ask
    BY <1>2, SlotIs
  <2> PICK u \in User, p \in Page, t \in Subject \cup {Null} : u = j.who /\ p = a.page /\ t = a.target
    BY <1>2, SlotIs, AskIs DEF Ask
  <2>1. Watched(r) /\ ~Starts(r)
    BY <1>2 DEF Watched, Starts
  <2>2. /\ RoleOn(u, p)' \in held'[r] /\ held[r] \subseteq held'[r]
        /\ access' = access => changes'[r] = changes[r]
        /\ access' # access => changes'[r] = (IF changes[r] < 2 THEN changes[r] + 1 ELSE changes[r])
    BY <2>1, WatchIs
  <2>3. changes[r] \in 0..2
    BY DEF GhostsOK
  <2>4. changes'[r] = 0 => access' = access
    BY <2>2, <2>3
  <2>5. changes'[r] <= 1 =>
          changes[r] <= 1 /\ (access' = access \/ (changes[r] = 0 /\ changes'[r] # 0))
    BY <2>2, <2>3
  <2>6. ASSUME j.pc \in {"walk", "standing", "grants"}, changes'[r] <= 1
        PROVE  \E par \in Tree, m \in MemberRole \cup {Null} : Sound(r, par, m)'
    <3>1. PICK par \in Tree, m \in MemberRole \cup {Null} : Sound(r, par, m)
      BY <2>5, <2>6, AnswerNow
    <3>2. CASE access' = access
      <4>1. parent' = parent /\ grant' = grant /\ member' = member
        BY <3>2 DEF access
      <4>2. /\ OnCourse(j, par, m, parent, member) /\ RoleIn(par, m, u, p) \in held[r]
            /\ changes[r] = 0 => par = parent /\ m = member[u]
        BY <3>1, SoundNow
      <4>3. RoleIn(par, m, u, p)' \in held'[r]
        BY <2>2, <4>1, <4>2, RoleInSame
      <4>4. OnCourse(j, par, m, parent', member')
        BY <4>1, <4>2
      <4>5. changes'[r] = 0 => par = parent' /\ m = member'[u]
        BY <2>2, <3>2, <4>1, <4>2
      <4> QED BY <4>3, <4>4, <4>5, SoundNext
    <3>3. CASE changes[r] = 0 /\ changes'[r] # 0
      <4>1. par = parent /\ m = member[u]
        BY <3>1, <3>3, SoundNow
      <4>2. Sound(r, parent, member[u])
        BY <3>1, <4>1
      <4>3. JobOK(req[r])
        BY SlotIs
      <4> QED BY <2>2, <2>6, <3>3, <4>2, <4>3, OneChange
    <3> QED BY <2>5, <2>6, <3>2, <3>3
  <2>7. j.pc = "checked" /\ changes'[r] <= 1 => j.role \in held'[r]
    BY <2>2, <2>5, AnswerNow
  <2>8. j.pc = "checked" /\ changes'[r] = 0 => j.role = RoleOn(u, p)'
    <3> SUFFICES ASSUME j.pc = "checked", changes'[r] = 0 PROVE j.role = RoleOn(u, p)'
      OBVIOUS
    <3>1. access' = access /\ changes[r] = 0
      BY <2>2, <2>4
    <3>2. j.role = RoleOn(u, p)
      BY <3>1, AnswerNow
    <3> QED BY <3>1, <3>2, RoleOnSame
  <2>9. j.pc = "upsert" /\ a.op = "shareInvite" /\ j.fresh /\ changes'[r] = 0 =>
          Rank(RoleOn(t, p)') < Rank(a.role)
    <3> SUFFICES ASSUME j.pc = "upsert", a.op = "shareInvite", j.fresh, changes'[r] = 0
                 PROVE  Rank(RoleOn(t, p)') < Rank(a.role)
      OBVIOUS
    <3>1. access' = access /\ changes[r] = 0
      BY <2>2, <2>4
    <3>2. Rank(RoleOn(t, p)) < Rank(a.role)
      BY <3>1, AnswerNow
    <3> QED BY <3>1, <3>2, RoleOnSame
  <2> QED BY <2>6, <2>7, <2>8, <2>9, AnswerNext
<1> QED BY <1>1, <1>2

\* A slot whose resolution starts: its tree is the tree.
LEMMA AnswerStarts ==
  ASSUME StoreOK', JobsOK', Watch, Shallow', NEW r \in Request, req'[r] # req[r],
         req'[r].pc = "walk", req'[r].chain = <<>>, req'[r].cursor = req'[r].ask.page
  PROVE  AnswerOK(r)'
<1> PICK j \in Job : j = req'[r]
  BY SlotNext
<1> PICK u \in User, p \in Page : u = j.who /\ p = j.ask.page
  BY SlotNext
<1>1. PICK par \in Tree, m \in MemberRole \cup {Null} : par = parent' /\ m = member'[u]
  BY DEF StoreOK, Tree
<1>2. RoleOn(u, p)' \in held'[r]
  BY WatchIs DEF Watched
<1>3. RoleIn(par, m, u, p)' \in held'[r]
  BY <1>1, <1>2, RoleOnNow
<1>4. Acyclic(Page, par) /\ ShallowIn(par)
  BY <1>1 DEF StoreOK, Shallow, Acyclic, ShallowIn
<1>5. Climbed(par, p, j.chain, p)
  BY EmptySeq DEF Climbed
<1>6. OnCourse(j, par, m, parent', member')
  BY <1>1, <1>4, <1>5 DEF OnCourse
<1>7. Sound(r, par, m)'
  BY <1>1, <1>3, <1>6, SoundNext
<1> QED BY <1>7, AnswerNext

LEMMA StoreSame ==
  ASSUME UNCHANGED store
  PROVE  access' = access /\ parent' = parent /\ grant' = grant /\ member' = member
BY DEF store, access

\* Walk stops only at a root.
LEMMA WalkStops ==
  ASSUME NEW par \in Tree, Acyclic(Page, par), ShallowIn(par), NEW p \in Page,
         NEW chain \in Seq(Page), NEW top \in Page \cup {Null}, Climbed(par, p, chain, top),
         top = Null \/ (\E i \in DOMAIN chain : chain[i] = top) \/ Len(chain) = MaxDepth
  PROVE  top = Null
<1> SUFFICES ASSUME top \in Page PROVE FALSE
  OBVIOUS
<1>1. Len(chain) < MaxDepth /\ \A i \in 1..Len(chain) : chain[i] # top
  BY WalkEnds
<1>2. DOMAIN chain = 1..Len(chain) /\ Len(chain) \in Nat /\ MaxDepth \in Nat
  BY AccessAssumption DEF AccessAssumption
<1>3. top # Null
  BY NullApart
<1>4. ~(\E i \in DOMAIN chain : chain[i] = top)
  <2>1. ASSUME NEW i \in DOMAIN chain PROVE chain[i] # top
    <3>1. i \in 1..Len(chain)
      BY <1>2
    <3> QED BY <1>1, <3>1
  <2> QED BY <2>1
<1>5. Len(chain) # MaxDepth
  <2> PICK d \in Nat, l \in Nat : d = MaxDepth /\ l = Len(chain)
    BY <1>2
  <2>1. l < d
    BY <1>1
  <2>2. l # d
    BY <2>1
  <2> QED BY <2>2
<1> QED BY <1>3, <1>4, <1>5

LEMMA AnswerWalks ==
  ASSUME StoreOK, JobsOK, GhostsOK, Watch, NEW r \in Request, Walk(r), AnswerOK(r)
  PROVE  AnswerOK(r)'
<1> PICK j \in Job : j = req[r]
  BY SlotIs
<1> PICK k \in Job : k = req'[r]
  BY WalkIs DEF JobsOK
<1> PICK u \in User, p \in Page : u = j.who /\ p = j.ask.page
  BY SlotIs, AskIs DEF Walk
<1> PICK c, top, up : c = Append(j.chain, top) /\ top = j.cursor /\ up = parent[top]
  OBVIOUS
<1>1. /\ j.pc = "walk" /\ top \in Page /\ k.chain = c /\ k.ask = j.ask /\ k.who = j.who
      /\ \/ ~Ends(r) /\ k.pc = "walk" /\ k.cursor = up
         \/ Ends(r) /\ k.pc = "standing"
      /\ UNCHANGED store
  BY WalkIs DEF Same
<1>2. access' = access /\ parent' = parent /\ grant' = grant /\ member' = member
  BY <1>1, StoreSame
<1>3. c \in Seq(Page) /\ j.chain \in Seq(Page) /\ c # <<>>
  BY <1>1, JobIs, AppendProperties
<1>4. Watched(r) /\ ~Starts(r)
  BY <1>1, <1>3 DEF Watched, Starts
<1>5. held[r] \subseteq held'[r] /\ changes'[r] = changes[r]
  BY <1>1, <1>2, <1>4, WatchIs
<1>6. ASSUME changes'[r] <= 1
      PROVE  \E par \in Tree, m \in MemberRole \cup {Null} : Sound(r, par, m)'
  <2>1. PICK par \in Tree, m \in MemberRole \cup {Null} : Sound(r, par, m)
    BY <1>1, <1>5, <1>6, AnswerNow
  <2>2. /\ OnCourse(j, par, m, parent, member) /\ RoleIn(par, m, u, p) \in held[r]
        /\ changes[r] = 0 => par = parent /\ m = member[u]
    BY <2>1, SoundNow
  <2>3. /\ Acyclic(Page, par) /\ ShallowIn(par) /\ Climbed(par, p, j.chain, top)
        /\ \A q \in Above(Page, par, top) : parent[q] = par[q]
        /\ m = member[u]
    BY <1>1, <2>2 DEF OnCourse
  <2>4. up = par[top] /\ up \in Page \cup {Null}
    BY <1>1, <2>3, SelfAbove DEF Tree
  <2>5. Climbed(par, p, c, up)
    BY <1>1, <1>3, <2>3, <2>4, WalkOn
  <2>6. OnCourse(k, par, m, parent, member)
    <3>1. CASE ~Ends(r)
      <4>1. up \in Page
        BY <1>1, <2>4, <3>1 DEF Ends
      <4>2. Above(Page, par, up) \subseteq Above(Page, par, top)
        BY <1>1, <2>4, <4>1, SelfAbove, AboveClosed, AboveTrans
      <4> QED BY <1>1, <2>3, <2>5, <3>1, <4>2 DEF OnCourse
    <3>2. CASE Ends(r)
      <4>1. up = Null
        <5>1. up = Null \/ (\E i \in DOMAIN c : c[i] = up) \/ Len(c) = MaxDepth
          BY <3>2 DEF Ends
        <5> QED BY <1>3, <2>3, <2>4, <2>5, <5>1, WalkStops
      <4> QED BY <1>1, <2>3, <2>5, <3>2, <4>1 DEF OnCourse
    <3> QED BY <3>1, <3>2
  <2>7. RoleIn(par, m, u, p)' \in held'[r]
    BY <1>2, <1>5, <2>2, RoleInSame
  <2>8. changes'[r] = 0 => par = parent' /\ m = member'[u]
    BY <1>2, <1>5, <2>2
  <2>9. OnCourse(k, par, m, parent', member')
    BY <1>2, <2>6
  <2> QED BY <1>1, <2>7, <2>8, <2>9, SoundNext
<1> QED BY <1>1, <1>6, AnswerNext

LEMMA AnswerStands ==
  ASSUME StoreOK, JobsOK, GhostsOK, Watch, NEW r \in Request, ReadStanding(r), AnswerOK(r)
  PROVE  AnswerOK(r)'
<1> PICK j \in Job : j = req[r]
  BY SlotIs
<1> PICK k \in Job : k = req'[r]
  BY ReadStandingIs DEF JobsOK
<1> PICK u \in User, p \in Page : u = j.who /\ p = j.ask.page
  BY SlotIs, AskIs DEF ReadStanding
<1>1. /\ j.pc = "standing" /\ k.pc = "grants" /\ k.chain = j.chain /\ k.ask = j.ask /\ k.who = j.who
      /\ k.standing = member[u] /\ UNCHANGED store
  BY ReadStandingIs DEF Same
<1>2. access' = access /\ parent' = parent /\ grant' = grant /\ member' = member
  BY <1>1, StoreSame
<1>3. Watched(r) /\ ~Starts(r)
  BY <1>1 DEF Watched, Starts
<1>4. held[r] \subseteq held'[r] /\ changes'[r] = changes[r]
  BY <1>1, <1>2, <1>3, WatchIs
<1>5. ASSUME changes'[r] <= 1
      PROVE  \E par \in Tree, m \in MemberRole \cup {Null} : Sound(r, par, m)'
  <2>1. PICK par \in Tree, m \in MemberRole \cup {Null} : Sound(r, par, m)
    BY <1>1, <1>4, <1>5, AnswerNow
  <2>2. /\ OnCourse(j, par, m, parent, member) /\ RoleIn(par, m, u, p) \in held[r]
        /\ changes[r] = 0 => par = parent /\ m = member[u]
    BY <2>1, SoundNow
  <2>3. OnCourse(k, par, m, parent', member')
    BY <1>1, <2>2 DEF OnCourse
  <2>4. RoleIn(par, m, u, p)' \in held'[r]
    BY <1>2, <1>4, <2>2, RoleInSame
  <2>5. changes'[r] = 0 => par = parent' /\ m = member'[u]
    BY <1>2, <1>4, <2>2
  <2> QED BY <1>1, <2>3, <2>4, <2>5, SoundNext
<1> QED BY <1>1, <1>5, AnswerNext

LEMMA AnswerComes ==
  ASSUME StoreOK, JobsOK, GhostsOK, Watch, NEW r \in Request, ReadGrants(r), AnswerOK(r)
  PROVE  AnswerOK(r)'
<1> PICK j \in Job : j = req[r]
  BY SlotIs
<1> PICK k \in Job : k = req'[r]
  BY ReadGrantsIs DEF JobsOK
<1> PICK u \in User, p \in Page : u = j.who /\ p = j.ask.page
  BY SlotIs, AskIs DEF ReadGrants
<1>1. /\ j.pc = "grants" /\ k.pc = "checked" /\ k.ask = j.ask /\ k.who = j.who
      /\ k.role = Resolve(u, j.standing, j.chain) /\ UNCHANGED store
  BY ReadGrantsIs DEF Same
<1>2. access' = access
  BY <1>1, StoreSame
<1>3. Watched(r) /\ ~Starts(r)
  BY <1>1 DEF Watched, Starts
<1>4. held[r] \subseteq held'[r] /\ changes'[r] = changes[r]
  BY <1>1, <1>2, <1>3, WatchIs
<1>5. ASSUME changes'[r] <= 1
      PROVE  k.role \in held'[r] /\ (changes'[r] = 0 => k.role = RoleOn(u, p)')
  <2>1. PICK par \in Tree, m \in MemberRole \cup {Null} : Sound(r, par, m)
    BY <1>1, <1>4, <1>5, AnswerNow
  <2>2. /\ OnCourse(j, par, m, parent, member) /\ RoleIn(par, m, u, p) \in held[r]
        /\ changes[r] = 0 => par = parent /\ m = member[u]
    BY <2>1, SoundNow
  <2>3. j.chain \in Seq(Page) /\ Acyclic(Page, par) /\ Climbed(par, p, j.chain, Null) /\ m = j.standing
    BY <1>1, <2>2, JobIs DEF OnCourse
  <2>4. k.role = RoleIn(par, m, u, p)
    BY <1>1, <2>3, ResolveIs
  <2>5. changes'[r] = 0 => k.role = RoleOn(u, p)
    BY <1>4, <2>2, <2>4, RoleOnIs
  <2> QED BY <1>2, <1>4, <2>2, <2>4, <2>5, RoleOnSame
<1> QED BY <1>1, <1>5, AnswerNext

LEMMA AnswerUsed ==
  ASSUME StoreOK, JobsOK, GhostsOK, Watch, NEW r \in Request, Weigh(r), AnswerOK(r)
  PROVE  AnswerOK(r)'
<1> PICK j \in Job : j = req[r]
  BY SlotIs
<1> PICK k \in Job : k = req'[r]
  BY WeighIs DEF JobsOK
<1> PICK u \in User, p \in Page : u = j.who /\ p = j.ask.page
  BY SlotIs, AskIs DEF Weigh
<1>1. j.pc = "checked" /\ j.goal = "weigh" /\ JobOK(j) /\ UNCHANGED store
  BY WeighIs, SlotIs
<1>2. u = j.ask.target
  BY <1>1 DEF JobOK
<1>3. access' = access
  BY <1>1, StoreSame
<1>4. CASE k.pc = "idle"
  BY <1>4, AnswerUnwatched DEF Unwatched
<1>5. CASE k.pc # "idle"
  <2>1. /\ k.pc = "upsert" /\ k.ask = j.ask /\ k.fresh = j.fresh
        /\ ShouldWriteGrant(j.role, j.ask.role, ~j.fresh)
    BY <1>5, WeighIs
  <2>2. Watched(r) /\ ~Starts(r)
    BY <2>1 DEF Watched, Starts
  <2>3. changes'[r] = changes[r]
    BY <1>3, <2>2, WatchIs
  <2>4. ASSUME k.fresh, changes'[r] = 0 PROVE Rank(RoleOn(u, p)') < Rank(k.ask.role)
    <3>1. j.role = RoleOn(u, p)
      BY <1>1, <2>3, <2>4, AnswerNow
    <3>2. Rank(j.role) < Rank(j.ask.role)
      BY <2>1, <2>4 DEF ShouldWriteGrant
    <3> QED BY <1>3, <2>1, <3>1, <3>2, RoleOnSame
  <2> QED BY <1>2, <2>1, <2>4, AnswerNext
<1> QED BY <1>4, <1>5

LEMMA AnswersKept ==
  ASSUME StoreOK, StoreOK', JobsOK, JobsOK', GhostsOK, Act, Watch, Shallow', AnswersInv
  PROVE  AnswersInv'
<1>1. OneWrite /\ \A r \in Request : req'[r] = req[r] \/ Unwatched(r) \/ Reads(r)
  BY ActIs
<1>2. ASSUME NEW r \in Request PROVE AnswerOK(r)'
  <2>1. AnswerOK(r)
    BY DEF AnswersInv
  <2>2. CASE req'[r] = req[r]
    BY <1>1, <2>1, <2>2, AnswerWaits
  <2>3. CASE Unwatched(r)
    BY <2>3, AnswerUnwatched
  <2>4. CASE Reads(r) /\ req'[r] # req[r]
    <3>1. CASE Walk(r)
      BY <2>1, <3>1, AnswerWalks
    <3>2. CASE ReadStanding(r)
      BY <2>1, <3>2, AnswerStands
    <3>3. CASE ReadGrants(r)
      BY <2>1, <3>3, AnswerComes
    <3>4. CASE Weigh(r)
      BY <2>1, <3>4, AnswerUsed
    <3>5. CASE req'[r].pc = "upsert" /\ req'[r].ask.op = "upsert"
      BY <3>5, AnswerNext
    <3>6. CASE req'[r].pc = "walk" /\ req'[r].chain = <<>> /\ req'[r].cursor = req'[r].ask.page
      BY <2>4, <3>6, AnswerStarts
    <3> QED BY <2>4, <3>1, <3>2, <3>3, <3>4, <3>5, <3>6 DEF Reads
  <2> QED BY <1>1, <2>2, <2>3, <2>4
<1> QED BY <1>2 DEF AnswersInv

LEMMA AnswersRest ==
  ASSUME AnswersInv, UNCHANGED vars
  PROVE  AnswersInv'
<1>1. /\ parent' = parent /\ grant' = grant /\ member' = member /\ req' = req
      /\ held' = held /\ changes' = changes
  BY DEF vars
<1>2. access' = access
  BY <1>1 DEF access
<1>3. ASSUME NEW r \in Request PROVE AnswerOK(r)'
  <2> PICK j, u, p, t : j = req[r] /\ u = j.who /\ p = j.ask.page /\ t = j.ask.target
    OBVIOUS
  <2>1. AnswerOK(r)
    BY DEF AnswersInv
  <2>2. RoleOn(u, p)' = RoleOn(u, p) /\ RoleOn(t, p)' = RoleOn(t, p)
    BY <1>2, RoleOnSame
  <2>3. ASSUME NEW par, NEW m, Sound(r, par, m) PROVE Sound(r, par, m)'
    <3>1. RoleIn(par, m, u, p)' = RoleIn(par, m, u, p)
      BY <1>1, RoleInSame
    <3>2. /\ OnCourse(j, par, m, parent, member) /\ RoleIn(par, m, u, p) \in held[r]
          /\ changes[r] = 0 => par = parent /\ m = member[u]
      BY <2>3, SoundNow
    <3> QED BY <1>1, <3>1, <3>2, SoundNext
  <2> QED BY <1>1, <2>1, <2>2, <2>3, AnswerNow, AnswerNext
<1> QED BY <1>3 DEF AnswersInv

\* The inductive invariant of the answers, while no page is deeper than the walk.
THEOREM AnswersInvariant == Spec /\ []Shallow => []AnswersInv
<1>1. Init => AnswersInv
  <2> SUFFICES ASSUME Init, NEW r \in Request PROVE AnswerOK(r)
    BY DEF AnswersInv
  <2>1. req[r].pc = "idle"
    BY IdleIs DEF Init
  <2> QED BY <2>1 DEF AnswerOK
<1>2. TypeInv /\ TypeInv' /\ Shallow' /\ AnswersInv /\ [Next]_vars => AnswersInv'
  <2> SUFFICES ASSUME TypeInv, TypeInv', Shallow', AnswersInv, [Next]_vars PROVE AnswersInv'
    OBVIOUS
  <2>1. CASE Next
    BY <2>1, AnswersKept DEF Next, TypeInv
  <2>2. CASE UNCHANGED vars
    BY <2>2, AnswersRest
  <2> QED BY <2>1, <2>2
<1> QED BY <1>1, <1>2, AccessTypes, PTL DEF Spec

\* "The NEAREST level with any matching grant wins; within that level, the most
\* permissive grant wins", while no page is deeper than MAX_ANCESTOR_DEPTH: a
\* resolution during which at most one write changed the tree, the grants or the
\* memberships answers a role that the user had at some moment of it.
THEOREM AnswersWereTrue == Spec /\ []Shallow => []AnswerWasTrue
<1>1. AnswersInv => AnswerWasTrue
  BY DEF AnswersInv, AnswerOK, AnswerWasTrue
<1> QED BY <1>1, AnswersInvariant, PTL

-----------------------------------------------------------------------------
(* No downgrade.                                                           *)

\* The same of the grants after a step.
LEMMA RoleDefaultNext ==
  ASSUME NEW par, NEW m, NEW u, NEW p \in Page,
         \A q \in Above(Page, par, p) : Applicable(u, m, q)' = {}
  PROVE  RoleIn(par, m, u, p)' = DefaultRole(m)
BY DEF RoleIn

LEMMA RoleNearestNext ==
  ASSUME NEW par, Acyclic(Page, par), NEW m, NEW u, NEW p \in Page,
         NEW n \in Above(Page, par, p), Applicable(u, m, n)' # {},
         \A q \in Above(Page, par, p) : Applicable(u, m, q)' # {} => q \in Above(Page, par, n)
  PROVE  RoleIn(par, m, u, p)' = Strongest(Applicable(u, m, n)')
<1> PICK G : G = {q \in Above(Page, par, p) : Applicable(u, m, q)' # {}}
  OBVIOUS
<1>1. n \in G /\ G \subseteq Above(Page, par, n) /\ G \subseteq Page
  BY DEF Above
<1>2. {q \in G : G \subseteq Above(Page, par, q)} = {n}
  <2>1. ASSUME NEW q \in G, G \subseteq Above(Page, par, q) PROVE q = n
    BY <1>1, <2>1, AboveAntisym
  <2> QED BY <1>1, <2>1
<1>3. UNION {Applicable(u, m, q)' : q \in {n}} = Applicable(u, m, n)'
  OBVIOUS
<1>4. RoleIn(par, m, u, p)'
        = Strongest(UNION {Applicable(u, m, q)' : q \in {q \in G : G \subseteq Above(Page, par, q)}})
  BY <1>1 DEF RoleIn
<1> QED BY <1>2, <1>3, <1>4

LEMMA NearestGrantNext ==
  ASSUME NEW par, Acyclic(Page, par), NEW m, NEW u, NEW p \in Page,
         NEW q0 \in Above(Page, par, p), Applicable(u, m, q0)' # {}
  PROVE  \E n \in Above(Page, par, p) :
           /\ Applicable(u, m, n)' # {}
           /\ \A q \in Above(Page, par, p) : Applicable(u, m, q)' # {} => q \in Above(Page, par, n)
<1> PICK G : G = {q \in Above(Page, par, p) : Applicable(u, m, q)' # {}}
  OBVIOUS
<1>1. G \in SUBSET Above(Page, par, p) /\ G # {}
  OBVIOUS
<1>2. PICK n \in G : G \subseteq Above(Page, par, n)
  BY <1>1, NearestExists
<1> QED BY <1>2

\* A grant stronger than what u had on the page takes nothing from u.
LEMMA GrantRaises ==
  ASSUME StoreOK, StoreOK', NEW u \in User, NEW p0 \in Page, NEW asked \in PageRole,
         UNCHANGED <<parent, member>>, grant' = [grant EXCEPT ![p0][u] = asked],
         Rank(RoleOn(u, p0)) < Rank(asked), NEW p \in Page
  PROVE  Rank(RoleOn(u, p)) <= Rank(RoleOn(u, p)')
<1> PICK par, m : par = parent /\ m = member[u]
  OBVIOUS
<1>1. Acyclic(Page, par) /\ grant \in Grants /\ grant' \in Grants
  BY DEF StoreOK, Grants
<1> PICK Old : Old = [q \in Page |-> Applicable(u, m, q)]
  OBVIOUS
<1> PICK New : New = [q \in Page |-> Applicable(u, m, q)']
  OBVIOUS
<1>2. \A q \in Page : Old[q] = Applicable(u, m, q) /\ New[q] = Applicable(u, m, q)'
  OBVIOUS
<1>3. \A q \in Page : q # p0 => New[q] = Old[q]
  <2>1. ASSUME NEW q \in Page, q # p0 PROVE grant'[q] = grant[q]
    BY <1>1, <2>1 DEF Grants
  <2> QED BY <1>2, <2>1 DEF Applicable
<1>4. New[p0] \in SUBSET PageRole /\ asked \in New[p0]
  <2>1. grant'[p0][u] = asked /\ asked # Null
    BY <1>1, AccessAssumption DEF Grants, Subject, AccessAssumption
  <2>2. \A s \in Subject : grant'[p0][s] \in PageRole \cup {Null}
    BY <1>1 DEF Grants
  <2>3. New[p0] = {grant'[p0][s] : s \in {u} \cup (IF m = Null THEN {} ELSE {Everyone})} \ {Null}
    BY <1>2 DEF Applicable
  <2> QED BY <2>1, <2>2, <2>3 DEF Subject
<1>5. Strongest(New[p0]) \in PageRole /\ Rank(asked) <= Rank(Strongest(New[p0]))
  BY <1>4, StrongestIs
<1>6. RoleOn(u, p) = RoleIn(par, m, u, p) /\ RoleOn(u, p0) = RoleIn(par, m, u, p0)
  BY RoleOnIs
<1>7. RoleOn(u, p)' = RoleIn(par, m, u, p)'
  BY RoleOnNow
<1> PICK A : A = Above(Page, par, p)
  OBVIOUS
<1>8. A \subseteq Page
  BY DEF Above
<1>9. RoleOn(u, p) \in PageRole \cup {Null} /\ RoleOn(u, p0) \in PageRole \cup {Null}
  BY RoleOnTyped
\* The same page decides as before.
<1>10. ASSUME NEW n \in A, n # p0, New[n] # {}, \A q \in A : New[q] # {} => q \in Above(Page, par, n)
       PROVE  RoleOn(u, p)' = RoleOn(u, p)
  <2>1. \A q \in A : Old[q] # {} => q \in Above(Page, par, n)
    BY <1>3, <1>4, <1>8, <1>10
  <2>2. Old[n] = New[n]
    BY <1>3, <1>8, <1>10
  <2>3. RoleIn(par, m, u, p) = Strongest(Old[n])
    BY <1>1, <1>2, <1>8, <1>10, <2>1, <2>2, RoleNearest
  <2>4. RoleIn(par, m, u, p)' = Strongest(New[n])
    BY <1>1, <1>2, <1>8, <1>10, RoleNearestNext
  <2> QED BY <1>6, <1>7, <2>2, <2>3, <2>4
\* The page that was granted decides.
<1>11. ASSUME p0 \in A, \A q \in A : New[q] # {} => q \in Above(Page, par, p0)
       PROVE  Rank(RoleOn(u, p)) <= Rank(RoleOn(u, p)')
  <2>1. \A q \in A : Old[q] # {} => q \in Above(Page, par, p0)
    BY <1>3, <1>4, <1>8, <1>11
  <2>2. RoleIn(par, m, u, p)' = Strongest(New[p0])
    <3>1. Applicable(u, m, p0)' # {} /\ New[p0] = Applicable(u, m, p0)'
      BY <1>2, <1>4
    <3>2. \A q \in Above(Page, par, p) : Applicable(u, m, q)' # {} => q \in Above(Page, par, p0)
      BY <1>2, <1>8, <1>11
    <3> QED BY <1>1, <1>11, <3>1, <3>2, RoleNearestNext
  <2>3. RoleOn(u, p) = RoleOn(u, p0)
    <3>1. Above(Page, par, p0) \subseteq A
      BY <1>11, AboveTrans
    <3>2. CASE \A q \in A : Old[q] = {}
      <4>1. RoleIn(par, m, u, p) = DefaultRole(m) /\ RoleIn(par, m, u, p0) = DefaultRole(m)
        BY <1>2, <1>8, <3>1, <3>2, RoleDefault
      <4> QED BY <1>6, <4>1
    <3>3. CASE \E q \in A : Old[q] # {}
      <4>1. PICK n \in A : Old[n] # {} /\ \A q \in A : Old[q] # {} => q \in Above(Page, par, n)
        BY <1>1, <1>2, <1>8, <3>3, NearestGrant
      <4>2. n \in Above(Page, par, p0)
        BY <2>1, <4>1
      <4>3. RoleIn(par, m, u, p) = Strongest(Old[n])
        BY <1>1, <1>2, <1>8, <4>1, RoleNearest
      <4>4. RoleIn(par, m, u, p0) = Strongest(Old[n])
        BY <1>1, <1>2, <1>8, <3>1, <4>1, <4>2, RoleNearest
      <4> QED BY <1>6, <4>3, <4>4
    <3> QED BY <3>2, <3>3
  <2> QED BY <1>5, <1>7, <1>9, <2>2, <2>3, Ranks
<1>12. CASE \A q \in A : New[q] = {}
  <2>1. p0 \notin A
    BY <1>4, <1>12
  <2>2. \A q \in A : Old[q] = {}
    BY <1>3, <1>8, <1>12, <2>1
  <2>3. RoleIn(par, m, u, p) = DefaultRole(m) /\ RoleIn(par, m, u, p)' = DefaultRole(m)
    BY <1>2, <1>8, <1>12, <2>2, RoleDefault, RoleDefaultNext
  <2> QED BY <1>6, <1>7, <1>9, <2>3, Ranks
<1>13. CASE \E q \in A : New[q] # {}
  <2>1. PICK n \in A : New[n] # {} /\ \A q \in A : New[q] # {} => q \in Above(Page, par, n)
    BY <1>1, <1>2, <1>8, <1>13, NearestGrantNext
  <2>2. CASE n = p0
    BY <1>11, <2>1, <2>2
  <2>3. CASE n # p0
    BY <1>9, <1>10, <2>1, <2>3, Ranks
  <2> QED BY <2>2, <2>3
<1> QED BY <1>12, <1>13

\* Only Upsert takes a slot from its upsert.
LEMMA UpsertActs ==
  ASSUME StoreOK, JobsOK, NEW r \in Request, req[r].pc = "upsert", req'[r] # req[r], Act
  PROVE  Upsert(r)
<1>1. ASSUME NEW s \in Request, NEW ask \in Asks, Begin(s, ask) PROVE FALSE
  BY <1>1, BeginIs DEF Others
<1>2. ASSUME NEW s \in Request, Step(s) PROVE s = r
  BY <1>2, StepIs DEF Others
<1>3. ~(\E ask \in Asks : InviteMember(ask)) /\ ~(\E u \in User : Register(u))
  BY InviteMemberIs, RegisterIs
<1>4. ~(\E v \in User, role \in MemberRole : Accept(v, role))
  BY AcceptIs
<1>5. ~(\E mv \in Moves : Move(mv[1], mv[2]))
  BY MoveIs
<1>6. Step(r)
  BY <1>1, <1>2, <1>3, <1>4, <1>5 DEF Act
<1> QED
  BY <1>6 DEF Step, Walk, ReadStanding, ReadGrants, Admit, Weigh, ReadSubject, ReadExisting, Notify,
              Find, Delete, ReadAccount, ReadMember, Join, Invite

\* "No-downgrade guard", while no page is deeper than MAX_ANCESTOR_DEPTH: sharing
\* a page by address with somebody who had no grant on it never takes a right
\* away, on that page or on any page below it, when no other write came between
\* the check and the grant; and an existing member keeps their role.
THEOREM InvitesNeverLower == Spec /\ []Shallow => InviteNeverLowers
<1>1. ASSUME TypeInv, TypeInv', AnswersInv, [Next]_vars
      PROVE  [\A u \in User :
                /\ \A r \in Request :
                     FirstGrant(r, "shareInvite", u) /\ changes[r] = 0 => NeverLowers(u)
                /\ member[u] # Null => member'[u] = member[u]]_vars
  <2> SUFFICES ASSUME Act, NEW u \in User
               PROVE  /\ \A r \in Request :
                           FirstGrant(r, "shareInvite", u) /\ changes[r] = 0 => NeverLowers(u)
                      /\ member[u] # Null => member'[u] = member[u]
    BY <1>1 DEF Next
  <2>1. StoreOK /\ JobsOK /\ StoreOK'
    BY <1>1 DEF TypeInv
  <2>2. ASSUME NEW r \in Request, FirstGrant(r, "shareInvite", u), changes[r] = 0, NEW p \in Page
        PROVE  Rank(RoleOn(u, p)) <= Rank(RoleOn(u, p)')
    <3>1. /\ req[r].pc = "upsert" /\ req[r].ask.op = "shareInvite" /\ req[r].fresh
          /\ req[r].ask.target = u /\ req'[r] # req[r]
      BY <2>2 DEF FirstGrant
    <3>2. Upsert(r)
      BY <2>1, <3>1, UpsertActs
    <3>p. PICK p0 \in Page, asked \in PageRole : p0 = req[r].ask.page /\ asked = req[r].ask.role
      BY <2>1, <3>2, UpsertIs
    <3>3. UNCHANGED <<parent, member>> /\ grant' = [grant EXCEPT ![p0][u] = asked]
      BY <2>1, <3>1, <3>2, <3>p, UpsertIs
    <3>4. AnswerOK(r)
      BY <1>1 DEF AnswersInv
    <3>5. Rank(RoleOn(u, p0)) < Rank(asked)
      BY <2>2, <3>1, <3>p, <3>4, AnswerNow
    <3> QED BY <2>1, <3>3, <3>5, GrantRaises
  <2>3. member[u] # Null => member'[u] = member[u]
    BY <2>1, ActIs DEF OneWrite
  <2> QED BY <2>2, <2>3 DEF NeverLowers, Rank
<1>2. TypeInv /\ TypeInv' /\ AnswersInv /\ [Next]_vars =>
        [\A u \in User :
           /\ \A r \in Request :
                FirstGrant(r, "shareInvite", u) /\ changes[r] = 0 => NeverLowers(u)
           /\ member[u] # Null => member'[u] = member[u]]_vars
  BY <1>1
<1> QED BY <1>2, AccessTypes, AnswersInvariant, PTL DEF Spec, InviteNeverLowers
=============================================================================
