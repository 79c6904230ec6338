CONSTANTS
  Reader = {u1, u2}
  Page = {p1, p2}
  Job = {j1, j2}
  MaxComments = 3
  MaxMentions = 1
  MaxDisturbed = 1
  NoRoot = NoRoot
  above = above below = below
  Pages = {above, below}
  ParentOf <- MCParentOf
  Publisher = {j1, j2}
  Words = {w1, w2}
  TitleWord = w1
  Elements = {link, script}
  Allowed = {link}
  MaxPublishes = 3
  MaxNumber = 3
  None = None
  Starable = {f1, f2}
  Targets = {g1, g2}
  Linkable = {g1}
  MaxToggles = 3
  MaxEdits = 3
  MaxMishaps = 2
  Null = Null
  s1 = s1 s2 = s2 e1 = e1 e2 = e2 q1 = q1 q2 = q2
  Browser = {j1, j2}
  Subject = {s1, s2}
  Email = {e1, e2, e3}
  MaxLogins = 2
  MaxCallbacks = 2
  MaxOutside = 2
  NoOne = NoOne
  Term = {q1, q2}
  Blank = Blank
  Hits <- MCHits
  Titled <- MCTitled
  Members <- MCMembers
  Readable = {"p2", "p3", "p4"}
  Self = "cyd"
  Limit = 2
  FavoriteList <- MCFavoriteList
  Actions <- MCActions
  MaxTyped = 4
  MaxUnanswered = 1
  Off = Off
SPECIFICATION Spec
INVARIANTS ThreadsTell TabKeepsUp OneAccountEach MenusSettle
PROPERTY AddressStays
SYMMETRY Alike
CHECK_DEADLOCK FALSE
