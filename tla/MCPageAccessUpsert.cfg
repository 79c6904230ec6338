\* Three pages in two trees, an owner, a member and a person without an
\* account, two slots, two requests, one move.
CONSTANTS
  Null = Null
  Everyone = Everyone
  top = top
  mid = mid
  leaf = leaf
  ann = ann
  bob = bob
  cyd = cyd
  r1 = r1
  r2 = r2
  MaxDepth = 3
  Page <- MCPage
  User <- MCUser
  Request <- MCRequest
  Accounts <- MCAccounts
  InitialMember <- MCMember
  InitialGrants <- MCGrants
  Asks <- MCAsks
  InitialParents <- MCParents
  Moves <- MCMoves
  MaxRequests = 2
  MaxMoves = 1
SPECIFICATION Spec
PROPERTY
  UpsertNeverLowers
CHECK_DEADLOCK FALSE
