\* Two tabs, two calls, two handlers at once, three tokens, one reset link, one
\* fault, five things users do.
CONSTANTS
  None = None
  Token <- MCTokens
  Tab = {tab1, tab2}
  Call = {c1, c2}
  Job = {j1, j2}
  Link = {l1}
  MaxFaults = 1
  MaxEvents = 5
  p = p s = s va = va vb = vb
  Views = {va, vb}
  Default = va
  Columns <- MCColumns
  Existed = {p}
  TypeOf <- MCTypeOf
  Operators <- MCOperators
  Group = group
  Name = typed
  MaxSent = 3
  Nothing = Nothing
  Document = {d1, d2, d3}
  Existing = {d1, d2}
  Entry = {x, y}
  Untitled = x
  Version = {v1, v2}
  MaxActs = 3
  MaxSlips = 1
  Missing = Missing
SPECIFICATION MCSpec
INVARIANTS
  CalmKeepsSessions
  OneLiveTokenPerSession
  RevokedSessionsStayEnded
  ResetEndsOldSessions
  ScreenSettles
PROPERTIES
  WaitingCallsEnd
  ControlsKeepTheRest
CHECK_DEADLOCK FALSE
