\* Three pages in every possible forest and order, one more id, two slots, two
\* requests.
CONSTANTS
  Null = Null
  p1 = p1
  p2 = p2
  p3 = p3
  p4 = p4
  r1 = r1
  r2 = r2
  w1 = w1
  w2 = w2
  KeyUnit = 16
  Page <- MCPage
  Workspace <- MCWorkspace
  Request <- MCRequest
  InitialPages <- MCInitialPages
  InitialKeys <- MCInitialKeys
  HomeWorkspace <- MCHome
  MaxRequests = 2
SPECIFICATION MCSpec
INVARIANT
  NoCycles
CHECK_DEADLOCK FALSE
