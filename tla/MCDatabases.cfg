CONSTANTS
  d1 = d1  d2 = d2  d3 = d3
  n1 = n1  n2 = n2  n3 = n3  p1 = p1  p2 = p2
  v1 = v1  v2 = v2  v3 = v3  v4 = v4
  r1 = r1  r2 = r2  j1 = j1  j2 = j2
  Database = {d1, d2, d3}
  Existing = {d1, d2}
  Property = {n1, n2, n3, p1, p2}
  View = {v1, v2, v3, v4}
  Row = {r1, r2}
  NameOf <- MCNameOf
  ViewOf <- MCViewOf
  Home <- MCHome
  Job = {j1, j2}
  MaxRequests = 4
  None = None  Unused = Unused  Gone = Gone
  t1 = t1  t2 = t2  u1 = u1  u2 = u2
  Tab = {t1, t2}
  User = {u1, u2}
  UserOf <- MCUserOf
  Attribute = {name, other}
  TitleAttribute = name
  Value = {a, bad}
  Writer = {j1, j2}
  MaxWrites = 2
  MaxFaults = 1
  Unset = Unset
SPECIFICATION MCSpec
SYMMETRY Alike
INVARIANTS MainOnesExist LinksMirrored CopiesFollow TabsSettle
\* The requests are used up.
CHECK_DEADLOCK FALSE
