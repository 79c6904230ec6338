\* Two browsers with an edit each, one API handler at a time, one fault, four
\* things users, networks and owners do.
CONSTANTS
  Client = {ann, bob}
  Number <- MCNumber
  Wordless <- MCWordless
  Job = {j1}
  Closed = Closed
  MaxEvents = 4
  MaxFaults = 1
SPECIFICATION Spec
INVARIANTS
  ReadersNeverWrite
  DueOrStored
  IndexSettles
PROPERTIES
  KeepsHistory
  EditsArrive
CHECK_DEADLOCK FALSE
