\* One browser, two edits, no fault: enough to store, edit, restore and reload.
CONSTANTS
  Client = {ann}
  Number <- MCTwoEdits
  Wordless <- MCWordless
  Job = {j1}
  Closed = Closed
  MaxEvents = 4
  MaxFaults = 0
SPECIFICATION Spec
INVARIANTS
  RestoredIsShown
CHECK_DEADLOCK FALSE
