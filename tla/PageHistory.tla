----------------------------- MODULE PageHistory -----------------------------
(***************************************************************************)
(* What the sync server and the version history promise of one document,   *)
(* whoever edits it: the stored row goes forward by saves of the open      *)
(* document and back only to a listed version, a version is a state the    *)
(* row has had and is never taken off the list, and a document is put away *)
(* only when its row holds all of it, unless something broke.              *)
(* CollabDoc implements it.                                                *)
(***************************************************************************)
EXTENDS Naturals

CONSTANTS
  Update,  \* the edits ever made; a state of the document is a set of them
  Closed   \* the document is not in memory

VARIABLES
  live,     \* the open document, or Closed
  row,      \* the stored state
  past,     \* every state the row has had
  versions, \* the listed versions
  turned,   \* a version was put back and no save has been made since
  faults    \* crashes and failed writes so far

vars == <<live, row, past, versions, turned, faults>>

Init ==
  /\ live = Closed
  /\ row = {} /\ past = {{}} /\ versions = {}
  /\ turned = FALSE /\ faults = 0

Open == live = Closed /\ live' = row /\ UNCHANGED <<row, past, versions, turned, faults>>

Accept ==
  /\ live # Closed
  /\ \E u \in Update \ live : live' = live \cup {u}
  /\ UNCHANGED <<row, past, versions, turned, faults>>

\* A save never forgets what is stored, save for a state put there by a restore.
Save ==
  /\ live # Closed
  /\ row' \in SUBSET live
  /\ row \subseteq row' \/ turned
  /\ past' = past \cup {row'}
  /\ turned' = FALSE
  /\ UNCHANGED <<live, versions, faults>>

Capture ==
  /\ \E v \in past \ {{}} : versions' = versions \cup {v}
  /\ UNCHANGED <<live, row, past, turned, faults>>

Restore ==
  /\ row' \in versions
  /\ past' = past \cup {row'}
  /\ turned' = TRUE
  /\ UNCHANGED <<live, versions, faults>>

Close ==
  /\ live # Closed
  /\ live' = Closed
  /\ live \subseteq row \/ turned \/ faults > 0
  /\ UNCHANGED <<row, past, versions, turned, faults>>

Break ==
  /\ faults' = faults + 1
  /\ live' \in {live, Closed}
  /\ UNCHANGED <<row, past, versions, turned>>

Next == Open \/ Accept \/ Save \/ Capture \/ Restore \/ Close \/ Break

Spec == Init /\ [][Next]_vars
=============================================================================
